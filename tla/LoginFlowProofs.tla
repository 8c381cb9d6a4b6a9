---------------------------- MODULE LoginFlowProofs ----------------------------
(***************************************************************************)
(* Proofs about LoginFlow, for any number of addresses and attempts.       *)
(***************************************************************************)
EXTENDS LoginFlow, FiniteSetTheorems, SequenceTheorems, TLAPS

(* The inductive invariant.  That a profile lands at its own uid rests on   *)
(* the session a callback reads, which rests on there being one attempt and *)
(* one answer at a time, behind a login screen whose button is disabled.    *)

Types ==
  /\ segment \in {"login", "register"}
  /\ picked \in BOOLEAN
  /\ enabled \in BOOLEAN
  /\ home \in 0..MaxAttempts
  /\ stack \in Seq(1..MaxAttempts)
  /\ session \in Emails \cup {NoUser}
  /\ pending \subseteq Calls
  /\ wire \subseteq Calls
  /\ answers \subseteq [call: Calls, result: Results]
  /\ accounts \subseteq Emails
  /\ profiles \in [Emails -> Profiles \cup {NoProfile}]
  /\ attempts \in 0..MaxAttempts

\* One call waits for one answer, behind a login screen with no other way on.
Single ==
  /\ \A c, d \in pending: c = d
  /\ \A a, b \in answers: a = b
  /\ \A a \in answers: a.call \in pending
  /\ pending # {} => ~ enabled /\ stack = <<>> /\ home \in 1..MaxAttempts
  /\ \A c \in pending: c.attempt = home
  /\ Len(stack) <= 1

\* A call for the profile carries the uid of the account it was typed for.
OwnCall(c) ==
  /\ c.step # "updateChildValues" => c.uid = NoUser
  /\ c.step = "updateChildValues" => c.uid = c.email /\ c.email \in accounts

OwnAnswer(a) ==
  /\ a.call.step \in AuthSteps /\ a.result # "error" => a.call.email \in accounts
  /\ a.result = "signedIn" => a.call.step \in AuthSteps /\ session = a.call.email
  /\ a.call.step = "updateChildValues" /\ a.result = "ok" =>
       profiles[a.call.uid] # NoProfile

Owned ==
  /\ \A c \in pending \cup wire: OwnCall(c)
  /\ \A c \in pending: c.step = "updateChildValues" => session = c.uid
  /\ \A a \in answers: OwnAnswer(a)

IInv == Types /\ Single /\ Owned /\ HomeIsSignedIn /\ ProfileIsOwn

-----------------------------------------------------------------------------

LEMMA InitInv == Init => IInv
<1> SUFFICES ASSUME Init PROVE IInv
  OBVIOUS
<1>1. Types
  <2>1. 0 \in 0..MaxAttempts /\ <<>> \in Seq(1..MaxAttempts)
    BY MaxAttemptsAssumption, EmptySeq
  <2> QED
    BY <2>1 DEF Init, Types
<1>2. Single /\ Owned
  BY DEF Init, Single, Owned
<1>3. HomeIsSignedIn /\ ProfileIsOwn
  BY DEF Init, HomeIsSignedIn, ProfileIsOwn
<1> QED
  BY <1>1, <1>2, <1>3 DEF IInv

\* What a record of type Calls holds, and what EXCEPT does to it.
LEMMA CallFields ==
  ASSUME NEW c \in Calls
  PROVE  /\ c.step \in Steps /\ c.email \in Emails /\ c.name \in Names
         /\ c.uid \in Emails \cup {NoUser} /\ c.attempt \in 1..MaxAttempts
         /\ \A s \in Steps: /\ [c EXCEPT !.step = s] \in Calls
                            /\ [c EXCEPT !.step = s].step = s
                            /\ [c EXCEPT !.step = s].uid = c.uid
                            /\ [c EXCEPT !.step = s].email = c.email
                            /\ [c EXCEPT !.step = s].attempt = c.attempt
BY DEF Calls

LEMMA AnswerFields ==
  ASSUME NEW a \in [call: Calls, result: Results]
  PROVE  /\ a.call \in Calls /\ a.result \in Results
         /\ [a EXCEPT !.result = "signedIn"] \in [call: Calls, result: Results]
         /\ [a EXCEPT !.result = "signedIn"].call = a.call
         /\ [a EXCEPT !.result = "signedIn"].result = "signedIn"
BY DEF Results

-----------------------------------------------------------------------------
(* The login screen.                                                       *)

LEMMA StepForm ==
  ASSUME IInv, HandleToggle \/ ShowAvatar \/ SelectAvatar \/ UNCHANGED vars
  PROVE  IInv'
<1>1. /\ segment' \in {"login", "register"} /\ picked' \in BOOLEAN
      /\ UNCHANGED <<enabled, home, stack, session, calls, server, attempts>>
  BY DEF HandleToggle, ShowAvatar, SelectAvatar, vars, form, IInv, Types
<1>2. Types'
  BY <1>1 DEF IInv, Types, calls, server
<1>3. Single'
  BY <1>1 DEF IInv, Single, calls
<1>4. Owned'
  BY <1>1 DEF IInv, Owned, OwnCall, OwnAnswer, calls, server
<1>5. HomeIsSignedIn' /\ ProfileIsOwn'
  BY <1>1 DEF IInv, HomeIsSignedIn, ProfileIsOwn, server
<1> QED
  BY <1>2, <1>3, <1>4, <1>5 DEF IInv

LEMMA StepLoginOrRegister ==
  ASSUME IInv, NEW e \in Emails, NEW n \in Names, LoginOrRegister(e, n)
  PROVE  IInv'
<1> DEFINE Started(c) == /\ pending' = {c} /\ wire' = wire \cup {c}
                         /\ answers' = {} /\ enabled' = FALSE
                         /\ c \in Calls /\ c.step # "updateChildValues"
                         /\ c.uid = NoUser /\ c.attempt = attempts + 1
<1>1. /\ pending = {} /\ answers = {} /\ stack = <<>> /\ stack' = stack
      /\ attempts + 1 \in 1..MaxAttempts
      /\ attempts' = attempts + 1 /\ home' = attempts + 1
      /\ UNCHANGED <<segment, picked, session, server>>
  BY MaxAttemptsAssumption
  DEF LoginOrRegister, OnLoginScreen, IInv, Types, Single
<1>2. \A s \in Steps: /\ Call(s, e, n) \in Calls /\ Call(s, e, n).step = s
                      /\ Call(s, e, n).uid = NoUser
                      /\ Call(s, e, n).attempt = attempts + 1
  BY <1>1 DEF Call, Calls
<1>3. \/ \E c \in Calls: Started(c)
      \/ pending' = {} /\ wire' = wire /\ answers' = {} /\ enabled' = TRUE
  BY <1>1, <1>2 DEF LoginOrRegister, HandleLogin, HandleRegister, Start, calls, Steps
<1>4. Types'
  <2>1. home' \in 0..MaxAttempts /\ attempts' \in 0..MaxAttempts
    BY <1>1
  <2>2. /\ pending' \subseteq Calls /\ wire' \subseteq Calls /\ enabled' \in BOOLEAN
        /\ answers' = {}
    BY <1>3 DEF IInv, Types
  <2> QED
    BY <1>1, <2>1, <2>2 DEF IInv, Types, server
<1>5. Single'
  BY <1>1, <1>3 DEF IInv, Single
<1>6. Owned'
  <2>1. \A c \in pending' \cup wire': OwnCall(c)'
    BY <1>1, <1>3 DEF IInv, Owned, OwnCall, server
  <2> QED
    BY <1>1, <1>3, <2>1 DEF Owned
<1>7. HomeIsSignedIn' /\ ProfileIsOwn'
  BY <1>1 DEF IInv, HomeIsSignedIn, ProfileIsOwn, server
<1> QED
  BY <1>4, <1>5, <1>6, <1>7 DEF IInv

-----------------------------------------------------------------------------
(* Firebase.                                                               *)

LEMMA StepServe ==
  ASSUME IInv, NEW c \in wire, NEW ok \in BOOLEAN, Serve(c, ok)
  PROVE  IInv'
<1>1. /\ c \in Calls /\ OwnCall(c) /\ wire' = wire \ {c}
      /\ UNCHANGED <<form, stack, session, pending, attempts>>
  BY DEF Serve, IInv, Types, Owned
<1>2. c.email \in Emails /\ c.uid \in Emails \cup {NoUser} /\ c.name \in Names
  BY <1>1, CallFields
<1>3. /\ accounts \subseteq accounts' /\ accounts' \subseteq Emails
      /\ ok /\ c.step \in AuthSteps => c.email \in accounts'
  BY <1>2 DEF Serve, Possible, AuthSteps, IInv, Types
<1>4. /\ profiles' \in [Emails -> Profiles \cup {NoProfile}]
      /\ \A u \in Emails:
           \/ profiles'[u] = profiles[u]
           \/ /\ ok /\ c.step = "updateChildValues" /\ u = c.uid
              /\ profiles'[u] = [email |-> c.email, name |-> c.name]
      /\ ok /\ c.step = "updateChildValues" =>
           profiles'[c.uid] = [email |-> c.email, name |-> c.name]
  <2>1. CASE ok /\ c.step = "updateChildValues"
    <3>1. c.uid \in Emails /\ [email |-> c.email, name |-> c.name] \in Profiles
      BY <1>1, <1>2, <2>1 DEF OwnCall, Profiles
    <3> QED
      BY <2>1, <3>1 DEF Serve, IInv, Types
  <2>2. CASE ~ (ok /\ c.step = "updateChildValues")
    BY <2>2 DEF Serve, IInv, Types
  <2> QED
    BY <2>1, <2>2
<1>5. \/ answers' = answers
      \/ /\ answers = {} /\ c \in pending
         /\ answers' = {[call |-> c, result |-> IF ok THEN "ok" ELSE "error"]}
  <2>1. CASE c \in pending /\ ~ Answered(c)
    <3>1. answers = {}
      BY <2>1 DEF Answered, IInv, Single
    <3> QED
      BY <2>1, <3>1 DEF Serve
  <2> QED
    BY <2>1 DEF Serve
<1>6. Types'
  BY <1>1, <1>3, <1>4, <1>5 DEF IInv, Types, form, Results
<1>7. Single'
  BY <1>1, <1>5 DEF IInv, Single, form
<1>8. Owned'
  <2>1. \A x \in pending' \cup wire': OwnCall(x)'
    BY <1>1, <1>3 DEF IInv, Owned, OwnCall
  <2>2. \A x \in pending': x.step = "updateChildValues" => session' = x.uid
    BY <1>1 DEF IInv, Owned
  <2>3. \A a \in answers: OwnAnswer(a)'
    <3> SUFFICES ASSUME NEW a \in answers PROVE OwnAnswer(a)'
      OBVIOUS
    <3>1. OwnAnswer(a) /\ a.call \in Calls /\ OwnCall(a.call)
      BY AnswerFields DEF IInv, Types, Owned, Single
    <3>2. a.call.step = "updateChildValues" => a.call.uid \in Emails
      BY <3>1, CallFields DEF OwnCall
    <3>3. a.call.step = "updateChildValues" /\ profiles[a.call.uid] # NoProfile
             => profiles'[a.call.uid] # NoProfile
      BY <1>2, <1>4, <3>2, NoProfileAssumption DEF Profiles
    <3> QED
      BY <1>1, <1>3, <3>1, <3>3 DEF OwnAnswer
  <2>4. ASSUME answers' = {[call |-> c, result |-> IF ok THEN "ok" ELSE "error"]}
        PROVE  \A a \in answers': OwnAnswer(a)'
    <3>1. ok /\ c.step = "updateChildValues" => profiles'[c.uid] # NoProfile
      BY <1>2, <1>4, NoProfileAssumption DEF Profiles
    <3> QED
      BY <1>3, <2>4, <3>1 DEF OwnAnswer
  <2> QED
    BY <1>5, <2>1, <2>2, <2>3, <2>4 DEF Owned
<1>9. HomeIsSignedIn'
  BY <1>1, <1>3 DEF IInv, HomeIsSignedIn
<1>10. ProfileIsOwn'
  BY <1>1, <1>2, <1>3, <1>4 DEF IInv, ProfileIsOwn, OwnCall
<1> QED
  BY <1>6, <1>7, <1>8, <1>9, <1>10 DEF IInv

LEMMA StepTimeOut ==
  ASSUME IInv, NEW c \in pending, TimeOut(c)
  PROVE  IInv'
<1>1. /\ c \in Calls /\ answers = {}
      /\ answers' = {[call |-> c, result |-> "error"]}
      /\ UNCHANGED <<form, stack, session, pending, wire, server, attempts>>
  BY DEF TimeOut, Answered, IInv, Types, Single
<1>2. Types' /\ Single'
  BY <1>1 DEF IInv, Types, Single, Results, form, server
<1>3. Owned'
  BY <1>1 DEF IInv, Owned, OwnCall, OwnAnswer, server
<1>4. HomeIsSignedIn' /\ ProfileIsOwn'
  BY <1>1 DEF IInv, HomeIsSignedIn, ProfileIsOwn, server
<1> QED
  BY <1>2, <1>3, <1>4 DEF IInv

LEMMA StepAdopt ==
  ASSUME IInv, NEW a \in answers, Adopt(a)
  PROVE  IInv'
<1> DEFINE b == [a EXCEPT !.result = "signedIn"]
<1>1. /\ a \in [call: Calls, result: Results] /\ answers = {a} /\ answers' = {b}
      /\ a.call \in pending /\ a.call.step \in AuthSteps /\ a.result = "ok"
      /\ session' = a.call.email
      /\ UNCHANGED <<form, stack, pending, wire, server, attempts>>
  BY DEF Adopt, IInv, Types, Single
<1>2. /\ b \in [call: Calls, result: Results]
      /\ b.call = a.call /\ b.result = "signedIn" /\ a.call.email \in Emails
  BY <1>1, AnswerFields, CallFields
<1> HIDE DEF b
<1>3. Types' /\ Single'
  BY <1>1, <1>2 DEF IInv, Types, Single, form, server
<1>4. Owned'
  <2>1. a.call.email \in accounts
    BY <1>1 DEF IInv, Owned, OwnAnswer
  <2>2. \A c \in pending: c.step # "updateChildValues"
    BY <1>1 DEF IInv, Single, AuthSteps
  <2> QED
    BY <1>1, <1>2, <2>1, <2>2 DEF IInv, Owned, OwnCall, OwnAnswer, AuthSteps, server
<1>5. HomeIsSignedIn' /\ ProfileIsOwn'
  BY <1>1 DEF IInv, Single, HomeIsSignedIn, ProfileIsOwn, server
<1> QED
  BY <1>3, <1>4, <1>5 DEF IInv

-----------------------------------------------------------------------------
(* The callbacks.                                                          *)

\* Replacing an answered call by one that is well-formed, or by none.
LEMMA AnswerSingle ==
  ASSUME IInv, NEW a \in answers
  PROVE  /\ a.call \in Calls /\ a.call \in pending
         /\ pending = {a.call} /\ answers = {a}
         /\ OwnCall(a.call) /\ OwnAnswer(a)
         /\ stack = <<>> /\ home \in 1..MaxAttempts /\ a.call.attempt = home
         /\ ~ enabled
BY DEF IInv, Types, Single, Owned

LEMMA StepDrop ==
  ASSUME IInv, NEW a \in answers, Drop(a), UNCHANGED <<session, server, attempts>>,
         UNCHANGED <<form, stack>> \/ (ShowHome /\ session \in accounts)
  PROVE  IInv'
<1>1. /\ pending' = {} /\ answers' = {} /\ wire' = wire
      /\ home \in 1..MaxAttempts /\ stack = <<>>
  BY AnswerSingle DEF Drop
<1>2. /\ UNCHANGED <<segment, picked, home>>
      /\ enabled' \in BOOLEAN
      /\ stack' = <<>> \/ stack' = Append(<<>>, home)
      /\ stack' # <<>> => session \in accounts
  BY <1>1 DEF ShowHome, form, IInv, Types
<1>3. stack' \in Seq(1..MaxAttempts) /\ Len(stack') <= 1
  <2>1. <<>> \in Seq(1..MaxAttempts) /\ Len(<<>>) = 0
    BY EmptySeq
  <2>2. Append(<<>>, home) \in Seq(1..MaxAttempts) /\ Len(Append(<<>>, home)) = 1
    BY <1>1, <2>1, AppendProperties
  <2>3. CASE stack' = <<>>
    BY <2>1, <2>3
  <2>4. CASE stack' = Append(<<>>, home)
    BY <2>2, <2>4
  <2> QED
    BY <1>2, <2>3, <2>4
<1>4. Types' /\ Single'
  BY <1>1, <1>2, <1>3 DEF IInv, Types, Single, server
<1>5. Owned'
  BY <1>1 DEF IInv, Owned, OwnCall, server
<1>6. HomeIsSignedIn' /\ ProfileIsOwn'
  BY <1>2 DEF IInv, HomeIsSignedIn, ProfileIsOwn, server
<1> QED
  BY <1>4, <1>5, <1>6 DEF IInv

LEMMA StepContinue ==
  ASSUME IInv, NEW a \in answers, NEW c \in Calls, Continue(a, c),
         UNCHANGED <<form, stack, session, server, attempts>>,
         c.attempt = a.call.attempt, OwnCall(c),
         c.step = "updateChildValues" => session = c.uid
  PROVE  IInv'
<1>1. /\ pending' = {c} /\ answers' = {} /\ wire' = wire \cup {c}
      /\ home \in 1..MaxAttempts /\ stack = <<>> /\ c.attempt = home /\ ~ enabled
  BY AnswerSingle DEF Continue
<1>2. Types' /\ Single'
  BY <1>1 DEF IInv, Types, Single, form, server
<1>3. Owned'
  BY <1>1 DEF IInv, Owned, OwnCall, server
<1>4. HomeIsSignedIn' /\ ProfileIsOwn'
  BY DEF IInv, HomeIsSignedIn, ProfileIsOwn, server
<1> QED
  BY <1>2, <1>3, <1>4 DEF IInv

LEMMA StepUpload ==
  ASSUME IInv, NEW a \in answers, PutDataDone(a) \/ DownloadURLDone(a)
  PROVE  IInv'
<1>1. CASE Drop(a) /\ UNCHANGED <<form, stack, session, server, attempts>>
  BY <1>1, StepDrop
<1>2. ASSUME NEW s \in {"downloadURL", "createUser"},
             a.call.step # "updateChildValues",
             Continue(a, [a.call EXCEPT !.step = s]),
             UNCHANGED <<form, stack, session, server, attempts>>
      PROVE  IInv'
  <2>1. s \in Steps /\ s # "updateChildValues"
    BY DEF Steps
  <2>2. a.call \in Calls /\ OwnCall(a.call)
    BY AnswerSingle
  <2> DEFINE c == [a.call EXCEPT !.step = s]
  <2>3. c \in Calls /\ c.step = s /\ c.uid = NoUser /\ c.attempt = a.call.attempt
    <3>1. c \in Calls /\ c.step = s /\ c.uid = a.call.uid /\ c.attempt = a.call.attempt
      BY <2>1, <2>2, CallFields
    <3>2. a.call.uid = NoUser
      BY <1>2, <2>2 DEF OwnCall
    <3> QED
      BY <3>1, <3>2
  <2> HIDE DEF c
  <2>4. Continue(a, c)
    BY <1>2 DEF c
  <2> QED
    BY <1>2, <2>1, <2>3, <2>4, StepContinue DEF OwnCall
<1> QED
  BY <1>1, <1>2 DEF PutDataDone, DownloadURLDone

LEMMA StepCreateUserDone ==
  ASSUME IInv, NEW a \in answers, CreateUserDone(a)
  PROVE  IInv'
<1>1. CASE Drop(a)
  BY <1>1, StepDrop DEF CreateUserDone
<1>2. CASE a.result = "signedIn" /\ WriteProfile(a)
  <2>1. /\ a.call \in Calls /\ session = a.call.email /\ a.call.email \in accounts
        /\ session \in Emails
    <3>1. a.call \in Calls /\ OwnAnswer(a)
      BY AnswerSingle
    <3>2. a.call.email \in Emails
      BY <3>1, CallFields
    <3> QED
      BY <1>2, <3>1, <3>2 DEF OwnAnswer
  <2> DEFINE c == [a.call EXCEPT !.step = "updateChildValues", !.uid = session]
  <2>2. /\ c \in Calls /\ c.step = "updateChildValues" /\ c.uid = session
        /\ c.email = a.call.email /\ c.attempt = a.call.attempt
    <3>1. "updateChildValues" \in Steps /\ session \in Emails \cup {NoUser}
      BY <2>1 DEF Steps
    <3> QED
      BY <2>1, <3>1 DEF Calls
  <2> HIDE DEF c
  <2>3. Continue(a, c)
    BY <1>2 DEF WriteProfile, c
  <2> QED
    BY <2>1, <2>2, <2>3, StepContinue DEF OwnCall, CreateUserDone
<1> QED
  BY <1>1, <1>2 DEF CreateUserDone

LEMMA StepEnter ==
  ASSUME IInv, NEW a \in answers, ProfileDone(a) \/ SignInDone(a)
  PROVE  IInv'
<1>1. ASSUME ProfileDone(a)
      PROVE  session \in accounts
  <2>1. a.call \in pending /\ a.call.step = "updateChildValues" /\ OwnCall(a.call)
    BY <1>1, AnswerSingle DEF ProfileDone
  <2> QED
    BY <2>1 DEF IInv, Owned, OwnCall
<1>2. ASSUME SignInDone(a), a.result = "signedIn"
      PROVE  session \in accounts
  BY <1>2, AnswerSingle DEF OwnAnswer
<1>3. CASE ProfileDone(a)
  BY <1>1, <1>3, StepDrop DEF ProfileDone
<1>4. CASE SignInDone(a)
  BY <1>2, <1>4, StepDrop DEF SignInDone
<1> QED
  BY <1>3, <1>4

-----------------------------------------------------------------------------
(* Leaving.                                                                *)

LEMMA StepLogout ==
  ASSUME IInv, Logout
  PROVE  IInv'
<1>1. /\ stack \in Seq(1..MaxAttempts) /\ stack # <<>> /\ Len(stack) <= 1
      /\ pending = {} /\ answers = {}
  BY DEF Logout, OnLoginScreen, IInv, Types, Single
<1>2. Len(stack) = 1
  <2> DEFINE n == Len(stack)
  <2>1. n \in Nat \ {0}
    BY <1>1
  <2>2. n <= 1
    BY <1>1
  <2> HIDE DEF n
  <2>3. n = 1
    BY <2>1, <2>2
  <2> QED
    BY <2>3 DEF n
<1>3. stack' = <<>>
  <2>1. stack' = SubSeq(stack, 1, 0)
    BY <1>1, <1>2 DEF Logout, Front
  <2>2. SubSeq(stack, 1, 0) \in Seq(1..MaxAttempts) /\ Len(SubSeq(stack, 1, 0)) = 0
    BY <1>1, <1>2
  <2> QED
    BY <2>1, <2>2, EmptySeq
<1>4. Types' /\ Single'
  BY <1>1, <1>3 DEF Logout, IInv, Types, Single, form, calls, server
<1>5. Owned'
  BY <1>1 DEF Logout, IInv, Owned, OwnCall, calls, server
<1>6. HomeIsSignedIn' /\ ProfileIsOwn'
  BY <1>3 DEF Logout, IInv, HomeIsSignedIn, ProfileIsOwn, server
<1> QED
  BY <1>4, <1>5, <1>6 DEF IInv

LEMMA StepRelaunch ==
  ASSUME IInv, Relaunch
  PROVE  IInv'
<1>1. wire' \subseteq wire
  BY DEF Relaunch
<1>2. Types'
  <2>1. 0 \in 0..MaxAttempts /\ <<>> \in Seq(1..MaxAttempts)
    BY MaxAttemptsAssumption, EmptySeq
  <2> QED
    BY <1>1, <2>1 DEF Relaunch, IInv, Types, server
<1>5. Single'
  BY DEF Relaunch, Single
<1>3. Owned'
  BY <1>1 DEF Relaunch, IInv, Owned, OwnCall, server
<1>4. HomeIsSignedIn' /\ ProfileIsOwn'
  BY DEF Relaunch, IInv, HomeIsSignedIn, ProfileIsOwn, server
<1> QED
  BY <1>2, <1>3, <1>4, <1>5 DEF IInv

-----------------------------------------------------------------------------
(* The theorems.                                                           *)

LEMMA StepInv == IInv /\ [Next]_vars => IInv'
<1> SUFFICES ASSUME IInv, [Next]_vars PROVE IInv'
  OBVIOUS
<1>1. CASE HandleToggle \/ ShowAvatar \/ SelectAvatar \/ UNCHANGED vars
  BY <1>1, StepForm
<1>2. CASE \E e \in Emails, n \in Names: LoginOrRegister(e, n)
  BY <1>2, StepLoginOrRegister
<1>3. CASE \E c \in wire, ok \in BOOLEAN: Serve(c, ok)
  BY <1>3, StepServe
<1>4. CASE \E c \in pending: TimeOut(c)
  BY <1>4, StepTimeOut
<1>5. CASE \E a \in answers: Adopt(a)
  BY <1>5, StepAdopt
<1>6. CASE \E a \in answers: PutDataDone(a) \/ DownloadURLDone(a)
  BY <1>6, StepUpload
<1>7. CASE \E a \in answers: CreateUserDone(a)
  BY <1>7, StepCreateUserDone
<1>8. CASE \E a \in answers: ProfileDone(a) \/ SignInDone(a)
  BY <1>8, StepEnter
<1>9. CASE Logout
  BY <1>9, StepLogout
<1>10. CASE Relaunch
  BY <1>10, StepRelaunch
<1> QED
  BY <1>1, <1>2, <1>3, <1>4, <1>5, <1>6, <1>7, <1>8, <1>9, <1>10 DEF Next

\* The invariant holds in every state of LoginVC, its callbacks and Firebase,
\* however many addresses and attempts there are.
THEOREM Inductive == Spec => []IInv
<1>1. Init => IInv
  BY InitInv
<1>2. IInv /\ [Next]_vars => IInv'
  BY StepInv
<1> QED
  BY <1>1, <1>2, PTL DEF Spec

\* Every variable keeps its type; an answer always has its call still waiting
\* in LoginClient.
THEOREM TypeCorrect == Spec => []TypeOK
<1>1. IInv => TypeOK
  <2> SUFFICES ASSUME IInv PROVE TypeOK
    OBVIOUS
  <2>1. answers \subseteq [call: pending, result: Results]
    <3> SUFFICES ASSUME NEW a \in answers
                 PROVE  a \in [call: pending, result: Results]
      OBVIOUS
    <3>1. a \in [call: Calls, result: Results] /\ a.call \in pending
      BY DEF IInv, Types, Single
    <3> QED
      BY <3>1
  <2> QED
    BY <2>1 DEF IInv, Types, TypeOK
<1> QED
  BY <1>1, Inductive, PTL

\* There is one attempt at a time, so the home screen a callback pushes
\* (LoginClient+LoginVC.swift:37, 57) is the one its own tap made.
THEOREM AttemptsAreSingle == Spec => []OneAttempt
<1>1. IInv => OneAttempt
  <2> SUFFICES ASSUME IInv PROVE OneAttempt
    OBVIOUS
  <2>1. Cardinality(pending) <= 1
    <3>1. CASE pending = {}
      BY <3>1, FS_EmptySet
    <3>2. CASE pending # {}
      <4>1. PICK c \in pending: pending = {c}
        BY <3>2 DEF IInv, Single
      <4>2. Cardinality({c}) = 1
        BY FS_Singleton
      <4> QED
        BY <4>1, <4>2
    <3> QED
      BY <3>1, <3>2
  <2> QED
    BY <2>1 DEF IInv, Single, OneAttempt
<1> QED
  BY <1>1, Inductive, PTL

\* Whenever RecentMessagesVC is shown, an account is signed in, so the uid its
\* observers are registered under is never nil.
THEOREM HomeSignedIn == Spec => []HomeIsSignedIn
<1>1. IInv => HomeIsSignedIn
  BY DEF IInv
<1> QED
  BY <1>1, Inductive, PTL

\* The uid that CreateUserDone reads from the session (LoginClient.swift:50) is
\* that of the account the profile was typed for.
THEOREM ProfilesAreOwn == Spec => []ProfileIsOwn
<1>1. IInv => ProfileIsOwn
  BY DEF IInv
<1> QED
  BY <1>1, Inductive, PTL

\* A registration pushes the home screen only once its profile is stored
\* (LoginClient.swift:51-53).
THEOREM RegisteredHasProfile == Spec => HomeHasProfile
<1> DEFINE Step == \A c \in pending:
             c.step = "updateChildValues" /\ stack = <<>> /\ stack' # <<>>
               => profiles[session] # NoProfile
<1>1. IInv /\ [Next]_vars => [Step]_vars
  <2> SUFFICES ASSUME IInv, Next, NEW c \in pending,
                      c.step = "updateChildValues", stack = <<>>, stack' # <<>>
               PROVE  profiles[session] # NoProfile
    OBVIOUS
  <2>1. PICK a \in answers: ProfileDone(a) \/ SignInDone(a)
    BY DEF Next, HandleToggle, ShowAvatar, SelectAvatar, LoginOrRegister, Serve,
           TimeOut, Adopt, PutDataDone, DownloadURLDone, CreateUserDone, Logout,
           OnLoginScreen, Relaunch
  <2>2. a.call = c /\ OwnAnswer(a)
    BY AnswerSingle
  <2>3. a.result = "ok"
    BY <2>1, <2>2 DEF ProfileDone, SignInDone
  <2> QED
    BY <2>2, <2>3 DEF OwnAnswer, IInv, Owned
<1> QED
  BY <1>1, Inductive, PTL DEF Spec, HomeHasProfile

\* What createUser and the profile write leave half done stays so: no later step
\* of LoginClient writes the profile of an account that already exists.
THEOREM OrphansRemain == Spec => OrphanForever
<1> DEFINE Step == \A u \in Emails: Orphan(u) => Orphan(u)'
<1>1. IInv /\ [Next]_vars => [Step]_vars
  <2> SUFFICES ASSUME IInv, Next, NEW u \in Emails, Orphan(u)
               PROVE  Orphan(u)'
    OBVIOUS
  <2>1. CASE UNCHANGED <<calls, server>>
    BY <2>1 DEF Orphan, calls, server
  <2>2. ASSUME NEW e \in Emails, NEW n \in Names, LoginOrRegister(e, n)
        PROVE  Orphan(u)'
    <3>1. UNCHANGED <<server, answers>>
      BY <2>2 DEF LoginOrRegister, HandleLogin, HandleRegister, Start, calls
    <3>2. \A c \in wire' \ wire: c.uid = NoUser
      BY <2>2 DEF LoginOrRegister, HandleLogin, HandleRegister, Start, Call, calls
    <3> QED
      BY <3>1, <3>2, NoUserAssumption DEF Orphan, server
  <2>3. ASSUME NEW c \in wire, NEW ok \in BOOLEAN, Serve(c, ok)
        PROVE  Orphan(u)'
    <3>1. u \in accounts' /\ wire' \subseteq wire
      BY <2>3 DEF Serve, Orphan
    <3>2. profiles'[u] = NoProfile
      BY <2>3 DEF Serve, Orphan, IInv, Types
    <3>3. ASSUME NEW a \in answers', a.call.step = "createUser", a.call.email = u
          PROVE  a.result = "error"
      <4>1. CASE a \in answers
        BY <3>3, <4>1 DEF Orphan
      <4>2. CASE a = [call |-> c, result |-> IF ok THEN "ok" ELSE "error"]
        BY <2>3, <3>3, <4>2 DEF Serve, Possible, Orphan
      <4> QED
        BY <2>3, <4>1, <4>2 DEF Serve
    <3> QED
      BY <3>1, <3>2, <3>3 DEF Orphan
  <2>4. ASSUME NEW c \in pending, TimeOut(c)
        PROVE  Orphan(u)'
    BY <2>4 DEF TimeOut, Orphan, server
  <2>5. ASSUME NEW a \in answers, Adopt(a)
        PROVE  Orphan(u)'
    <3> DEFINE b == [a EXCEPT !.result = "signedIn"]
    <3>1. b.call = a.call
      BY AnswerFields DEF IInv, Types
    <3>2. ~ (a.call.step = "createUser" /\ a.call.email = u)
      BY <2>5 DEF Adopt, Orphan
    <3>3. answers' = (answers \ {a}) \cup {b} /\ UNCHANGED <<wire, server>>
      BY <2>5 DEF Adopt
    <3> HIDE DEF b
    <3> QED
      BY <3>1, <3>2, <3>3 DEF Orphan, server
  <2>6. ASSUME NEW a \in answers, Drop(a), UNCHANGED server
        PROVE  Orphan(u)'
    BY <2>6 DEF Drop, Orphan, server
  <2>7. ASSUME NEW a \in answers, NEW c, Continue(a, c), UNCHANGED server, c.uid # u
        PROVE  Orphan(u)'
    BY <2>7 DEF Continue, Orphan, server
  <2>8. ASSUME NEW a \in answers, PutDataDone(a) \/ DownloadURLDone(a)
        PROVE  Orphan(u)'
    <3>1. a.call \in Calls /\ OwnCall(a.call)
      BY AnswerSingle
    <3>2. \A s \in Steps: [a.call EXCEPT !.step = s].uid = a.call.uid
      BY <3>1, CallFields
    <3>3. a.call.uid # u
      BY <2>8, <3>1, NoUserAssumption DEF OwnCall, PutDataDone, DownloadURLDone
    <3> QED
      BY <2>6, <2>7, <2>8, <3>2, <3>3 DEF PutDataDone, DownloadURLDone, Steps
  <2>9. ASSUME NEW a \in answers, CreateUserDone(a)
        PROVE  Orphan(u)'
    <3>1. CASE Drop(a)
      BY <2>6, <2>9, <3>1 DEF CreateUserDone
    <3>2. CASE a.result = "signedIn" /\ WriteProfile(a)
      <4> DEFINE c == [a.call EXCEPT !.step = "updateChildValues", !.uid = session]
      <4>1. a.call \in Calls /\ session = a.call.email
        BY <3>2, AnswerSingle DEF OwnAnswer
      <4>2. session # u
        BY <2>9, <3>2, <4>1 DEF CreateUserDone, Orphan
      <4>3. c.uid # u
        BY <4>1, <4>2 DEF Calls
      <4>4. Continue(a, c)
        BY <3>2 DEF WriteProfile
      <4> HIDE DEF c
      <4> QED
        BY <2>7, <2>9, <4>3, <4>4 DEF CreateUserDone
    <3> QED
      BY <2>9, <3>1, <3>2 DEF CreateUserDone
  <2>10. ASSUME NEW a \in answers, ProfileDone(a) \/ SignInDone(a)
         PROVE  Orphan(u)'
    BY <2>6, <2>10 DEF ProfileDone, SignInDone
  <2>11. CASE Relaunch
    BY <2>11 DEF Relaunch, Orphan, server
  <2>12. CASE HandleToggle \/ ShowAvatar \/ SelectAvatar \/ Logout
    BY <2>1, <2>12 DEF HandleToggle, ShowAvatar, SelectAvatar, Logout
  <2> QED
    BY <2>2, <2>3, <2>4, <2>5, <2>8, <2>9, <2>10, <2>11, <2>12 DEF Next
<1> QED
  BY <1>1, Inductive, PTL DEF Spec, OrphanForever

=============================================================================

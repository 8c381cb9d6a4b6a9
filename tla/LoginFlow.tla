------------------------------- MODULE LoginFlow -------------------------------
(***************************************************************************)
(* Registration, login and logout: LoginVC, LoginClient and the logout of  *)
(* RecentMessagesVC, on one phone.                                         *)
(*                                                                         *)
(* A registration is four calls, each made by the callback of the one      *)
(* before: upload the avatar, ask for its URL, create the account, write   *)
(* the profile under "users".  Any of them may fail, and the app may die   *)
(* in between; nothing is taken back and nothing is retried.  The account  *)
(* of an email and its uid are the email itself.                           *)
(***************************************************************************)
EXTENDS Naturals, Sequences, FiniteSets, SequencesExt

CONSTANTS Emails,      \* the addresses typed into the form
          NoUser,      \* nobody signed in (Auth.currentUser is nil)
          NoProfile,   \* no value under users/<uid>
          MaxAttempts  \* bound: taps of the login/register button

ASSUME MaxAttemptsAssumption == MaxAttempts \in Nat \ {0}
ASSUME NoUserAssumption == NoUser \notin Emails

VARIABLES
  segment,   \* loginSegmentControl
  picked,    \* didSelectProfile (never nil: the first layout shows cells)
  enabled,   \* loginRegisterButton.isEnabled
  home,      \* LoginVC.home, as the number of the tap that made it
  stack,     \* the RecentMessagesVCs the navigation controller shows
  session,   \* Auth.auth().currentUser, which outlives the process
  pending,   \* calls whose callback has not run
  wire,      \* calls the servers may still execute
  answers,   \* results on their way to a callback
  accounts,  \* Firebase Auth
  profiles,  \* "users"
  attempts

form   == <<segment, picked, enabled, home>>
calls  == <<pending, wire, answers>>
server == <<accounts, profiles>>
vars   == <<form, stack, session, calls, server, attempts>>

Names == {"short", "full"}  \* fewer than three characters, or enough
Steps == {"signIn", "putData", "downloadURL", "createUser", "updateChildValues"}
Calls == [step: Steps, email: Emails, name: Names, uid: Emails \cup {NoUser},
          attempt: 1..MaxAttempts]
Profiles == [email: Emails, name: Names]
ASSUME NoProfileAssumption == NoProfile \notin Profiles
\* An ok of Firebase Auth becomes "signedIn" once the SDK has stored the user.
Results == {"ok", "signedIn", "error"}

TypeOK ==
  /\ segment \in {"login", "register"}
  /\ picked \in BOOLEAN
  /\ enabled \in BOOLEAN
  /\ home \in 0..MaxAttempts
  /\ stack \in Seq(1..MaxAttempts)
  /\ session \in Emails \cup {NoUser}
  /\ pending \subseteq Calls
  /\ wire \subseteq Calls
  /\ answers \subseteq [call: pending, result: Results]
  /\ accounts \subseteq Emails
  /\ profiles \in [Emails -> Profiles \cup {NoProfile}]
  /\ attempts \in 0..MaxAttempts

Init ==
  /\ segment = "register" /\ picked = FALSE /\ enabled = TRUE /\ home = 0
  /\ stack = <<>>
  /\ session = NoUser
  /\ pending = {} /\ wire = {} /\ answers = {}
  /\ accounts = {}
  /\ profiles = [u \in Emails |-> NoProfile]
  /\ attempts = 0

-----------------------------------------------------------------------------
(* The login screen.                                                       *)

OnLoginScreen == stack = <<>>

\* The segments relabel the button; whatever is in flight goes on.
HandleToggle ==
  /\ OnLoginScreen
  /\ segment' = IF segment = "login" THEN "register" ELSE "login"
  /\ UNCHANGED <<picked, enabled, home, stack, session, calls, server, attempts>>

\* cellForItemAt: an avatar that scrolls into view undoes the choice.
ShowAvatar ==
  /\ OnLoginScreen /\ segment = "register"
  /\ picked' = FALSE
  /\ UNCHANGED <<segment, enabled, home, stack, session, calls, server, attempts>>

SelectAvatar ==
  /\ OnLoginScreen /\ segment = "register"
  /\ picked' = TRUE
  /\ UNCHANGED <<segment, enabled, home, stack, session, calls, server, attempts>>

Start(c) ==
  /\ pending' = pending \cup {c}
  /\ wire' = wire \cup {c}
  /\ UNCHANGED answers

Call(step, e, n) ==
  [step |-> step, email |-> e, name |-> n, uid |-> NoUser, attempt |-> attempts + 1]

HandleLogin(e, n) == Start(Call("signIn", e, n)) /\ enabled' = FALSE

\* forceUserToFullyRegister only alerts: the name is used whatever it is.
HandleRegister(e, n) ==
  IF picked
  THEN Start(Call("putData", e, n)) /\ enabled' = FALSE
  ELSE UNCHANGED calls /\ enabled' = TRUE

\* Mutant: the button stays enabled while the attempt is in flight.
LoginOrRegisterEnabled(e, n) ==
  /\ OnLoginScreen /\ enabled
  /\ attempts < MaxAttempts
  /\ attempts' = attempts + 1
  /\ home' = attempts + 1
  /\ Start(Call(IF segment = "login" THEN "signIn" ELSE "putData", e, n))
  /\ UNCHANGED <<enabled, segment, picked, stack, session, server>>

LoginOrRegister(e, n) ==
  /\ OnLoginScreen /\ enabled
  /\ attempts < MaxAttempts
  /\ attempts' = attempts + 1
  /\ home' = attempts + 1
  /\ IF segment = "login" THEN HandleLogin(e, n) ELSE HandleRegister(e, n)
  /\ UNCHANGED <<segment, picked, stack, session, server>>

-----------------------------------------------------------------------------
(* Firebase: Storage, Auth and the database.                               *)

AuthSteps == {"signIn", "createUser"}

Possible(c) ==
  CASE c.step = "signIn"     -> c.email \in accounts
    [] c.step = "createUser" -> c.email \notin accounts
    [] OTHER                 -> TRUE

Answered(c) == \E a \in answers: a.call = c

\* A call is executed, or refused: a wrong password, a rule, a taken email.
Serve(c, ok) ==
  /\ c \in wire
  /\ ok => Possible(c)
  /\ wire' = wire \ {c}
  /\ accounts' = IF ok /\ c.step = "createUser"
                 THEN accounts \cup {c.email} ELSE accounts
  /\ profiles' = IF ok /\ c.step = "updateChildValues"
                 THEN [profiles EXCEPT ![c.uid] = [email |-> c.email, name |-> c.name]]
                 ELSE profiles
  /\ answers' = IF c \in pending /\ ~Answered(c)
                THEN answers \cup {[call |-> c, result |-> IF ok THEN "ok" ELSE "error"]}
                ELSE answers
  /\ UNCHANGED <<form, stack, session, pending, attempts>>

\* The HTTP calls give up when no answer comes, executed or not.  A database
\* write never does: the SDK resends it (module ChatDelivery).
TimeOut(c) ==
  /\ c \in pending /\ ~Answered(c)
  /\ c.step # "updateChildValues"
  /\ answers' = answers \cup {[call |-> c, result |-> "error"]}
  /\ UNCHANGED <<form, stack, session, pending, wire, server, attempts>>

\* The Auth SDK stores the new user before it dispatches the callback.
Adopt(a) ==
  /\ a \in answers /\ a.result = "ok" /\ a.call.step \in AuthSteps
  /\ session' = a.call.email
  /\ answers' = (answers \ {a}) \cup {[a EXCEPT !.result = "signedIn"]}
  /\ UNCHANGED <<form, stack, pending, wire, server, attempts>>

-----------------------------------------------------------------------------
(* The callbacks of LoginClient and LoginVC.                               *)

\* Mutant: the answer is delivered again.
DropKeepsAnswer(a) ==
  /\ pending' = pending \ {a.call}
  /\ UNCHANGED <<wire, answers>>

Drop(a) ==
  /\ pending' = pending \ {a.call}
  /\ answers' = answers \ {a}
  /\ UNCHANGED wire

Continue(a, c) ==
  /\ pending' = (pending \ {a.call}) \cup {c}
  /\ wire' = wire \cup {c}
  /\ answers' = answers \ {a}

\* Push whatever home is by now, and enable the button.
ShowHome ==
  /\ stack' = Append(stack, home)
  /\ enabled' = TRUE
  /\ UNCHANGED <<segment, picked, home>>

PutDataDone(a) ==
  /\ a.call.step = "putData"
  /\ IF a.result = "ok"
     THEN Continue(a, [a.call EXCEPT !.step = "downloadURL"])
     ELSE Drop(a)
  /\ UNCHANGED <<form, stack, session, server, attempts>>

DownloadURLDone(a) ==
  /\ a.call.step = "downloadURL"
  /\ IF a.result = "ok"
     THEN Continue(a, [a.call EXCEPT !.step = "createUser"])
     ELSE Drop(a)
  /\ UNCHANGED <<form, stack, session, server, attempts>>

WriteProfile(a) ==
  Continue(a, [a.call EXCEPT !.step = "updateChildValues", !.uid = session])

\* Mutant: the error is not looked at, only whether somebody is signed in.
CreateUserDoneAnyway(a) ==
  /\ a.call.step = "createUser" /\ a.result # "ok"
  /\ IF session # NoUser THEN WriteProfile(a) ELSE Drop(a)
  /\ UNCHANGED <<form, stack, session, server, attempts>>

\* The profile goes to the user signed in when the callback runs.
CreateUserDone(a) ==
  /\ a.call.step = "createUser" /\ a.result # "ok"
  /\ IF a.result = "signedIn" /\ session # NoUser THEN WriteProfile(a) ELSE Drop(a)
  /\ UNCHANGED <<form, stack, session, server, attempts>>

\* Mutant: home is shown whether or not the profile was written.
ProfileDoneAnyway(a) ==
  /\ a.call.step = "updateChildValues"
  /\ Drop(a) /\ ShowHome
  /\ UNCHANGED <<session, server, attempts>>

ProfileDone(a) ==
  /\ a.call.step = "updateChildValues"
  /\ Drop(a)
  /\ IF a.result = "ok" THEN ShowHome ELSE UNCHANGED <<form, stack>>
  /\ UNCHANGED <<session, server, attempts>>

\* Mutant: home is shown after a refused login too.
SignInDoneAnyway(a) ==
  /\ a.call.step = "signIn" /\ a.result # "ok"
  /\ Drop(a) /\ ShowHome
  /\ UNCHANGED <<session, server, attempts>>

\* After an error there is an alert, and the button stays disabled.
SignInDone(a) ==
  /\ a.call.step = "signIn" /\ a.result # "ok"
  /\ Drop(a)
  /\ IF a.result = "signedIn" THEN ShowHome ELSE UNCHANGED <<form, stack>>
  /\ UNCHANGED <<session, server, attempts>>

-----------------------------------------------------------------------------
(* Leaving.                                                                *)

Logout ==
  /\ ~OnLoginScreen
  /\ session' = NoUser
  /\ stack' = Front(stack)
  /\ UNCHANGED <<form, calls, server, attempts>>

\* The process dies and is launched again: calls that left the phone may still
\* be executed; the root is a new LoginVC, whoever is signed in.
Relaunch ==
  /\ segment' = "register" /\ picked' = FALSE /\ enabled' = TRUE /\ home' = 0
  /\ stack' = <<>>
  /\ pending' = {} /\ answers' = {}
  /\ \E sent \in SUBSET wire: wire' = sent
  /\ UNCHANGED <<session, server, attempts>>

Next ==
  \/ HandleToggle
  \/ ShowAvatar
  \/ SelectAvatar
  \/ \E e \in Emails, n \in Names: LoginOrRegister(e, n)
  \/ \E c \in wire, ok \in BOOLEAN: Serve(c, ok)
  \/ \E c \in pending: TimeOut(c)
  \/ \E a \in answers: Adopt(a)
  \/ \E a \in answers: PutDataDone(a)
  \/ \E a \in answers: DownloadURLDone(a)
  \/ \E a \in answers: CreateUserDone(a)
  \/ \E a \in answers: ProfileDone(a)
  \/ \E a \in answers: SignInDone(a)
  \/ Logout
  \/ Relaunch

Spec == Init /\ [][Next]_vars

-----------------------------------------------------------------------------
(* Properties.                                                             *)

\* At most one attempt is in flight and never behind a home screen, so the
\* home a callback pushes (LoginClient+LoginVC.swift:37, 57 read the property,
\* not a captured value) is the one its own tap made, and is pushed once.
OneAttempt ==
  /\ Cardinality(pending) <= 1
  /\ (enabled \/ stack # <<>>) => pending = {}
  /\ \A c \in pending: c.attempt = home
  /\ Len(stack) <= 1

\* Behind a home screen somebody is signed in, with an account: the observers
\* that RecentMessagesVC registers find a uid.
HomeIsSignedIn == stack # <<>> => session \in accounts

\* A profile sits at the uid of the account it was typed for, although its uid
\* is read from the session when a callback runs (LoginClient.swift:50).
ProfileIsOwn ==
  \A u \in Emails: profiles[u] # NoProfile =>
    u \in accounts /\ profiles[u].email = u

\* Registration shows the home screen only with the profile in the database
\* (LoginClient.swift:51-53): a registered user is a contact for the others.
HomeHasProfile ==
  [][\A c \in pending: c.step = "updateChildValues" /\ stack = <<>> /\ stack' # <<>>
       => profiles[session] # NoProfile]_vars

\* An account without a profile, and no registration of it under way: the
\* profile write was refused or never left the phone.
Orphan(u) ==
  /\ u \in accounts
  /\ profiles[u] = NoProfile
  /\ \A c \in wire: c.uid # u
  /\ \A a \in answers:
       a.call.step = "createUser" /\ a.call.email = u => a.result = "error"

\* A registration interrupted after createUser is never completed: the email is
\* taken, and login (LoginClient.swift:58-66) writes no profile.
OrphanForever == [][\A u \in Emails: Orphan(u) => Orphan(u)']_vars

\* What forceUserToFullyRegister and its alert "Enter Your Name" say
\* (Alert+LoginVC.swift:12-18): nobody is registered without a name.
FullyRegistered ==
  \A u \in Emails: profiles[u] # NoProfile => profiles[u].name = "full"

=============================================================================

------------------------- MODULE RecentMessagesProofs -------------------------
(***************************************************************************)
(* Proofs about RecentMessages, for any number of users, messages, logins  *)
(* and taps.                                                               *)
(***************************************************************************)
EXTENDS RecentMessages, FiniteSetTheorems, SequenceTheorems, TLAPS

(* Sequence helpers.                                                       *)

\* Appending an element adds it to those of the sequence.
LEMMA AppendElements ==
  ASSUME NEW S, NEW s \in Seq(S), NEW e \in S
  PROVE  /\ Append(s, e) \in Seq(S)
         /\ ToSet(Append(s, e)) = ToSet(s) \cup {e}
<1> DEFINE t == Append(s, e)
<1>1. t \in Seq(S) /\ Len(t) = Len(s) + 1
  OBVIOUS
<1>2. \A i \in 1..Len(s): t[i] = s[i]
  OBVIOUS
<1>3. t[Len(s) + 1] = e
  OBVIOUS
<1> HIDE DEF t
<1>4. DOMAIN t = 1..Len(t) /\ DOMAIN s = 1..Len(s) /\ Len(s) \in Nat
  BY <1>1
<1>5. ASSUME NEW i \in DOMAIN t
      PROVE  i \in DOMAIN s \/ i = Len(s) + 1
  BY <1>1, <1>4
<1>6. \A i \in DOMAIN s: i \in DOMAIN t
  BY <1>1, <1>4
<1>7. Len(s) + 1 \in DOMAIN t
  BY <1>1, <1>4
<1>8. ASSUME NEW x
      PROVE  x \in ToSet(t) <=> x \in ToSet(s) \cup {e}
  BY <1>2, <1>3, <1>4, <1>5, <1>6, <1>7 DEF ToSet
<1> QED
  BY <1>1, <1>8 DEF t

\* The head of a queue is one of its elements, its tail holds the others.
LEMMA TailElements ==
  ASSUME NEW S, NEW s \in Seq(S), s # <<>>
  PROVE  /\ Head(s) \in S /\ Tail(s) \in Seq(S)
         /\ ToSet(s) = {Head(s)} \cup ToSet(Tail(s))
<1> DEFINE t == Tail(s)
<1>1. Head(s) = s[1] /\ Head(s) \in S /\ t \in Seq(S) /\ Len(t) = Len(s) - 1
  OBVIOUS
<1>2. Len(s) \in Nat /\ Len(s) # 0 /\ DOMAIN s = 1..Len(s)
  OBVIOUS
<1>3. \A i \in 1..(Len(s) - 1): t[i] = s[i + 1]
  OBVIOUS
<1> HIDE DEF t
<1>4. DOMAIN t = 1..(Len(s) - 1)
  BY <1>1
<1>5. ASSUME NEW x, x \in ToSet(s)
      PROVE  x \in {Head(s)} \cup ToSet(t)
  <2>1. PICK i \in DOMAIN s: s[i] = x
    BY <1>5 DEF ToSet
  <2>2. CASE i = 1
    BY <1>1, <2>1, <2>2
  <2>3. CASE i # 1
    <3>1. i - 1 \in 1..(Len(s) - 1) /\ (i - 1) + 1 = i
      BY <1>2, <2>3
    <3>2. t[i - 1] = x
      BY <1>3, <2>1, <3>1
    <3> QED
      BY <1>4, <3>1, <3>2 DEF ToSet
  <2> QED
    BY <2>2, <2>3
<1>6. ASSUME NEW x, x \in ToSet(t)
      PROVE  x \in ToSet(s)
  <2>1. PICK i \in DOMAIN t: t[i] = x
    BY <1>6 DEF ToSet
  <2>2. i + 1 \in DOMAIN s /\ s[i + 1] = x
    BY <1>2, <1>3, <1>4, <2>1
  <2> QED
    BY <2>2 DEF ToSet
<1>7. Head(s) \in ToSet(s)
  <2>1. 1 \in DOMAIN s
    BY <1>2
  <2> QED
    BY <1>1, <2>1 DEF ToSet
<1>8. ToSet(s) = {Head(s)} \cup ToSet(t)
  BY <1>5, <1>6, <1>7
<1> QED
  BY <1>1, <1>8 DEF t

\* A concatenation holds the elements of both sequences.
LEMMA ConcatElements ==
  ASSUME NEW S, NEW a \in Seq(S), NEW b \in Seq(S)
  PROVE  a \o b \in Seq(S) /\ ToSet(a \o b) = ToSet(a) \cup ToSet(b)
<1> DEFINE c == a \o b
<1>1. c \in Seq(S) /\ Len(c) = Len(a) + Len(b)
  OBVIOUS
<1>2. \A i \in 1..Len(a): c[i] = a[i]
  OBVIOUS
<1>3. \A i \in 1..Len(b): c[Len(a) + i] = b[i]
  OBVIOUS
<1> HIDE DEF c
<1>4. /\ Len(a) \in Nat /\ Len(b) \in Nat
      /\ DOMAIN a = 1..Len(a) /\ DOMAIN b = 1..Len(b)
      /\ DOMAIN c = 1..(Len(a) + Len(b))
  BY <1>1
<1>5. ASSUME NEW x, x \in ToSet(c)
      PROVE  x \in ToSet(a) \cup ToSet(b)
  <2>1. PICK i \in DOMAIN c: c[i] = x
    BY <1>5 DEF ToSet
  <2>2. CASE i \in 1..Len(a)
    BY <1>2, <1>4, <2>1, <2>2 DEF ToSet
  <2>3. CASE i \notin 1..Len(a)
    <3>1. i - Len(a) \in 1..Len(b) /\ Len(a) + (i - Len(a)) = i
      BY <1>4, <2>3
    <3>2. b[i - Len(a)] = x
      BY <1>3, <2>1, <3>1
    <3> QED
      BY <1>4, <3>1, <3>2 DEF ToSet
  <2> QED
    BY <2>2, <2>3
<1>6. ASSUME NEW x, x \in ToSet(a)
      PROVE  x \in ToSet(c)
  <2>1. PICK i \in DOMAIN a: a[i] = x
    BY <1>6 DEF ToSet
  <2>2. i \in DOMAIN c /\ c[i] = x
    BY <1>2, <1>4, <2>1
  <2> QED
    BY <2>2 DEF ToSet
<1>7. ASSUME NEW x, x \in ToSet(b)
      PROVE  x \in ToSet(c)
  <2>1. PICK i \in DOMAIN b: b[i] = x
    BY <1>7 DEF ToSet
  <2>2. Len(a) + i \in DOMAIN c /\ c[Len(a) + i] = x
    BY <1>3, <1>4, <2>1
  <2> QED
    BY <2>2 DEF ToSet
<1> QED
  BY <1>1, <1>5, <1>6, <1>7 DEF c

\* What a sequence holds besides the element taken out of it.
LEMMA RemovedElements ==
  ASSUME NEW S, NEW s \in Seq(S), NEW i \in DOMAIN s
  PROVE  /\ s[i] \in S /\ RemoveAt(s, i) \in Seq(S)
         /\ ToSet(s) = {s[i]} \cup ToSet(RemoveAt(s, i))
<1> DEFINE a == SubSeq(s, 1, i - 1)
           b == SubSeq(s, i + 1, Len(s))
<1>1. i \in 1..Len(s) /\ Len(s) \in Nat /\ DOMAIN s = 1..Len(s) /\ s[i] \in S
  OBVIOUS
<1>2. /\ a \in Seq(S) /\ Len(a) = i - 1 /\ DOMAIN a = 1..(i - 1)
      /\ \A k \in 1..(i - 1): a[k] = s[k]
  BY <1>1
<1>3. /\ b \in Seq(S) /\ Len(b) = Len(s) - i /\ DOMAIN b = 1..(Len(s) - i)
      /\ \A k \in 1..(Len(s) - i): b[k] = s[i + k]
  BY <1>1
<1>4. RemoveAt(s, i) = a \o b
  BY DEF RemoveAt
<1> HIDE DEF a, b
<1>5. a \o b \in Seq(S) /\ ToSet(a \o b) = ToSet(a) \cup ToSet(b)
  BY <1>2, <1>3, ConcatElements
<1>6. ASSUME NEW x, x \in ToSet(s)
      PROVE  x \in {s[i]} \cup ToSet(a) \cup ToSet(b)
  <2>1. PICK k \in 1..Len(s): s[k] = x
    BY <1>1, <1>6 DEF ToSet
  <2>2. CASE k < i
    <3>1. k \in DOMAIN a /\ a[k] = x
      BY <1>1, <1>2, <2>1, <2>2
    <3> QED
      BY <3>1 DEF ToSet
  <2>3. CASE k > i
    <3>1. k - i \in DOMAIN b /\ b[k - i] = s[i + (k - i)] /\ i + (k - i) = k
      BY <1>1, <1>3, <2>1, <2>3
    <3> QED
      BY <2>1, <3>1 DEF ToSet
  <2> QED
    BY <1>1, <2>1, <2>2, <2>3
<1>7. ToSet(a) \subseteq ToSet(s)
  <2>1. \A k \in DOMAIN a: k \in DOMAIN s /\ a[k] = s[k]
    BY <1>1, <1>2
  <2> QED
    BY <2>1 DEF ToSet
<1>8. ToSet(b) \subseteq ToSet(s)
  <2>1. \A k \in DOMAIN b: i + k \in DOMAIN s /\ b[k] = s[i + k]
    BY <1>1, <1>3
  <2> QED
    BY <2>1 DEF ToSet
<1>9. s[i] \in ToSet(s)
  BY <1>1 DEF ToSet
<1> QED
  BY <1>1, <1>4, <1>5, <1>6, <1>7, <1>8, <1>9

\* Taking out the first element leaves the tail.
LEMMA HeadRemoved ==
  ASSUME NEW S, NEW s \in Seq(S), s # <<>>
  PROVE  RemoveAt(s, 1) = Tail(s)
<1>1. SubSeq(s, 1, 0) = <<>>
  BY SubSeqEmpty
<1>2. SubSeq(s, 2, Len(s)) = Tail(s) /\ Tail(s) \in Seq(S)
  BY TailIsSubSeq
<1>3. RemoveAt(s, 1) = <<>> \o Tail(s)
  BY <1>1, <1>2 DEF RemoveAt
<1> QED
  BY <1>2, <1>3, ConcatEmptySeq

-----------------------------------------------------------------------------
(* Types.                                                                  *)

\* The requests and blocks, by kind.
LEMMA JobTypes ==
  /\ \A u \in Users: /\ Job("profile", u) \in Requests \cap Blocks
                      /\ Job("index", u) \in Requests
                      /\ Job("user", u) \in Requests \cap Blocks
                      /\ Job("wipe", u) \in Blocks
                      /\ Job("reload", u) \in Blocks
  /\ \A m \in Messages: /\ Job("message", m) \in Requests \cap Blocks
                         /\ Job("childAdded", m) \in Blocks
  /\ \A r \in Requests: r.kind # "index" => r \in Blocks
  /\ \A r \in Requests: r.kind # "message" => r.of \in Users
  /\ \A b \in Blocks: b.kind \in {"message", "childAdded"} => b.of \in Messages
  /\ \A b \in Blocks: b.kind \in {"profile", "wipe", "reload", "user"} => b.of \in Users
BY DEF Job, Requests, Blocks

\* A message has two parties, one of them the partner.
LEMMA PartnerType ==
  ASSUME NEW m \in Messages
  PROVE  m.from \in Users /\ m.to \in Users /\ ChatPartnerId(m) \in Users
BY MessagesAssumption DEF ChatPartnerId

RowsOf(d) == {d[p] : p \in Users} \ {NoMessage}

\* A dictionary has finitely many rows.
LEMMA RowsFinite ==
  ASSUME NEW d \in [Users -> Messages \cup {NoMessage}]
  PROVE  RowsOf(d) \subseteq Messages /\ IsFiniteSet(RowsOf(d)) /\ Cardinality(RowsOf(d)) \in Nat
<1> DEFINE values == {d[p] : p \in Users}
<1>1. RowsOf(d) \subseteq Messages
  BY DEF RowsOf
<1>2. d \in Surjection(Users, values)
  BY DEF Surjection
<1>3. IsFiniteSet(values)
  BY <1>2, FS_Surjection, UsersAssumption
<1>4. IsFiniteSet(RowsOf(d))
  BY <1>3, FS_RemoveElement DEF RowsOf
<1> QED
  BY <1>1, <1>4, FS_CardinalityType

\* Sorting keeps the number of rows and makes up none.
LEMMA SortedRows ==
  ASSUME NEW d \in [Users -> Messages \cup {NoMessage}], NEW s \in Sorted(d)
  PROVE  s \in Seq(Messages) /\ Len(s) = Cardinality(RowsOf(d)) /\ ToSet(s) \subseteq RowsOf(d)
<1>1. s \in [1..Cardinality(RowsOf(d)) -> RowsOf(d)]
  BY DEF Sorted, SetToSeqs, RowsOf
<1>2. RowsOf(d) \subseteq Messages /\ Cardinality(RowsOf(d)) \in Nat
  BY RowsFinite
<1> QED
  BY <1>1, <1>2 DEF ToSet

-----------------------------------------------------------------------------
(* The inductive invariant, in parts.                                      *)

\* Nothing is left of a screen at the login screen; elsewhere it has an owner.
Released ==
  /\ screen = "login" =>
       /\ messagesDictionary = NoRows /\ messages = <<>> /\ table = <<>>
       /\ ~timer /\ noticed = {} /\ asked = <<>> /\ mainQueue = <<>>
  /\ screen # "login" => owner \in Users

Mine(m) == owner \in {m.from, m.to}
Partner(m) == IF m.from = owner THEN m.to ELSE m.from

\* All a screen was told, waits for and shows are messages of its owner.
OwnMessages ==
  /\ \A m \in noticed: Mine(m)
  /\ \A j \in ToSet(asked): j.kind = "message" => Mine(j.of)
  /\ \A j \in ToSet(mainQueue): j.kind \in {"message", "childAdded"} => Mine(j.of)
  /\ \A m \in ToSet(table): Mine(m)

\* A partner's row is a message with that partner, so no two rows are equal and
\* their number never falls but in a wipe.
OwnRows ==
  /\ \A p \in Users: messagesDictionary[p] # NoMessage =>
       Mine(messagesDictionary[p]) /\ Partner(messagesDictionary[p]) = p
  /\ ToSet(messages) \subseteq RowsOf(messagesDictionary)
  /\ Len(messages) = Cardinality(RowsOf(messagesDictionary))
  /\ Len(table) <= Len(messages)

Reloads ==
  screen # "login" /\ table # messages =>
    timer \/ \E j \in ToSet(mainQueue): j.kind = "reload"

\* The wipe of a home opened over a standing connection has four phases.  The profile is asked for, and
\* the index is asked for behind it:
AskedFirst ==
  /\ asked = <<Job("profile", owner), Job("index", owner)>>
  /\ mainQueue = <<>> /\ ~timer
  /\ owner \notin indexed /\ noticed = {} /\ messages = <<>>

Waiting(m) ==
  \/ Job("message", m) \in ToSet(asked)
  \/ Job("message", m) \in ToSet(mainQueue)
  \/ Job("childAdded", m) \in ToSet(mainQueue)

\* the profile is read, and its block comes before all others:
Answered ==
  /\ mainQueue # <<>> /\ Head(mainQueue).kind = "profile"
  /\ \A j \in ToSet(Tail(mainQueue)): j.kind \notin {"profile", "wipe", "message"}
  /\ \A j \in ToSet(asked): j.kind \notin {"profile", "message"}
  /\ \A m \in noticed: Waiting(m)

\* its wipe waits, with no message's block before it:
WipeAt(s, w) ==
  /\ w \in 1..Len(s) /\ s[w].kind = "wipe"
  /\ \A i \in 1..Len(s): /\ i < w => s[i].kind \notin {"profile", "wipe", "message"}
                         /\ i > w => s[i].kind \notin {"profile", "wipe"}

Wiping ==
  /\ \E w \in 1..Len(mainQueue): WipeAt(mainQueue, w)
  /\ \A j \in ToSet(asked): j.kind # "profile"
  /\ \A m \in noticed: Waiting(m)

\* and when it is over, or there is no profile, none comes again.
Settled ==
  /\ \A j \in ToSet(asked): j.kind # "profile"
  /\ \A j \in ToSet(mainQueue): j.kind \notin {"profile", "wipe"}
  /\ \A m \in noticed: Waiting(m) \/ messagesDictionary[Partner(m)] # NoMessage

Phases ==
  /\ logins = 0 => screen = "login" /\ indexed = {}
  /\ screen = "shown" /\ ordered => AskedFirst \/ Answered \/ Wiping \/ Settled

IInv == TypeOK /\ Released /\ OwnMessages /\ OwnRows /\ Reloads /\ Phases

-----------------------------------------------------------------------------
(* The queues across a step.                                               *)

\* A sequence of one or no block.
LEMMA ShortQueues ==
  /\ <<>> \in Seq(Blocks) /\ ToSet(<<>>) = {}
  /\ \A b \in Blocks: <<b>> \in Seq(Blocks) /\ ToSet(<<b>>) = {b}
BY DEF ToSet

\* A block runs: its queue goes on without it, with what it dispatched.
LEMMA RunQueue ==
  ASSUME TypeOK, NEW kind, NEW d \in Seq(Blocks), Run(kind, d)
  PROVE  /\ Block \in Blocks /\ Block.kind = kind
         /\ mainQueue' \in Seq(Blocks)
         /\ ToSet(mainQueue) = {Block} \cup ToSet(Tail(mainQueue))
         /\ ToSet(mainQueue') = ToSet(Tail(mainQueue)) \cup ToSet(d)
<1> DEFINE q == Tail(mainQueue)
<1>1. /\ mainQueue \in Seq(Blocks) /\ mainQueue # <<>>
      /\ Head(mainQueue).kind = kind
      /\ mainQueue' = q \o d
  BY DEF TypeOK, Run
<1>2. /\ Head(mainQueue) \in Blocks /\ q \in Seq(Blocks)
      /\ ToSet(mainQueue) = {Head(mainQueue)} \cup ToSet(q)
  BY <1>1, TailElements
<1> HIDE DEF q
<1>3. q \o d \in Seq(Blocks) /\ ToSet(q \o d) = ToSet(q) \cup ToSet(d)
  BY <1>2, ConcatElements
<1> QED
  BY <1>1, <1>2, <1>3 DEF Block, q

\* A request r is answered: the index is loaded or a block is queued.
Answers(r) ==
  /\ r \in Requests
  /\ asked' \in Seq(Requests) /\ mainQueue' \in Seq(Blocks)
  /\ ToSet(asked) = {r} \cup ToSet(asked')
  /\ r.kind = "index" => UNCHANGED mainQueue /\ indexed' = indexed \cup {r.of}
  /\ r.kind # "index" =>
       /\ r \in Blocks
       /\ mainQueue' = Append(mainQueue, r)
       /\ ToSet(mainQueue') = ToSet(mainQueue) \cup {r}
       /\ UNCHANGED indexed

LEMMA AnswerQueues ==
  ASSUME TypeOK, Answer
  PROVE  \E r: Answers(r)
<1>1. asked \in Seq(Requests) /\ mainQueue \in Seq(Blocks)
  BY DEF TypeOK
<1>2. PICK i \in DOMAIN asked:
        /\ asked' = RemoveAt(asked, i)
        /\ IF asked[i].kind = "index"
           THEN indexed' = indexed \cup {asked[i].of} /\ UNCHANGED mainQueue
           ELSE mainQueue' = Append(mainQueue, asked[i]) /\ UNCHANGED indexed
  BY DEF Answer
<1> DEFINE r == asked[i]
<1>3. /\ r \in Requests /\ asked' \in Seq(Requests)
      /\ ToSet(asked) = {r} \cup ToSet(asked')
  BY <1>1, <1>2, RemovedElements
<1>4. r.kind = "index" => UNCHANGED mainQueue /\ indexed' = indexed \cup {r.of}
  BY <1>2
<1>5. r.kind # "index" => mainQueue' = Append(mainQueue, r) /\ UNCHANGED indexed
  BY <1>2
<1> HIDE DEF r
<1>6. CASE r.kind = "index"
  BY <1>1, <1>3, <1>4, <1>6 DEF Answers
<1>7. CASE r.kind # "index"
  <2>1. r \in Blocks
    BY <1>3, <1>7, JobTypes
  <2>2. Append(mainQueue, r) \in Seq(Blocks) /\ ToSet(Append(mainQueue, r)) = ToSet(mainQueue) \cup {r}
    BY <1>1, <2>1, AppendElements
  <2> QED
    BY <1>3, <1>5, <1>7, <2>1, <2>2 DEF Answers
<1> QED
  BY <1>6, <1>7

\* Home is pushed, by a login or by a registration.
LEMMA Pushes ==
  ASSUME NEW u, Login(u) \/ Register(u)
  PROVE  PushHome(u) /\ ordered' \in BOOLEAN /\ (ordered' => logins = 0)
BY DEF Login, Register

-----------------------------------------------------------------------------
(* Every step keeps the types.                                             *)

\* A new screen's state.
LEMMA EmptyTypes ==
  /\ NoRows \in [Users -> Messages \cup {NoMessage}]
  /\ <<>> \in Seq(Messages) /\ <<>> \in Seq(Requests) /\ <<>> \in Seq(Blocks)
<1>1. NoRows \in [Users -> Messages \cup {NoMessage}]
  BY DEF NoRows
<1>2. ASSUME NEW S PROVE <<>> \in Seq(S)
  OBVIOUS
<1> QED
  BY <1>1, <1>2

LEMMA TypeInit == Init => TypeOK
<1>1. 0 \in 0..MaxLogins /\ 0 \in 0..MaxTaps /\ 0 \in Nat
  BY BoundsAssumption
<1> SUFFICES ASSUME Init PROVE TypeOK
  OBVIOUS
<1>2. /\ messagesDictionary \in [Users -> Messages \cup {NoMessage}]
      /\ messages \in Seq(Messages) /\ table \in Seq(Messages)
      /\ asked \in Seq(Requests) /\ mainQueue \in Seq(Blocks)
  BY EmptyTypes DEF Init
<1> QED
  BY <1>1, <1>2 DEF Init, TypeOK

\* Showing a message: its partner's row, and as many messages as rows.
LEMMA ShowTypes ==
  ASSUME TypeOK, NEW m \in Messages, Show(m)
  PROVE  /\ messagesDictionary' = [messagesDictionary EXCEPT ![ChatPartnerId(m)] = m]
         /\ messagesDictionary' \in [Users -> Messages \cup {NoMessage}]
         /\ messages' \in Seq(Messages)
         /\ Len(messages') = Cardinality(RowsOf(messagesDictionary'))
         /\ ToSet(messages') \subseteq RowsOf(messagesDictionary')
<1>1. messagesDictionary' = [messagesDictionary EXCEPT ![ChatPartnerId(m)] = m]
  BY DEF Show
<1>2. messagesDictionary' \in [Users -> Messages \cup {NoMessage}]
  BY <1>1, PartnerType DEF TypeOK
<1>3. messages' \in Sorted(messagesDictionary')
  BY DEF Show
<1> QED
  BY <1>1, <1>2, <1>3, SortedRows

LEMMA TypeStep ==
  ASSUME TypeOK, Released, Next
  PROVE  TypeOK'
<1>1. ASSUME NEW u \in Users, Login(u) \/ Register(u) PROVE TypeOK'
  <2>1. asked' \in Seq(Requests) /\ mainQueue' \in Seq(Blocks)
    <3>1. Job("profile", u) \in Requests /\ Job("index", u) \in Requests
      BY JobTypes
    <3>2. PushHome(u)
      BY <1>1, Pushes
    <3> QED
      BY <3>1, <3>2 DEF PushHome, ViewDidLoad
  <2> QED
    BY <1>1, <2>1, Pushes, BoundsAssumption DEF TypeOK, PushHome, vc
<1>2. ASSUME Logout PROVE TypeOK'
  BY <1>2 DEF TypeOK, Logout, vc, past
<1>3. ASSUME LoginTap PROVE TypeOK'
  BY <1>3, EmptyTypes DEF TypeOK, LoginTap, FreshScreen, past
<1>4. ASSUME Relaunch PROVE TypeOK'
  BY <1>4, EmptyTypes DEF TypeOK, Relaunch, FreshScreen, past
<1>5. ASSUME NEW m \in Messages, File(m) PROVE TypeOK'
  BY <1>5 DEF TypeOK, File, place, vc, sdk, past
<1>6. ASSUME Answer PROVE TypeOK'
  <2>1. PICK r: Answers(r)
    BY <1>6, AnswerQueues
  <2>2. indexed' \subseteq Users
    <3>1. r.kind = "index" => r.of \in Users
      BY <2>1, JobTypes DEF Answers
    <3> QED
      BY <2>1, <3>1 DEF TypeOK, Answers
  <2> QED
    BY <1>6, <2>1, <2>2 DEF TypeOK, Answer, Answers, place, vc, past
<1>7. ASSUME Reconnect PROVE TypeOK'
  BY <1>7 DEF TypeOK, Reconnect, place, vc, sdk
<1>8. ASSUME NEW m \in Messages, Notice(m) PROVE TypeOK'
  <2>1. mainQueue' \in Seq(Blocks)
    BY <1>8, JobTypes, AppendElements DEF TypeOK, Notice
  <2> QED
    BY <1>8, <2>1 DEF TypeOK, Notice, place, past
<1>9. ASSUME ProfileBlock PROVE TypeOK'
  <2> DEFINE d == IF Block.of \in Profiled THEN <<Job("wipe", Block.of)>> ELSE <<>>
  <2>1. d \in Seq(Blocks)
    BY ShortQueues, JobTypes, UsersAssumption
  <2>2. Run("profile", d)
    BY <1>9 DEF ProfileBlock
  <2>3. mainQueue' \in Seq(Blocks)
    BY <2>1, <2>2, RunQueue
  <2> QED
    BY <1>9, <2>2, <2>3 DEF TypeOK, ProfileBlock, Run, vc, past
<1>10. ASSUME WipeBlock PROVE TypeOK'
  <2>1. mainQueue' \in Seq(Blocks)
    BY <1>10, RunQueue, ShortQueues DEF WipeBlock
  <2> QED
    BY <1>10, <2>1 DEF TypeOK, WipeBlock, Run, NoRows, past
<1>11. ASSUME ChildAddedBlock PROVE TypeOK'
  <2>1. mainQueue' \in Seq(Blocks) /\ Block.of \in Messages
    BY <1>11, RunQueue, ShortQueues, JobTypes DEF ChildAddedBlock
  <2>2. asked' \in Seq(Requests)
    BY <1>11, <2>1, JobTypes, AppendElements DEF TypeOK, ChildAddedBlock
  <2> QED
    BY <1>11, <2>1, <2>2 DEF TypeOK, ChildAddedBlock, Run, vc, past
<1>12. ASSUME MessageBlock PROVE TypeOK'
  <2>1. mainQueue' \in Seq(Blocks) /\ Block.of \in Messages
    BY <1>12, RunQueue, ShortQueues, JobTypes DEF MessageBlock
  <2>2. CASE session = NoUser
    BY <1>12, <2>1, <2>2 DEF TypeOK, MessageBlock, Run, vc, past
  <2>3. CASE session # NoUser
    <3>1. /\ messagesDictionary' \in [Users -> Messages \cup {NoMessage}]
          /\ messages' \in Seq(Messages)
      BY <1>12, <2>1, <2>3, ShowTypes DEF MessageBlock
    <3> QED
      BY <1>12, <2>1, <2>3, <3>1 DEF TypeOK, MessageBlock, Run, Show, past
  <2> QED
    BY <2>2, <2>3
<1>13. ASSUME HandleReload PROVE TypeOK'
  <2>1. owner \in Users
    BY <1>13 DEF HandleReload, Released, TypeOK
  <2>2. mainQueue' \in Seq(Blocks)
    BY <1>13, <2>1, JobTypes, AppendElements DEF TypeOK, HandleReload
  <2> QED
    BY <1>13, <2>2 DEF TypeOK, HandleReload, place, past
<1>14. ASSUME ReloadBlock PROVE TypeOK'
  <2>1. mainQueue' \in Seq(Blocks)
    BY <1>14, RunQueue, ShortQueues DEF ReloadBlock
  <2> QED
    BY <1>14, <2>1 DEF TypeOK, ReloadBlock, Run, past
<1>15. ASSUME UserBlock PROVE TypeOK'
  <2>1. mainQueue' \in Seq(Blocks)
    BY <1>15, RunQueue, ShortQueues DEF UserBlock
  <2> QED
    BY <1>15, <2>1 DEF TypeOK, UserBlock, Run, vc, past
<1>16. ASSUME NEW i \in DOMAIN table, DidSelectRow(i) PROVE TypeOK'
  <2>1. messages[i] \in Messages
    BY <1>16 DEF TypeOK, DidSelectRow
  <2>2. asked' \in Seq(Requests)
    BY <1>16, <2>1, PartnerType, JobTypes, AppendElements DEF TypeOK, DidSelectRow
  <2> QED
    BY <1>16, <2>2, BoundsAssumption DEF TypeOK, DidSelectRow, place, vc
<1>17. ASSUME Back PROVE TypeOK'
  BY <1>17 DEF TypeOK, Back, vc, sdk, past
<1> QED
  BY <1>1, <1>2, <1>3, <1>4, <1>5, <1>6, <1>7, <1>8, <1>9, <1>10, <1>11, <1>12,
     <1>13, <1>14, <1>15, <1>16, <1>17 DEF Next

-----------------------------------------------------------------------------
(* Every step keeps the other parts of the invariant.                      *)

LEMMA ReleasedStep ==
  ASSUME TypeOK, Released, Next
  PROVE  Released'
<1>1. ASSUME NEW u \in Users, Login(u) \/ Register(u) PROVE Released'
  BY <1>1, Pushes DEF Released, PushHome
<1>2. CASE Logout
  BY <1>2 DEF Released, Logout
<1>3. CASE LoginTap \/ Relaunch
  BY <1>3 DEF Released, LoginTap, Relaunch, FreshScreen
<1>4. ASSUME NEW m \in Messages, File(m) PROVE Released'
  BY <1>4 DEF Released, File, place, vc, sdk
<1>5. CASE Answer
  BY <1>5 DEF Released, Answer, place
<1>6. CASE Reconnect
  BY <1>6 DEF Released, Reconnect, place, vc, sdk
<1>7. ASSUME NEW m \in Messages, Notice(m) PROVE Released'
  BY <1>7 DEF Released, Notice, place
<1>8. CASE MainQueueRuns
  BY <1>8 DEF Released, MainQueueRuns, ProfileBlock, WipeBlock, ChildAddedBlock,
     MessageBlock, ReloadBlock, UserBlock, Run
<1>9. CASE HandleReload
  BY <1>9 DEF Released, HandleReload, place
<1>10. ASSUME NEW i \in DOMAIN table, DidSelectRow(i) PROVE Released'
  BY <1>10 DEF Released, DidSelectRow, place
<1>11. CASE Back
  BY <1>11 DEF Released, Back, vc, sdk
<1> QED
  BY <1>1, <1>2, <1>3, <1>4, <1>5, <1>6, <1>7, <1>8, <1>9, <1>10, <1>11
  DEF Next, MainQueueRuns

\* The owner of a message block's screen is signed in, or the block traps.
LEMMA ShownPartner ==
  ASSUME TypeOK, session # NoUser
  PROVE  screen = "shown" /\ session = owner /\ \A m: ChatPartnerId(m) = Partner(m)
BY DEF TypeOK, ChatPartnerId, Partner

LEMMA OwnMessagesStep ==
  ASSUME TypeOK, Released, OwnMessages, OwnRows, Next
  PROVE  OwnMessages'
<1>1. ASSUME NEW u \in Users, Login(u) \/ Register(u) PROVE OwnMessages'
  <2>1. noticed' = {} /\ table' = <<>> /\ mainQueue' = <<>>
    BY <1>1, Pushes DEF PushHome, ViewDidLoad, Released, vc
  <2>2. ToSet(asked') \subseteq {Job("profile", u), Job("index", u)}
    BY <1>1, Pushes DEF PushHome, ViewDidLoad, ToSet
  <2>3. \A j \in ToSet(asked'): j.kind # "message"
    BY <2>2 DEF Job
  <2>4. ToSet(<<>>) = {}
    BY ShortQueues
  <2> QED
    BY <2>1, <2>3, <2>4 DEF OwnMessages
<1>2. CASE Logout
  BY <1>2 DEF OwnMessages, Mine, Logout, vc
<1>3. CASE LoginTap \/ Relaunch
  <2>1. noticed' = {} /\ table' = <<>> /\ asked' = <<>> /\ mainQueue' = <<>>
    BY <1>3 DEF LoginTap, Relaunch, FreshScreen
  <2>2. ToSet(<<>>) = {}
    BY ShortQueues
  <2> QED
    BY <2>1, <2>2 DEF OwnMessages
<1>4. ASSUME NEW m \in Messages, File(m) PROVE OwnMessages'
  BY <1>4 DEF OwnMessages, Mine, File, place, vc, sdk
<1>5. CASE Answer
  <2>1. PICK r: Answers(r)
    BY <1>5, AnswerQueues
  <2>2. /\ ToSet(asked') \subseteq ToSet(asked) /\ r \in ToSet(asked)
        /\ ToSet(mainQueue') \subseteq ToSet(mainQueue) \cup {r}
    BY <2>1 DEF Answers
  <2>3. r.kind # "childAdded"
    BY <2>1 DEF Answers, Requests
  <2>4. UNCHANGED <<owner, noticed, table>>
    BY <1>5 DEF Answer, place, vc
  <2>5. \A j \in ToSet(mainQueue'): j \in ToSet(mainQueue) \/ j = r
    BY <2>2
  <2> QED
    BY <2>2, <2>3, <2>4, <2>5 DEF OwnMessages, Mine
<1>6. CASE Reconnect
  BY <1>6 DEF OwnMessages, Mine, Reconnect, place, vc, sdk
<1>7. ASSUME NEW m \in Messages, Notice(m) PROVE OwnMessages'
  <2>1. ToSet(mainQueue') = ToSet(mainQueue) \cup {Job("childAdded", m)}
    BY <1>7, JobTypes, AppendElements DEF TypeOK, Notice
  <2>2. Mine(m) /\ Job("childAdded", m).of = m
    BY <1>7 DEF Notice, Mine, Job
  <2> QED
    BY <1>7, <2>1, <2>2 DEF OwnMessages, Mine, Notice, place
<1>8. CASE ProfileBlock
  <2> DEFINE d == IF Block.of \in Profiled THEN <<Job("wipe", Block.of)>> ELSE <<>>
  <2>1. d \in Seq(Blocks) /\ \A j \in ToSet(d): j.kind = "wipe"
    <3>1. CASE Block.of \in Profiled
      <4>1. Job("wipe", Block.of) \in Blocks /\ Job("wipe", Block.of).kind = "wipe"
        BY <3>1, JobTypes, UsersAssumption DEF Job
      <4> QED
        BY <3>1, <4>1, ShortQueues
    <3>2. CASE Block.of \notin Profiled
      BY <3>2, ShortQueues
    <3> QED
      BY <3>1, <3>2
  <2>2. Run("profile", d)
    BY <1>8 DEF ProfileBlock
  <2>3. \A j \in ToSet(mainQueue'): j \in ToSet(mainQueue) \/ j.kind = "wipe"
    BY <2>1, <2>2, RunQueue
  <2> QED
    BY <1>8, <2>2, <2>3 DEF OwnMessages, Mine, ProfileBlock, Run, vc
<1>9. CASE WipeBlock
  BY <1>9, RunQueue, ShortQueues DEF OwnMessages, Mine, WipeBlock, Run
<1>10. CASE ChildAddedBlock
  <2>1. /\ Block \in ToSet(mainQueue) /\ Block.kind = "childAdded" /\ Block.of \in Messages
        /\ ToSet(mainQueue') \subseteq ToSet(mainQueue)
    BY <1>10, RunQueue, ShortQueues, JobTypes DEF ChildAddedBlock
  <2>2. ToSet(asked') = ToSet(asked) \cup {Job("message", Block.of)}
    BY <1>10, <2>1, JobTypes, AppendElements DEF TypeOK, ChildAddedBlock
  <2>3. Mine(Job("message", Block.of).of)
    BY <2>1 DEF OwnMessages, Job
  <2> QED
    BY <1>10, <2>1, <2>2, <2>3 DEF OwnMessages, Mine, ChildAddedBlock, Run, vc
<1>11. CASE MessageBlock
  BY <1>11, RunQueue, ShortQueues DEF OwnMessages, Mine, MessageBlock, Run, Show, vc
<1>12. CASE HandleReload
  <2>1. owner \in Users
    BY <1>12 DEF HandleReload, Released, TypeOK
  <2>2. ToSet(mainQueue') = ToSet(mainQueue) \cup {Job("reload", owner)}
    BY <1>12, <2>1, JobTypes, AppendElements DEF TypeOK, HandleReload
  <2>3. Job("reload", owner).kind = "reload"
    BY DEF Job
  <2> QED
    BY <1>12, <2>2, <2>3 DEF OwnMessages, Mine, HandleReload, place
<1>13. CASE ReloadBlock
  <2>1. \A m \in ToSet(messages): Mine(m)
    BY DEF OwnRows, RowsOf
  <2> QED
    BY <1>13, <2>1, RunQueue, ShortQueues DEF OwnMessages, Mine, ReloadBlock, Run
<1>14. CASE UserBlock
  BY <1>14, RunQueue, ShortQueues DEF OwnMessages, Mine, UserBlock, Run, vc
<1>15. ASSUME NEW i \in DOMAIN table, DidSelectRow(i) PROVE OwnMessages'
  <2> DEFINE u == ChatPartnerId(messages[i])
  <2>1. u \in Users
    BY <1>15, PartnerType DEF TypeOK, DidSelectRow
  <2>2. ToSet(asked') = ToSet(asked) \cup {Job("user", u)}
    BY <1>15, <2>1, JobTypes, AppendElements DEF TypeOK, DidSelectRow
  <2>3. Job("user", u).kind = "user"
    BY DEF Job
  <2> QED
    BY <1>15, <2>2, <2>3 DEF OwnMessages, Mine, DidSelectRow, place, vc
<1>16. CASE Back
  BY <1>16 DEF OwnMessages, Mine, Back, vc, sdk
<1> QED
  BY <1>1, <1>2, <1>3, <1>4, <1>5, <1>6, <1>7, <1>8, <1>9, <1>10, <1>11, <1>12,
     <1>13, <1>14, <1>15, <1>16 DEF Next

\* Putting a message in its partner's row loses no row.
LEMMA ShownRows ==
  ASSUME NEW d \in [Users -> Messages \cup {NoMessage}],
         \A p \in Users: d[p] # NoMessage => Partner(d[p]) = p,
         NEW m \in Messages, Partner(m) \in Users
  PROVE  Cardinality(RowsOf(d)) <= Cardinality(RowsOf([d EXCEPT ![Partner(m)] = m]))
<1> DEFINE q == Partner(m)
           e == [d EXCEPT ![q] = m]
<1>1. e \in [Users -> Messages \cup {NoMessage}] /\ m # NoMessage
  BY MessagesAssumption
<1>2. e[q] = m /\ \A p \in Users: p # q => e[p] = d[p]
  OBVIOUS
<1>3. /\ IsFiniteSet(RowsOf(d)) /\ Cardinality(RowsOf(d)) \in Nat
      /\ IsFiniteSet(RowsOf(e)) /\ Cardinality(RowsOf(e)) \in Nat
  BY <1>1, RowsFinite
<1> HIDE DEF e, q
<1>4. CASE d[q] = NoMessage
  <2>1. RowsOf(d) \subseteq RowsOf(e)
    BY <1>2, <1>4 DEF RowsOf
  <2> QED
    BY <1>3, <2>1, FS_Subset DEF e, q
<1>5. CASE d[q] # NoMessage
  <2> DEFINE R == RowsOf(d) \ {d[q]}
  <2>1. q \in Users
    BY DEF q
  <2>2. RowsOf(d) = R \cup {d[q]} /\ d[q] \notin R
    BY <1>5, <2>1 DEF RowsOf
  <2>3. ASSUME NEW r \in R PROVE r \in RowsOf(e) /\ r # m
    <3>1. PICK p \in Users: d[p] = r /\ r # NoMessage /\ p # q
      BY DEF RowsOf
    <3>2. r # m
      BY <3>1 DEF q
    <3> QED
      BY <1>2, <3>1, <3>2 DEF RowsOf
  <2>4. m \in RowsOf(e)
    BY <1>1, <1>2, <2>1 DEF RowsOf
  <2>5. R \cup {m} \subseteq RowsOf(e) /\ m \notin R
    BY <2>3, <2>4
  <2>6. IsFiniteSet(R)
    BY <1>3, FS_RemoveElement
  <2> HIDE DEF R
  <2>7. /\ Cardinality(R \cup {m}) = Cardinality(R) + 1
        /\ Cardinality(RowsOf(d)) = Cardinality(R) + 1
        /\ IsFiniteSet(R \cup {m})
    BY <2>2, <2>5, <2>6, FS_AddElement
  <2>8. Cardinality(R \cup {m}) <= Cardinality(RowsOf(e))
    BY <1>3, <2>5, FS_Subset
  <2> QED
    BY <2>7, <2>8 DEF e, q
<1> QED
  BY <1>4, <1>5

\* A new screen has no row.
LEMMA EmptyRows ==
  RowsOf(NoRows) = {} /\ Cardinality(RowsOf(NoRows)) = 0 /\ Len(<<>>) = 0
  /\ \A p \in Users: NoRows[p] = NoMessage
<1>1. RowsOf(NoRows) = {} /\ \A p \in Users: NoRows[p] = NoMessage
  BY DEF RowsOf, NoRows
<1> QED
  BY <1>1, FS_EmptySet

LEMMA OwnRowsStep ==
  ASSUME TypeOK, Released, OwnMessages, OwnRows, Next
  PROVE  OwnRows'
<1>1. CASE messagesDictionary' = NoRows /\ messages' = <<>> /\ table' = <<>>
  BY <1>1, EmptyRows, ShortQueues DEF OwnRows
<1>2. CASE UNCHANGED <<owner, messagesDictionary, messages, table>>
  BY <1>2 DEF OwnRows, Mine, Partner, RowsOf
<1>3. ASSUME NEW u \in Users, Login(u) \/ Register(u) PROVE OwnRows'
  BY <1>1, <1>3, Pushes DEF PushHome, Released, vc
<1>4. CASE LoginTap \/ Relaunch \/ WipeBlock
  BY <1>1, <1>4 DEF LoginTap, Relaunch, WipeBlock, FreshScreen
<1>5. CASE Logout \/ Answer \/ Reconnect \/ Back \/ HandleReload
  BY <1>2, <1>5 DEF Logout, Answer, Reconnect, Back, HandleReload, vc, place
<1>6. CASE ProfileBlock \/ ChildAddedBlock \/ UserBlock
  BY <1>2, <1>6 DEF ProfileBlock, ChildAddedBlock, UserBlock, Run, vc
<1>7. ASSUME NEW m \in Messages, File(m) \/ Notice(m) PROVE OwnRows'
  BY <1>2, <1>7 DEF File, Notice, vc, place
<1>8. ASSUME NEW i \in DOMAIN table, DidSelectRow(i) PROVE OwnRows'
  BY <1>2, <1>8 DEF DidSelectRow, vc, place
<1>9. CASE ReloadBlock
  <2>1. UNCHANGED <<owner, messagesDictionary, messages>> /\ table' = messages
    BY <1>9 DEF ReloadBlock, Run
  <2>2. Len(messages) <= Len(messages)
    BY DEF TypeOK
  <2> QED
    BY <2>1, <2>2 DEF OwnRows, Mine, Partner, RowsOf
<1>10. CASE MessageBlock
  <2>1. Block \in ToSet(mainQueue) /\ Block.kind = "message" /\ Block.of \in Messages
    BY <1>10, RunQueue, ShortQueues, JobTypes DEF MessageBlock
  <2>2. CASE session = NoUser
    BY <1>2, <1>10, <2>2 DEF MessageBlock, Run, vc
  <2>3. CASE session # NoUser
    <3> DEFINE m == Block.of
    <3>1. Mine(m) /\ m \in Messages
      BY <2>1 DEF OwnMessages
    <3>2. ChatPartnerId(m) = Partner(m) /\ Partner(m) \in Users
      BY <2>3, <3>1, ShownPartner, PartnerType
    <3>3. Show(m) /\ UNCHANGED <<owner, table>>
      BY <1>10, <2>3 DEF MessageBlock, Run, Show
    <3> HIDE DEF m
    <3>4. /\ messagesDictionary' = [messagesDictionary EXCEPT ![Partner(m)] = m]
          /\ Len(messages') = Cardinality(RowsOf(messagesDictionary'))
          /\ ToSet(messages') \subseteq RowsOf(messagesDictionary')
      BY <3>1, <3>2, <3>3, ShowTypes
    <3>5. Cardinality(RowsOf(messagesDictionary)) <= Cardinality(RowsOf(messagesDictionary'))
      BY <3>1, <3>2, <3>4, ShownRows DEF TypeOK, OwnRows
    <3>6. Len(table') <= Len(messages')
      <4>1. /\ Len(table) \in Nat
            /\ Cardinality(RowsOf(messagesDictionary)) \in Nat
            /\ Cardinality(RowsOf(messagesDictionary')) \in Nat
        BY <3>1, <3>3, ShowTypes, RowsFinite DEF TypeOK
      <4> QED
        BY <3>3, <3>4, <3>5, <4>1 DEF OwnRows
    <3>7. ASSUME NEW p \in Users, messagesDictionary'[p] # NoMessage
          PROVE  (Mine(messagesDictionary[p]) /\ Partner(messagesDictionary[p]) = p)'
      <4>1. messagesDictionary'[p] = IF p = Partner(m) THEN m ELSE messagesDictionary[p]
        BY <3>4 DEF TypeOK
      <4> QED
        BY <3>1, <3>3, <3>7, <4>1 DEF OwnRows, Mine, Partner
    <3> QED
      BY <3>4, <3>6, <3>7 DEF OwnRows, RowsOf
  <2> QED
    BY <2>2, <2>3
<1> QED
  BY <1>3, <1>4, <1>5, <1>6, <1>7, <1>8, <1>9, <1>10 DEF Next

LEMMA ReloadsStep ==
  ASSUME TypeOK, Released, Reloads, Next
  PROVE  Reloads'
<1>1. ASSUME UNCHANGED <<messages, table, timer>>,
             screen = "login" => screen' = "login",
             \A j \in ToSet(mainQueue): j.kind = "reload" => j \in ToSet(mainQueue')
      PROVE  Reloads'
  BY <1>1 DEF Reloads
<1>2. CASE messages' = table'
  BY <1>2 DEF Reloads
<1>3. CASE timer'
  BY <1>3 DEF Reloads
<1>4. ASSUME NEW kind, NEW d \in Seq(Blocks), Run(kind, d), kind # "reload"
      PROVE  \A j \in ToSet(mainQueue): j.kind = "reload" => j \in ToSet(mainQueue')
  BY <1>4, RunQueue
<1>5. ASSUME NEW u \in Users, Login(u) \/ Register(u) PROVE Reloads'
  BY <1>2, <1>5, Pushes DEF PushHome, Released, vc
<1>6. CASE LoginTap \/ Relaunch \/ WipeBlock \/ ReloadBlock
  BY <1>2, <1>6 DEF LoginTap, Relaunch, WipeBlock, ReloadBlock, FreshScreen
<1>7. CASE Logout
  BY <1>7 DEF Reloads, Logout, vc
<1>8. CASE Back \/ Reconnect
  BY <1>8 DEF Reloads, Back, Reconnect, vc, sdk, place
<1>9. CASE Answer
  BY <1>1, <1>9, AnswerQueues DEF Answer, Answers, vc, place
<1>10. ASSUME NEW m \in Messages, File(m) PROVE Reloads'
  BY <1>10 DEF Reloads, File, vc, sdk, place
<1>11. ASSUME NEW m \in Messages, Notice(m) PROVE Reloads'
  <2>1. ToSet(mainQueue') = ToSet(mainQueue) \cup {Job("childAdded", m)}
    BY <1>11, JobTypes, AppendElements DEF TypeOK, Notice
  <2> QED
    BY <1>1, <1>11, <2>1 DEF Notice, place
<1>12. ASSUME NEW i \in DOMAIN table, DidSelectRow(i) PROVE Reloads'
  BY <1>12 DEF Reloads, DidSelectRow, vc, place
<1>13. CASE ProfileBlock
  <2> DEFINE d == IF Block.of \in Profiled THEN <<Job("wipe", Block.of)>> ELSE <<>>
  <2>1. d \in Seq(Blocks)
    BY ShortQueues, JobTypes, UsersAssumption
  <2>2. Run("profile", d) /\ UNCHANGED vc
    BY <1>13 DEF ProfileBlock
  <2> QED
    BY <1>1, <1>4, <2>1, <2>2 DEF Run, vc
<1>14. CASE ChildAddedBlock \/ UserBlock
  <2>1. (Run("childAdded", <<>>) \/ Run("user", <<>>)) /\ UNCHANGED vc
    BY <1>14 DEF ChildAddedBlock, UserBlock
  <2> QED
    BY <1>1, <1>4, <2>1, ShortQueues DEF Run, vc
<1>15. CASE MessageBlock
  <2>1. CASE session = NoUser
    BY <1>1, <1>4, <1>15, <2>1, ShortQueues DEF MessageBlock, Run, vc
  <2>2. CASE session # NoUser
    BY <1>3, <1>15, <2>2 DEF MessageBlock
  <2> QED
    BY <2>1, <2>2
<1>16. CASE HandleReload
  <2>1. owner \in Users
    BY <1>16 DEF HandleReload, Released, TypeOK
  <2>2. ToSet(mainQueue') = ToSet(mainQueue) \cup {Job("reload", owner)}
    BY <1>16, <2>1, JobTypes, AppendElements DEF TypeOK, HandleReload
  <2>3. Job("reload", owner).kind = "reload"
    BY DEF Job
  <2> QED
    BY <2>2, <2>3 DEF Reloads
<1> QED
  BY <1>5, <1>6, <1>7, <1>8, <1>9, <1>10, <1>11, <1>12, <1>13, <1>14, <1>15, <1>16 DEF Next

-----------------------------------------------------------------------------
(* The wipe of a home opened over a standing connection.                   *)

\* A block queued behind the wipe leaves it where it is.
LEMMA WipeAppend ==
  ASSUME NEW s \in Seq(Blocks), NEW w, WipeAt(s, w),
         NEW b \in Blocks, b.kind \notin {"profile", "wipe"}
  PROVE  WipeAt(Append(s, b), w)
<1> DEFINE t == Append(s, b)
<1>1. /\ Len(t) = Len(s) + 1 /\ t[Len(s) + 1] = b /\ Len(s) \in Nat
      /\ \A i \in 1..Len(s): t[i] = s[i]
  OBVIOUS
<1> HIDE DEF t
<1>2. ASSUME NEW i \in 1..Len(t)
      PROVE  i \in 1..Len(s) \/ i = Len(s) + 1
  BY <1>1
<1>3. w \in 1..Len(t) /\ t[w].kind = "wipe" /\ ~(Len(s) + 1 < w)
  BY <1>1 DEF WipeAt
<1>4. ASSUME NEW i \in 1..Len(t)
      PROVE  /\ i < w => t[i].kind \notin {"profile", "wipe", "message"}
             /\ i > w => t[i].kind \notin {"profile", "wipe"}
  BY <1>1, <1>2, <1>3 DEF WipeAt
<1> QED
  BY <1>3, <1>4 DEF WipeAt, t

\* A block before the wipe runs, and is not a message's.
LEMMA WipeTail ==
  ASSUME NEW s \in Seq(Blocks), s # <<>>, NEW w, WipeAt(s, w), Head(s).kind # "wipe"
  PROVE  WipeAt(Tail(s), w - 1) /\ Head(s).kind \notin {"profile", "message"}
<1> DEFINE t == Tail(s)
<1>1. /\ Len(t) = Len(s) - 1 /\ Head(s) = s[1] /\ Len(s) \in Nat /\ 1 \in 1..Len(s)
      /\ \A i \in 1..(Len(s) - 1): t[i] = s[i + 1]
  OBVIOUS
<1> HIDE DEF t
<1>2. w \in 1..Len(s) /\ w # 1
  BY <1>1 DEF WipeAt
<1>3. Head(s).kind \notin {"profile", "message"}
  BY <1>1, <1>2 DEF WipeAt
<1>4. w - 1 \in 1..Len(t) /\ (w - 1) + 1 = w /\ t[w - 1].kind = "wipe"
  BY <1>1, <1>2 DEF WipeAt
<1>5. ASSUME NEW i \in 1..Len(t)
      PROVE  /\ i < w - 1 => t[i].kind \notin {"profile", "wipe", "message"}
             /\ i > w - 1 => t[i].kind \notin {"profile", "wipe"}
  <2>1. i + 1 \in 1..Len(s) /\ t[i] = s[i + 1]
    BY <1>1
  <2>2. (i < w - 1 => i + 1 < w) /\ (i > w - 1 => i + 1 > w)
    BY <1>1, <1>2
  <2> QED
    BY <2>1, <2>2 DEF WipeAt
<1> QED
  BY <1>3, <1>4, <1>5 DEF WipeAt, t

\* The wipe runs, and no other is behind it.
LEMMA WipeHead ==
  ASSUME NEW s \in Seq(Blocks), s # <<>>, NEW w, WipeAt(s, w), Head(s).kind = "wipe"
  PROVE  \A j \in ToSet(Tail(s)): j.kind \notin {"profile", "wipe"}
<1> DEFINE t == Tail(s)
<1>1. /\ DOMAIN t = 1..(Len(s) - 1) /\ Head(s) = s[1] /\ Len(s) \in Nat /\ 1 \in 1..Len(s)
      /\ \A i \in 1..(Len(s) - 1): t[i] = s[i + 1]
  OBVIOUS
<1> HIDE DEF t
<1>2. w = 1
  BY <1>1 DEF WipeAt
<1>3. ASSUME NEW i \in DOMAIN t
      PROVE  t[i].kind \notin {"profile", "wipe"}
  <2>1. i + 1 \in 1..Len(s) /\ i + 1 > 1 /\ t[i] = s[i + 1]
    BY <1>1
  <2> QED
    BY <1>2, <2>1 DEF WipeAt
<1> QED
  BY <1>3 DEF ToSet, t

\* The profile's block queues the wipe, no message's block being there yet.
LEMMA WipeQueued ==
  ASSUME NEW s \in Seq(Blocks), NEW b \in Blocks, b.kind = "wipe",
         \A j \in ToSet(s): j.kind \notin {"profile", "wipe", "message"}
  PROVE  WipeAt(s \o <<b>>, Len(s) + 1)
<1> DEFINE t == s \o <<b>>
<1>1. /\ Len(t) = Len(s) + 1 /\ t[Len(s) + 1] = b /\ Len(s) \in Nat
      /\ \A i \in 1..Len(s): t[i] = s[i]
  OBVIOUS
<1>2. \A i \in 1..Len(s): s[i] \in ToSet(s)
  BY DEF ToSet
<1> HIDE DEF t
<1>3. ASSUME NEW i \in 1..Len(t)
      PROVE  /\ i < Len(s) + 1 => i \in 1..Len(s)
             /\ ~(i > Len(s) + 1)
  BY <1>1
<1> QED
  BY <1>1, <1>2, <1>3 DEF WipeAt, t

\* A message on its way is not lost: only its own block ends its way.
LEMMA WaitingKept ==
  ASSUME TypeOK, Released, Next, NEW m \in Messages, Waiting(m)
  PROVE  Waiting(m)' \/ screen' # "shown" \/ (MessageBlock /\ Block.of = m)
<1>1. ASSUME ToSet(asked) \subseteq ToSet(asked'), ToSet(mainQueue) \subseteq ToSet(mainQueue')
      PROVE  Waiting(m)'
  BY <1>1 DEF Waiting
<1>2. ASSUME NEW kind, NEW d \in Seq(Blocks), Run(kind, d), UNCHANGED asked,
             kind \notin {"message", "childAdded"}
      PROVE  Waiting(m)'
  <2>1. Block # Job("message", m) /\ Block # Job("childAdded", m)
    BY <1>2, RunQueue DEF Job
  <2> QED
    BY <1>2, <2>1, RunQueue DEF Waiting
<1>3. screen # "login"
  BY DEF Released, Waiting, ToSet
<1>4. CASE Logout \/ LoginTap \/ Relaunch
  BY <1>4 DEF Logout, LoginTap, Relaunch
<1>5. ASSUME NEW u \in Users, Login(u) \/ Register(u) PROVE Waiting(m)'
  BY <1>3, <1>5, Pushes DEF PushHome
<1>6. ASSUME NEW n \in Messages, File(n) PROVE Waiting(m)'
  BY <1>1, <1>6 DEF File, sdk
<1>7. CASE Answer
  <2>1. Job("message", m).kind # "index"
    BY DEF Job
  <2> QED
    BY <1>7, <2>1, AnswerQueues DEF Waiting, Answers
<1>8. CASE Reconnect
  BY <1>1, <1>8 DEF Reconnect, sdk
<1>9. ASSUME NEW n \in Messages, Notice(n) PROVE Waiting(m)'
  BY <1>1, <1>9, JobTypes, AppendElements DEF TypeOK, Notice
<1>10. CASE ProfileBlock
  <2> DEFINE d == IF Block.of \in Profiled THEN <<Job("wipe", Block.of)>> ELSE <<>>
  <2>1. d \in Seq(Blocks)
    BY ShortQueues, JobTypes, UsersAssumption
  <2>2. Run("profile", d) /\ UNCHANGED asked
    BY <1>10 DEF ProfileBlock
  <2> HIDE DEF d
  <2> QED
    BY <1>2, <2>1, <2>2
<1>11. CASE WipeBlock \/ ReloadBlock \/ UserBlock
  BY <1>2, <1>11, ShortQueues DEF WipeBlock, ReloadBlock, UserBlock
<1>12. CASE ChildAddedBlock
  <2>1. /\ ToSet(mainQueue) = {Block} \cup ToSet(mainQueue')
        /\ Block.kind = "childAdded" /\ Block.of \in Messages
    BY <1>12, RunQueue, ShortQueues, JobTypes DEF ChildAddedBlock
  <2>2. ToSet(asked') = ToSet(asked) \cup {Job("message", Block.of)}
    BY <1>12, <2>1, JobTypes, AppendElements DEF TypeOK, ChildAddedBlock
  <2>3. Block # Job("message", m) /\ Job("childAdded", m).of = m
    BY <2>1 DEF Job
  <2> QED
    BY <2>1, <2>2, <2>3 DEF Waiting
<1>13. CASE MessageBlock
  <2>1. /\ ToSet(mainQueue) = {Block} \cup ToSet(mainQueue')
        /\ Block.kind = "message"
    BY <1>13, RunQueue, ShortQueues DEF MessageBlock
  <2>2. Block # Job("childAdded", m) /\ Job("message", m).of = m
    BY <2>1 DEF Job
  <2>3. UNCHANGED asked
    BY <1>13 DEF MessageBlock
  <2> QED
    BY <1>13, <2>1, <2>2, <2>3 DEF Waiting
<1>14. CASE HandleReload
  <2>1. owner \in Users
    BY <1>14 DEF HandleReload, Released, TypeOK
  <2> QED
    BY <1>1, <1>14, <2>1, JobTypes, AppendElements DEF TypeOK, HandleReload
<1>15. ASSUME NEW i \in DOMAIN table, DidSelectRow(i) PROVE Waiting(m)'
  <2>1. ChatPartnerId(messages[i]) \in Users
    BY <1>15, PartnerType DEF TypeOK, DidSelectRow
  <2> QED
    BY <1>1, <1>15, <2>1, JobTypes, AppendElements DEF TypeOK, DidSelectRow
<1>16. CASE Back
  BY <1>1, <1>16 DEF Back, sdk
<1> QED
  BY <1>4, <1>5, <1>6, <1>7, <1>8, <1>9, <1>10, <1>11, <1>12, <1>13, <1>14, <1>15, <1>16
  DEF Next

\* A message raised to the screen is on its way.
LEMMA NoticedWaits ==
  ASSUME TypeOK, NEW m \in Messages, Notice(m)
  PROVE  Waiting(m)'
BY JobTypes, AppendElements DEF TypeOK, Notice, Waiting

\* Behind the head of a queue, an appended block is one more.
LEMMA TailAppend ==
  ASSUME NEW S, NEW s \in Seq(S), s # <<>>, NEW e \in S
  PROVE  /\ Append(s, e) # <<>> /\ Head(Append(s, e)) = Head(s)
         /\ ToSet(Tail(Append(s, e))) = ToSet(Tail(s)) \cup {e}
<1> DEFINE q == Tail(s)
<1>1. Append(s, e) # <<>> /\ Head(Append(s, e)) = Head(s)
  OBVIOUS
<1>2. Tail(Append(s, e)) = Append(q, e)
  OBVIOUS
<1>3. q \in Seq(S)
  OBVIOUS
<1> HIDE DEF q
<1>4. ToSet(Append(q, e)) = ToSet(q) \cup {e}
  BY <1>3, AppendElements
<1> QED
  BY <1>1, <1>2, <1>4 DEF q

\* The phases follow each other, in any step that leaves the screen shown.
LEMMA AskedFirstStep ==
  ASSUME TypeOK, Released, screen = "shown", AskedFirst, Next, screen' = "shown",
         ordered, ordered'
  PROVE  AskedFirst' \/ Answered'
<1>1. CASE Answer
  <2> DEFINE p == Job("profile", owner)
             x == Job("index", owner)
  <2>1. asked = <<p, x>> /\ DOMAIN asked = 1..2
    BY DEF AskedFirst
  <2>2. p.kind = "profile" /\ x.kind = "index"
    BY DEF Job
  <2>3. PICK i \in 1..2: /\ i = 2 => asked[1].kind # "profile"
                         /\ asked' = RemoveAt(asked, i)
                         /\ asked[i].kind # "index" => mainQueue' = Append(mainQueue, asked[i])
    <3>1. PICK i \in DOMAIN asked:
            /\ ordered => \A j \in 1..(i - 1): asked[j].kind # "profile"
            /\ asked' = RemoveAt(asked, i)
            /\ asked[i].kind # "index" => mainQueue' = Append(mainQueue, asked[i])
      BY <1>1 DEF Answer
    <3>2. i \in 1..2
      BY <2>1
    <3>3. i = 2 => 1 \in 1..(i - 1)
      OBVIOUS
    <3> QED
      BY <3>1, <3>2, <3>3
  <2>4. i = 1 /\ asked[1] = p
    BY <2>1, <2>2, <2>3
  <2>5. RemoveAt(asked, 1) = <<x>>
    <3>1. asked \in Seq(Requests) /\ asked # <<>> /\ Tail(asked) = <<x>>
      BY <2>1 DEF TypeOK
    <3> QED
      BY <3>1, HeadRemoved
  <2>6. mainQueue' = Append(<<>>, p) /\ asked' = <<x>> /\ noticed' = {}
    BY <1>1, <2>2, <2>3, <2>4, <2>5 DEF Answer, AskedFirst, vc
  <2> HIDE DEF p, x
  <2>7. mainQueue' = <<p>> /\ ToSet(<<x>>) = {x} /\ ToSet(Tail(<<p>>)) = {}
    BY <2>6 DEF ToSet
  <2> QED
    BY <2>2, <2>6, <2>7 DEF Answered
<1>2. CASE Back
  BY <1>2 DEF AskedFirst, Back, vc, sdk
<1>3. ASSUME NEW m \in Messages, File(m) PROVE AskedFirst'
  BY <1>3 DEF AskedFirst, File, vc, sdk, place
<1>4. ~MainQueueRuns /\ ~HandleReload
  BY DEF AskedFirst, MainQueueRuns, ProfileBlock, WipeBlock, ChildAddedBlock,
     MessageBlock, ReloadBlock, UserBlock, HandleReload, Run
<1>5. \A m \in Messages: ~Notice(m)
  BY DEF AskedFirst, Notice
<1>6. \A i \in DOMAIN table: ~DidSelectRow(i)
  BY DEF AskedFirst, DidSelectRow
<1>7. ~Logout /\ ~LoginTap /\ ~Relaunch /\ \A u \in Users: ~Login(u) /\ ~Register(u)
  BY Pushes DEF Logout, LoginTap, Relaunch, PushHome
<1>8. ~Reconnect
  BY DEF Reconnect
<1> QED
  BY <1>1, <1>2, <1>3, <1>4, <1>5, <1>6, <1>7, <1>8 DEF Next, MainQueueRuns

\* While a block other than a message's is at the head, nothing stops waiting.
LEMMA NoticedKept ==
  ASSUME TypeOK, Released, Next, screen = "shown", screen' = "shown",
         ordered, ordered', ~MessageBlock,
         \A m \in noticed: Waiting(m)
  PROVE  \A m \in noticed': Waiting(m)'
<1>1. ASSUME NEW m \in noticed PROVE Waiting(m)'
  BY <1>1, WaitingKept DEF TypeOK
<1>2. ASSUME NEW m \in Messages, Notice(m) PROVE \A n \in noticed': Waiting(n)'
  BY <1>1, <1>2, NoticedWaits DEF Notice
<1>3. ASSUME NEW u \in Users, Login(u) \/ Register(u) PROVE FALSE
  BY <1>3, Pushes DEF PushHome
<1>4. ~Logout /\ ~LoginTap /\ ~Relaunch
  BY DEF Logout, LoginTap, Relaunch
<1>5. ASSUME ~ \E m \in Messages: Notice(m) PROVE noticed' = noticed
  BY <1>3, <1>4, <1>5 DEF Next, File, Answer, Reconnect, ProfileBlock, WipeBlock, ChildAddedBlock,
     HandleReload, ReloadBlock, UserBlock, DidSelectRow, Back, vc
<1> QED
  BY <1>1, <1>2, <1>5

LEMMA AnsweredStep ==
  ASSUME TypeOK, Released, screen = "shown", Answered, Next, screen' = "shown",
         ordered, ordered'
  PROVE  Answered' \/ Wiping' \/ Settled'
<1>1. mainQueue \in Seq(Blocks) /\ mainQueue # <<>> /\ Head(mainQueue).kind = "profile"
  BY DEF TypeOK, Answered
<1>2. \A m \in noticed': Waiting(m)'
  BY <1>1, NoticedKept DEF Answered, MessageBlock, Run
<1>3. ASSUME NEW b \in Blocks, mainQueue' = Append(mainQueue, b),
             b.kind \notin {"profile", "wipe", "message"},
             ToSet(asked') \subseteq ToSet(asked)
      PROVE  Answered'
  <2>1. /\ mainQueue' # <<>> /\ Head(mainQueue') = Head(mainQueue)
        /\ ToSet(Tail(mainQueue')) = ToSet(Tail(mainQueue)) \cup {b}
    BY <1>1, <1>3, TailAppend
  <2> QED
    BY <1>1, <1>2, <1>3, <2>1 DEF Answered
<1>4. ASSUME UNCHANGED mainQueue, \A j \in ToSet(asked'): j.kind \notin {"profile", "message"}
      PROVE  Answered'
  BY <1>2, <1>4 DEF Answered
<1>5. CASE Answer
  <2>0. PICK r: Answers(r)
    BY <1>5, AnswerQueues
  <2>1. r \in Requests /\ r \in ToSet(asked) /\ ToSet(asked') \subseteq ToSet(asked)
    BY <2>0 DEF Answers
  <2>2. CASE r.kind = "index"
    BY <1>4, <2>0, <2>1, <2>2 DEF Answered, Answers
  <2>3. CASE r.kind # "index"
    <3>1. r.kind \notin {"profile", "wipe", "message"} /\ r \in Blocks
      BY <2>1, <2>3, JobTypes DEF Answered, Requests
    <3>2. mainQueue' = Append(mainQueue, r)
      BY <2>0, <2>3 DEF Answers
    <3> QED
      BY <1>3, <2>1, <3>1, <3>2
  <2> QED
    BY <2>2, <2>3
<1>6. ASSUME NEW m \in Messages, Notice(m) PROVE Answered'
  <2>1. Job("childAdded", m) \in Blocks /\ Job("childAdded", m).kind = "childAdded"
    BY JobTypes DEF Job
  <2> QED
    BY <1>3, <1>6, <2>1 DEF Notice
<1>7. CASE HandleReload
  <2>1. Job("reload", owner) \in Blocks /\ Job("reload", owner).kind = "reload"
    BY JobTypes DEF Job, Released
  <2> QED
    BY <1>3, <1>7, <2>1 DEF HandleReload
<1>8. ASSUME NEW i \in DOMAIN table, DidSelectRow(i) PROVE Answered'
  <2> DEFINE u == ChatPartnerId(messages[i])
  <2>1. u \in Users
    BY <1>8, PartnerType DEF TypeOK, DidSelectRow
  <2>2. ToSet(asked') = ToSet(asked) \cup {Job("user", u)} /\ Job("user", u).kind = "user"
    <3>1. Job("user", u).kind = "user" /\ Job("user", u) \in Requests
      BY <2>1, JobTypes DEF Job
    <3>2. asked \in Seq(Requests) /\ asked' = Append(asked, Job("user", u))
      BY <1>8 DEF TypeOK, DidSelectRow
    <3> QED
      BY <3>1, <3>2, AppendElements
  <2> QED
    BY <1>4, <1>8, <2>2 DEF Answered, DidSelectRow
<1>9. ASSUME NEW m \in Messages, File(m) PROVE Answered'
  BY <1>4, <1>9 DEF Answered, File, sdk
<1>10. CASE Back
  BY <1>4, <1>10 DEF Answered, Back, sdk
<1>11. CASE ProfileBlock
  <2> DEFINE q == Tail(mainQueue)
             b == Job("wipe", Block.of)
  <2>1. q \in Seq(Blocks) /\ \A j \in ToSet(q): j.kind \notin {"profile", "wipe", "message"}
    BY <1>1 DEF Answered
  <2>2. \A j \in ToSet(asked'): j.kind \notin {"profile", "message"}
    BY <1>11 DEF Answered, ProfileBlock
  <2>3. CASE Block.of \in Profiled
    <3>1. b \in Blocks /\ b.kind = "wipe"
      BY <2>3, JobTypes, UsersAssumption DEF Job
    <3>2. mainQueue' = q \o <<b>>
      BY <1>11, <2>3 DEF ProfileBlock, Run
    <3> HIDE DEF q, b
    <3>3. WipeAt(mainQueue', Len(q) + 1)
      BY <2>1, <3>1, <3>2, WipeQueued
    <3> QED
      BY <1>2, <2>2, <3>3 DEF Wiping, WipeAt
  <2>4. CASE Block.of \notin Profiled
    <3>1. mainQueue' = q \o <<>>
      BY <1>11, <2>4 DEF ProfileBlock, Run
    <3> HIDE DEF q
    <3>2. mainQueue' = q
      BY <2>1, <3>1, ConcatEmptySeq
    <3> QED
      BY <1>2, <2>1, <2>2, <3>2 DEF Settled
  <2> QED
    BY <2>3, <2>4
<1>12. ~WipeBlock /\ ~ChildAddedBlock /\ ~MessageBlock /\ ~ReloadBlock /\ ~UserBlock
  BY <1>1 DEF WipeBlock, ChildAddedBlock, MessageBlock, ReloadBlock, UserBlock, Run
<1>13. ~Reconnect /\ ~Logout /\ ~LoginTap /\ ~Relaunch /\ \A u \in Users: ~Login(u) /\ ~Register(u)
  BY Pushes DEF Reconnect, Logout, LoginTap, Relaunch, PushHome
<1> QED
  BY <1>5, <1>6, <1>7, <1>8, <1>9, <1>10, <1>11, <1>12, <1>13 DEF Next

LEMMA WipingStep ==
  ASSUME TypeOK, Released, screen = "shown", Wiping, Next, screen' = "shown",
         ordered, ordered'
  PROVE  Wiping' \/ Settled'
<1> PICK w \in 1..Len(mainQueue): WipeAt(mainQueue, w)
  BY DEF Wiping
<1>1. mainQueue \in Seq(Blocks) /\ mainQueue # <<>>
  BY DEF TypeOK
<1>2. ~MessageBlock /\ ~ProfileBlock
  BY <1>1, WipeTail DEF MessageBlock, ProfileBlock, Run
<1>3. \A m \in noticed': Waiting(m)'
  BY <1>2, NoticedKept DEF Wiping
<1>4. ASSUME NEW v, WipeAt(mainQueue', v), \A j \in ToSet(asked'): j.kind # "profile"
      PROVE  Wiping'
  BY <1>3, <1>4 DEF Wiping, WipeAt
<1>5. ASSUME NEW b \in Blocks, mainQueue' = Append(mainQueue, b),
             b.kind \notin {"profile", "wipe"}, ToSet(asked') \subseteq ToSet(asked)
      PROVE  Wiping'
  <2>1. WipeAt(mainQueue', w)
    BY <1>1, <1>5, WipeAppend
  <2> QED
    BY <1>4, <1>5, <2>1 DEF Wiping
<1>6. ASSUME NEW kind, Run(kind, <<>>), kind # "wipe",
             \A j \in ToSet(asked'): j.kind # "profile"
      PROVE  Wiping'
  <2>1. Tail(mainQueue) \in Seq(Blocks) /\ mainQueue' = Tail(mainQueue) \o <<>>
    BY <1>1, <1>6 DEF Run
  <2>2. mainQueue' = Tail(mainQueue)
    BY <2>1, ConcatEmptySeq
  <2>3. WipeAt(mainQueue', w - 1)
    BY <1>1, <1>6, <2>2, WipeTail DEF Run
  <2> QED
    BY <1>4, <1>6, <2>3
<1>7. CASE Answer
  <2>0. PICK r: Answers(r)
    BY <1>7, AnswerQueues
  <2>1. r \in Requests /\ r \in ToSet(asked) /\ ToSet(asked') \subseteq ToSet(asked)
    BY <2>0 DEF Answers
  <2>2. CASE r.kind = "index"
    BY <1>4, <2>0, <2>1, <2>2 DEF Wiping, Answers
  <2>3. CASE r.kind # "index"
    <3>1. r.kind \notin {"profile", "wipe"} /\ r \in Blocks
      BY <2>1, <2>3, JobTypes DEF Wiping, Requests
    <3>2. mainQueue' = Append(mainQueue, r)
      BY <2>0, <2>3 DEF Answers
    <3> QED
      BY <1>5, <2>1, <3>1, <3>2
  <2> QED
    BY <2>2, <2>3
<1>8. ASSUME NEW m \in Messages, Notice(m) PROVE Wiping'
  <2>1. Job("childAdded", m) \in Blocks /\ Job("childAdded", m).kind = "childAdded"
    BY JobTypes DEF Job
  <2> QED
    BY <1>5, <1>8, <2>1 DEF Notice
<1>9. CASE HandleReload
  <2>1. Job("reload", owner) \in Blocks /\ Job("reload", owner).kind = "reload"
    BY JobTypes DEF Job, Released
  <2> QED
    BY <1>5, <1>9, <2>1 DEF HandleReload
<1>10. ASSUME NEW i \in DOMAIN table, DidSelectRow(i) PROVE Wiping'
  <2> DEFINE u == ChatPartnerId(messages[i])
  <2>1. u \in Users
    BY <1>10, PartnerType DEF TypeOK, DidSelectRow
  <2>2. Job("user", u).kind = "user" /\ Job("user", u) \in Requests
    BY <2>1, JobTypes DEF Job
  <2>3. asked \in Seq(Requests) /\ asked' = Append(asked, Job("user", u))
    BY <1>10 DEF TypeOK, DidSelectRow
  <2>4. ToSet(asked') = ToSet(asked) \cup {Job("user", u)}
    BY <2>2, <2>3, AppendElements
  <2> QED
    BY <1>4, <1>10, <2>2, <2>4 DEF Wiping, DidSelectRow
<1>11. ASSUME NEW m \in Messages, File(m) PROVE Wiping'
  BY <1>4, <1>11 DEF Wiping, File, sdk
<1>12. CASE Back
  BY <1>4, <1>12 DEF Wiping, Back, sdk
<1>13. CASE WipeBlock
  <2>1. Tail(mainQueue) \in Seq(Blocks) /\ mainQueue' = Tail(mainQueue) \o <<>>
    BY <1>1, <1>13 DEF WipeBlock, Run
  <2>2. mainQueue' = Tail(mainQueue)
    BY <2>1, ConcatEmptySeq
  <2>3. \A j \in ToSet(mainQueue'): j.kind \notin {"profile", "wipe"}
    BY <1>1, <1>13, <2>2, WipeHead DEF WipeBlock, Run
  <2>4. \A j \in ToSet(asked'): j.kind # "profile"
    BY <1>13 DEF Wiping, WipeBlock
  <2> QED
    BY <1>3, <2>3, <2>4 DEF Settled
<1>14. CASE ReloadBlock \/ UserBlock
  BY <1>6, <1>14 DEF Wiping, ReloadBlock, UserBlock
<1>15. CASE ChildAddedBlock
  <2>1. Block.of \in Messages
    BY <1>15, RunQueue, ShortQueues, JobTypes DEF ChildAddedBlock
  <2>2. ToSet(asked') = ToSet(asked) \cup {Job("message", Block.of)}
    BY <1>15, <2>1, JobTypes, AppendElements DEF TypeOK, ChildAddedBlock
  <2>3. Job("message", Block.of).kind = "message"
    BY DEF Job
  <2> QED
    BY <1>6, <1>15, <2>2, <2>3 DEF Wiping, ChildAddedBlock
<1>16. ~Reconnect /\ ~Logout /\ ~LoginTap /\ ~Relaunch /\ \A u \in Users: ~Login(u) /\ ~Register(u)
  BY Pushes DEF Reconnect, Logout, LoginTap, Relaunch, PushHome
<1> QED
  BY <1>2, <1>7, <1>8, <1>9, <1>10, <1>11, <1>12, <1>13, <1>14, <1>15, <1>16 DEF Next

LEMMA SettledStep ==
  ASSUME TypeOK, Released, screen = "shown", Settled, Next, screen' = "shown",
         ordered, ordered'
  PROVE  Settled'
<1> DEFINE HasRow(m) == messagesDictionary[Partner(m)] # NoMessage
<1>1. ~ProfileBlock /\ ~WipeBlock
  <2>1. ASSUME mainQueue # <<>> PROVE Head(mainQueue) \in ToSet(mainQueue)
    BY <2>1, TailElements DEF TypeOK
  <2> QED
    BY <2>1 DEF ProfileBlock, WipeBlock, Run, Settled
<1>2. ~Reconnect /\ ~Logout /\ ~LoginTap /\ ~Relaunch /\ \A u \in Users: ~Login(u) /\ ~Register(u)
  BY Pushes DEF Reconnect, Logout, LoginTap, Relaunch, PushHome
<1>3. CASE MessageBlock
  <2>1. /\ ToSet(mainQueue') \subseteq ToSet(mainQueue) /\ Block.of \in Messages
    BY <1>3, RunQueue, ShortQueues, JobTypes DEF MessageBlock
  <2>2. session # NoUser /\ session = owner /\ owner \in Users
    BY UsersAssumption DEF TypeOK, Released
  <2>3. Show(Block.of) /\ UNCHANGED <<asked, owner, noticed>>
    BY <1>3, <2>2 DEF MessageBlock, Run, Show
  <2>4. /\ ChatPartnerId(Block.of) = Partner(Block.of) /\ Partner(Block.of) \in Users
        /\ Block.of # NoMessage
    BY <2>1, <2>2, ShownPartner, PartnerType, MessagesAssumption
  <2>5. messagesDictionary' = [messagesDictionary EXCEPT ![Partner(Block.of)] = Block.of]
    BY <2>3, <2>4 DEF Show
  <2>6. \A p \in Users: p = Partner(Block.of) \/ messagesDictionary[p] # NoMessage =>
          messagesDictionary'[p] # NoMessage
    BY <2>4, <2>5 DEF TypeOK
  <2>7. ASSUME NEW m \in noticed' PROVE Waiting(m)' \/ HasRow(m)'
    <3>1. m \in Messages /\ m \in noticed /\ Partner(m) \in Users /\ Partner(m)' = Partner(m)
      BY <2>2, <2>3, ShownPartner, PartnerType DEF TypeOK, Partner
    <3>2. CASE HasRow(m)
      BY <2>6, <3>1, <3>2
    <3>3. CASE Waiting(m)
      <4>1. Waiting(m)' \/ Block.of = m
        BY <3>1, <3>3, WaitingKept
      <4> QED
        BY <2>6, <3>1, <4>1
    <3> QED
      BY <3>1, <3>2, <3>3 DEF Settled
  <2> QED
    BY <2>1, <2>3, <2>7 DEF Settled
<1>4. ASSUME ~MessageBlock PROVE Settled'
  <2>1. UNCHANGED <<owner, messagesDictionary>>
    BY <1>1, <1>2, <1>4 DEF Next, File, Answer, Notice, ChildAddedBlock, HandleReload, ReloadBlock,
       UserBlock, DidSelectRow, Back, Run, vc, place
  <2>2. \A m \in noticed: Waiting(m)' \/ HasRow(m)'
    BY <1>4, <2>1, WaitingKept DEF Settled, TypeOK, Partner
  <2>3. \A m \in noticed': m \in noticed \/ Waiting(m)'
    <3>1. ASSUME NEW m \in Messages, Notice(m) PROVE noticed' = noticed \cup {m} /\ Waiting(m)'
      BY <3>1, NoticedWaits DEF Notice
    <3>2. ASSUME ~ \E m \in Messages: Notice(m) PROVE noticed' = noticed
      BY <1>1, <1>2, <1>4, <3>2 DEF Next, File, Answer, ChildAddedBlock, HandleReload, ReloadBlock,
         UserBlock, DidSelectRow, Back, vc
    <3> QED
      BY <3>1, <3>2
  <2>4. \A j \in ToSet(asked'): j \in ToSet(asked) \/ j.kind \in {"message", "user"}
    <3>1. CASE Answer
      BY <3>1, AnswerQueues DEF Answers
    <3>2. CASE ChildAddedBlock
      <4>1. Block.of \in Messages
        BY <3>2, RunQueue, ShortQueues, JobTypes DEF ChildAddedBlock
      <4>2. ToSet(asked') = ToSet(asked) \cup {Job("message", Block.of)}
        BY <3>2, <4>1, JobTypes, AppendElements DEF TypeOK, ChildAddedBlock
      <4> QED
        BY <4>2 DEF Job
    <3>3. ASSUME NEW i \in DOMAIN table, DidSelectRow(i)
          PROVE  \A j \in ToSet(asked'): j \in ToSet(asked) \/ j.kind = "user"
      <4> DEFINE u == ChatPartnerId(messages[i])
      <4>1. u \in Users
        BY <3>3, PartnerType DEF TypeOK, DidSelectRow
      <4>2. asked \in Seq(Requests) /\ asked' = Append(asked, Job("user", u))
            /\ Job("user", u) \in Requests
        BY <3>3, <4>1, JobTypes DEF TypeOK, DidSelectRow
      <4>3. ToSet(asked') = ToSet(asked) \cup {Job("user", u)}
        BY <4>2, AppendElements
      <4>4. Job("user", u).kind = "user"
        BY DEF Job
      <4> QED
        BY <4>3, <4>4
    <3>4. CASE UNCHANGED asked
      BY <3>4
    <3> QED
      BY <1>1, <1>2, <1>4, <3>1, <3>2, <3>3, <3>4 DEF Next, File, Notice, HandleReload, ReloadBlock,
         UserBlock, Back, sdk
  <2>5. \A j \in ToSet(mainQueue'): j.kind \notin {"profile", "wipe"}
    <3>1. CASE Answer
      <4>1. PICK r: Answers(r)
        BY <3>1, AnswerQueues
      <4>2. /\ ToSet(mainQueue') \subseteq ToSet(mainQueue) \cup {r}
            /\ r \in ToSet(asked) /\ r \in Requests
        BY <4>1 DEF Answers
      <4>3. r.kind \notin {"profile", "wipe"}
        BY <4>2 DEF Settled, Requests
      <4> QED
        BY <4>2, <4>3 DEF Settled
    <3>2. CASE ChildAddedBlock \/ ReloadBlock \/ UserBlock
      <4>1. \E kind: Run(kind, <<>>)
        BY <3>2 DEF ChildAddedBlock, ReloadBlock, UserBlock
      <4> QED
        BY <4>1, RunQueue, ShortQueues DEF Settled
    <3>3. ASSUME NEW m \in Messages, Notice(m)
          PROVE  \A j \in ToSet(mainQueue'): j.kind \notin {"profile", "wipe"}
      <4>1. ToSet(mainQueue') = ToSet(mainQueue) \cup {Job("childAdded", m)}
        BY <3>3, JobTypes, AppendElements DEF TypeOK, Notice
      <4> QED
        BY <4>1 DEF Job, Settled
    <3>4. CASE HandleReload
      <4>1. owner \in Users
        BY DEF Released
      <4>2. ToSet(mainQueue') = ToSet(mainQueue) \cup {Job("reload", owner)}
        BY <3>4, <4>1, JobTypes, AppendElements DEF TypeOK, HandleReload
      <4> QED
        BY <4>2 DEF Job, Settled
    <3>5. CASE UNCHANGED mainQueue
      BY <3>5 DEF Settled
    <3> QED
      BY <1>1, <1>2, <1>4, <3>1, <3>2, <3>3, <3>4, <3>5 DEF Next, File, DidSelectRow, Back, sdk
  <2> QED
    BY <2>2, <2>3, <2>4, <2>5 DEF Settled
<1> QED
  BY <1>3, <1>4

LEMMA PhasesStep ==
  ASSUME TypeOK, Released, Phases, Next
  PROVE  Phases'
<1>1. ASSUME logins' = 0 PROVE screen' = "login" /\ indexed' = {}
  <2>1. logins = 0
    <3>1. ASSUME NEW u \in Users, Login(u) \/ Register(u) PROVE FALSE
      BY <1>1, <3>1, Pushes DEF PushHome, TypeOK
    <3>2. CASE MainQueueRuns
      BY <1>1, <3>2 DEF MainQueueRuns, ProfileBlock, WipeBlock, ChildAddedBlock, MessageBlock,
         ReloadBlock, UserBlock, Run, past
    <3>3. CASE ~MainQueueRuns
      BY <1>1, <3>1, <3>3 DEF Next, MainQueueRuns, Logout, LoginTap, Relaunch, File, Answer,
         Reconnect, Notice, HandleReload, DidSelectRow, Back, past
    <3> QED
      BY <3>2, <3>3
  <2>2. screen = "login" /\ indexed = {} /\ asked = <<>> /\ mainQueue = <<>>
    BY <2>1 DEF Phases, Released
  <2>3. \A u \in Users: ~Login(u) /\ ~Register(u)
    BY <1>1, <2>1, Pushes DEF PushHome
  <2>4. ~Answer /\ ~MainQueueRuns
    BY <2>2 DEF Answer, MainQueueRuns, ProfileBlock, WipeBlock, ChildAddedBlock, MessageBlock,
       ReloadBlock, UserBlock, Run
  <2>5. CASE Logout \/ LoginTap \/ Relaunch
    BY <2>2, <2>5 DEF Logout, LoginTap, Relaunch
  <2>6. CASE ~(Logout \/ LoginTap \/ Relaunch)
    <3>1. UNCHANGED <<screen, indexed>>
      BY <2>3, <2>4, <2>6 DEF Next, MainQueueRuns, File, Reconnect, Notice, HandleReload,
         DidSelectRow, Back, place, sdk
    <3> QED
      BY <2>2, <3>1
  <2> QED
    BY <2>5, <2>6
<1>2. ASSUME screen' = "shown", ordered'
      PROVE  AskedFirst' \/ Answered' \/ Wiping' \/ Settled'
  <2>1. ASSUME NEW u \in Users, Login(u) \/ Register(u) PROVE AskedFirst'
    <3>1. PushHome(u) /\ logins = 0
      BY <1>2, <2>1, Pushes
    <3>2. indexed = {} /\ messages = <<>> /\ ~timer /\ noticed = {}
      BY <3>1 DEF Phases, Released
    <3> QED
      BY <3>1, <3>2 DEF PushHome, ViewDidLoad, AskedFirst, vc
  <2>2. ASSUME ~ \E u \in Users: Login(u) \/ Register(u)
        PROVE  screen = "shown" /\ ordered
    <3>1. ~Logout /\ ~LoginTap /\ ~Relaunch
      BY <1>2 DEF Logout, LoginTap, Relaunch
    <3>2. ~Reconnect
      BY <1>2 DEF Reconnect
    <3> QED
      BY <1>2, <2>2, <3>1, <3>2 DEF Next, File, Answer, Notice,
         ProfileBlock, WipeBlock, ChildAddedBlock, MessageBlock, HandleReload, ReloadBlock,
         UserBlock, DidSelectRow, Back, Run, place, past
  <2>3. CASE ~ \E u \in Users: Login(u) \/ Register(u)
    <3>1. AskedFirst \/ Answered \/ Wiping \/ Settled
      BY <2>2, <2>3 DEF Phases
    <3> QED
      BY <1>2, <2>2, <2>3, <3>1, AskedFirstStep, AnsweredStep, WipingStep, SettledStep
  <2> QED
    BY <2>1, <2>3
<1> QED
  BY <1>1, <1>2 DEF Phases

-----------------------------------------------------------------------------
(* The invariant, and what follows from it.                                *)

LEMMA IInvInit == Init => IInv
<1> SUFFICES ASSUME Init PROVE IInv
  OBVIOUS
<1>1. Released /\ Reloads /\ Phases
  BY DEF Init, Released, Reloads, Phases
<1>2. OwnMessages
  BY ShortQueues DEF Init, OwnMessages
<1>3. OwnRows
  BY EmptyRows, ShortQueues DEF Init, OwnRows
<1> QED
  BY <1>1, <1>2, <1>3, TypeInit DEF IInv

LEMMA IInvStep == IInv /\ [Next]_vars => IInv'
<1> SUFFICES ASSUME IInv, [Next]_vars PROVE IInv'
  OBVIOUS
<1>1. CASE Next
  BY <1>1, TypeStep, ReleasedStep, OwnMessagesStep, OwnRowsStep, ReloadsStep, PhasesStep DEF IInv
<1>2. CASE UNCHANGED vars
  BY <1>2 DEF vars, place, vc, sdk, past, IInv, TypeOK, Released, OwnMessages, OwnRows, Reloads,
     Phases, Mine, Partner, RowsOf, AskedFirst, Answered, Wiping, Settled, Waiting
<1> QED
  BY <1>1, <1>2

\* The inductive invariant of the home screen, with the parts named above.
THEOREM Invariance == Spec => []IInv
BY IInvInit, IInvStep, PTL DEF Spec

\* The state has its types; somebody is signed in exactly while the screen is
\* shown, and it is the screen's owner.
THEOREM TypeCorrect == Spec => []TypeOK
<1>1. IInv => TypeOK
  BY DEF IInv
<1> QED
  BY <1>1, Invariance, PTL

\* Nobody ever sees a row of another user's chats, although a logout removes no
\* observer and the old screen lives on (LoginClient+LoginVC.swift:16,
\* RecentMessagesVC.swift:57-67).
THEOREM RowsOwn == Spec => []RowsAreOwn
<1>1. IInv => RowsAreOwn
  BY DEF IInv, TypeOK, OwnMessages, Mine, RowsAreOwn, ToSet
<1> QED
  BY <1>1, Invariance, PTL

\* However often the timer is put off, a table that lags behind is reloaded
\* (RecentMessagesVC.swift:64-76).
THEOREM ReloadComes == Spec => []ReloadPending
<1>1. IInv => ReloadPending
  BY DEF IInv, Reloads, ReloadPending, ToSet
<1> QED
  BY <1>1, Invariance, PTL

\* A tapped row always has its message: the rows only grow, except in the wipe,
\* which reloads at once (RecentMessagesVC.swift:82-84, 120).
THEOREM TapFindsMessage == Spec => []TapInBounds
<1>1. IInv => TapInBounds
  BY DEF IInv, OwnRows, TapInBounds
<1> QED
  BY <1>1, Invariance, PTL

\* In a home opened by a registration whose connection holds, the wipe never
\* takes a row away: the profile is asked for before the index
\* (RecentMessagesVC.swift:55-57).
THEOREM WipeComesFirst == Spec => []NothingWiped
<1>1. IInv => NothingWiped
  <2> SUFFICES ASSUME IInv, screen = "shown", ordered, NEW m \in noticed, ~InFlight(m)
               PROVE  messagesDictionary[ChatPartnerId(m)] # NoMessage
    BY DEF NothingWiped
  <2>1. ~Waiting(m)
    BY DEF InFlight, Waiting, ToSet
  <2>2. ChatPartnerId(m) = Partner(m)
    BY DEF IInv, TypeOK, ChatPartnerId, Partner
  <2>3. AskedFirst \/ Answered \/ Wiping \/ Settled
    BY DEF IInv, Phases
  <2> QED
    BY <2>1, <2>2, <2>3 DEF AskedFirst, Answered, Wiping, Settled
<1> QED
  BY <1>1, Invariance, PTL

=============================================================================

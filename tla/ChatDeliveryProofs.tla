-------------------------- MODULE ChatDeliveryProofs --------------------------
(***************************************************************************)
(* Proofs about ChatDelivery, for any number of devices, accounts,         *)
(* messages, connections and crashes.                                      *)
(***************************************************************************)
EXTENDS ChatDelivery, FiniteSetTheorems, SequenceTheorems, TLAPS

(* Sequence helpers.                                                       *)

\* Removing one element from a sequence leaves a sequence over the same set.
LEMMA RemoveAtType ==
  ASSUME NEW S, NEW s \in Seq(S), NEW k \in DOMAIN s
  PROVE  /\ RemoveAt(s, k) \in Seq(S)
         /\ Len(RemoveAt(s, k)) = Len(s) - 1
         /\ \A j \in 1..(k - 1) : RemoveAt(s, k)[j] = s[j]
         /\ \A j \in k..(Len(s) - 1) : RemoveAt(s, k)[j] = s[j + 1]
<1> DEFINE a == SubSeq(s, 1, k - 1)
           b == SubSeq(s, k + 1, Len(s))
<1>1. a \in Seq(S) /\ Len(a) = k - 1 /\ \A j \in 1..(k - 1) : a[j] = s[j]
  OBVIOUS
<1>2. b \in Seq(S) /\ Len(b) = Len(s) - k /\ \A j \in 1..(Len(s) - k) : b[j] = s[k + j]
  OBVIOUS
<1>3. RemoveAt(s, k) = a \o b
  BY DEF RemoveAt
<1> HIDE DEF a, b
<1>4. /\ a \o b \in Seq(S)
      /\ Len(a \o b) = Len(s) - 1
      /\ \A j \in 1..(k - 1) : (a \o b)[j] = s[j]
  BY <1>1, <1>2
<1>5. ASSUME NEW j \in k..(Len(s) - 1)
      PROVE  (a \o b)[j] = s[j + 1]
  <2>1. (a \o b)[j] = b[j - (k - 1)]
    BY <1>1, <1>2
  <2>2. j - (k - 1) \in 1..(Len(s) - k) /\ k + (j - (k - 1)) = j + 1
    OBVIOUS
  <2> QED
    BY <1>2, <2>1, <2>2
<1> QED
  BY <1>3, <1>4, <1>5

\* A prefix of a sequence.
LEMMA PrefixType ==
  ASSUME NEW S, NEW s \in Seq(S), NEW n \in 0..Len(s)
  PROVE  /\ SubSeq(s, 1, n) \in Seq(S)
         /\ Len(SubSeq(s, 1, n)) = n
         /\ \A j \in 1..n : SubSeq(s, 1, n)[j] = s[j]
OBVIOUS

\* Taking an answered put off the table keeps the table's type.
LEMMA WithoutType ==
  ASSUME NEW S, NEW s \in Seq(S), NEW w
  PROVE  Without(s, w) \in Seq(S)
<1> DEFINE k == CHOOSE i \in DOMAIN s : s[i] = w
<1>1. CASE \E i \in DOMAIN s : s[i] = w
  <2>1. k \in DOMAIN s
    BY <1>1
  <2>2. RemoveAt(s, k) \in Seq(S)
    BY <2>1, RemoveAtType
  <2> QED
    BY <1>1, <2>2 DEF Without
<1>2. CASE ~ \E i \in DOMAIN s : s[i] = w
  BY <1>2 DEF Without
<1> QED
  BY <1>1, <1>2

-----------------------------------------------------------------------------
(* The inductive invariant.  TypeOK alone is not inductive: FanOut reads the *)
(* parties of the message its completion names, so every write on its way    *)
(* must be known to belong to a message that was composed.  The queues are   *)
(* therefore typed by the writes that are sound in the current state; these  *)
(* sets only grow, and all a queue does is closed under them.                *)

Entry(w) == <<w.owner, w.partner, w.msg>>

\* The entry sits where the message's parties look for it, and leads somewhere.
SoundEntry(u, v, m) ==
  /\ Box!Sent(m)
  /\ <<u, v, m>> \in {Box!SenderEntry(m), Box!RecipientEntry(m)}
  /\ "messages" \notin Refusable => m \in stored

SoundWrites ==
  {w \in Writes :
     /\ Box!Sent(w.msg)
     /\ w.node = "user-messages" => SoundEntry(w.owner, w.partner, w.msg)}

Applied(w) ==
  IF w.node = "messages" THEN w.msg \in stored ELSE Entry(w) \in userMessages

SoundAcks ==
  {a \in Acks : /\ a.write \in SoundWrites
                /\ a.status = "ok" => Applied(a.write)
                /\ a.write.node \notin Refusable => a.status = "ok"}

SoundCompletions == {a \in SoundAcks : a.write.node = "messages"}

\* A device that is not disconnected has a connection to send on.
ConnectedHasWire ==
  \A d \in Devices : conn[d] # "disconnected" => connNo[d] \in 1..MaxConns

Scalars ==
  /\ session \in [Devices -> Users \cup {NoUser}]
  /\ conn \in [Devices -> ConnStates]
  /\ connNo \in [Devices -> 0..MaxConns]
  /\ observed \in [Devices -> SUBSET Users]
  /\ listened \in [Devices -> SUBSET Users]
  /\ reading \in [Devices -> Nat]
  /\ reads \in [Devices -> 0..MaxReads]
  /\ unacked \in [Devices -> Nat]
  /\ crashes \in [Devices -> 0..MaxCrashes]
  /\ composed \in [Messages -> [from: Users, to: Users] \cup {Unsent}]
  /\ ConnectedHasWire

Queues ==
  /\ outstanding \in [Devices -> Seq(SoundWrites)]
  /\ wire \in [Devices -> [1..MaxConns -> Seq(SoundWrites)]]
  /\ replies \in [Devices -> Seq(SoundAcks)]
  /\ putsToAck \in [Devices -> Seq(SoundCompletions)]
  /\ mainQueue \in [Devices -> Seq(SoundCompletions)]

Files ==
  /\ stored \subseteq {m \in Messages : Box!Sent(m)}
  /\ userMessages \subseteq Users \X Users \X Messages
  /\ \A u, v \in Users, m \in Messages :
        <<u, v, m>> \in userMessages => SoundEntry(u, v, m)

IInv == Scalars /\ Queues /\ Files

-----------------------------------------------------------------------------
(* Facts about the queues' operations, for any set S of writes.            *)

LEMMA PutQueues ==
  ASSUME NEW S, NEW d \in Devices, NEW ws \in Seq(S), Put(d, ws), ConnectedHasWire,
         outstanding \in [Devices -> Seq(S)],
         wire \in [Devices -> [1..MaxConns -> Seq(S)]]
  PROVE  /\ outstanding' \in [Devices -> Seq(S)]
         /\ wire' \in [Devices -> [1..MaxConns -> Seq(S)]]
<1>1. outstanding' \in [Devices -> Seq(S)]
  BY DEF Put
<1>2. CASE CanSendWrites(d)
  <2> DEFINE c == connNo[d]
  <2>1. c \in 1..MaxConns
    BY <1>2 DEF ConnectedHasWire, CanSendWrites
  <2>2. wire[d][c] \in Seq(S)
    BY <2>1
  <2>5. wire[d][c] \o ws \in Seq(S)
    BY <2>2, ConcatProperties
  <2>3. wire' = [wire EXCEPT ![d] = [wire[d] EXCEPT ![c] = wire[d][c] \o ws]]
    BY <1>2, <2>1 DEF Put
  <2> HIDE DEF c
  <2>4. [wire[d] EXCEPT ![c] = wire[d][c] \o ws] \in [1..MaxConns -> Seq(S)]
    BY <2>5
  <2> QED
    BY <1>1, <2>3, <2>4
<1>3. CASE ~ CanSendWrites(d)
  BY <1>1, <1>3 DEF Put
<1> QED
  BY <1>2, <1>3

LEMMA RestoreStateQueues ==
  ASSUME NEW S, NEW d \in Devices, NEW c \in 1..MaxConns, RestoreState(d, c),
         outstanding \in [Devices -> Seq(S)],
         wire \in [Devices -> [1..MaxConns -> Seq(S)]]
  PROVE  wire' \in [Devices -> [1..MaxConns -> Seq(S)]]
<1>1. wire' = [wire EXCEPT ![d] = [wire[d] EXCEPT ![c] = outstanding[d]]]
  BY DEF RestoreState
<1>2. [wire[d] EXCEPT ![c] = outstanding[d]] \in [1..MaxConns -> Seq(S)]
  OBVIOUS
<1> QED
  BY <1>1, <1>2

LEMMA CutWireQueues ==
  ASSUME NEW S, NEW d \in Devices, connNo[d] \in 1..MaxConns,
         wire \in [Devices -> [1..MaxConns -> Seq(S)]],
         NEW n \in 0..Len(wire[d][connNo[d]]), CutWire(d, n)
  PROVE  wire' \in [Devices -> [1..MaxConns -> Seq(S)]]
<1> DEFINE c == connNo[d]
           t == SubSeq(wire[d][c], 1, n)
<1>1. wire[d][c] \in Seq(S)
  OBVIOUS
<1>2. t \in Seq(S)
  BY <1>1, PrefixType
<1>3. wire' = [wire EXCEPT ![d] = [wire[d] EXCEPT ![c] = t]]
  BY DEF CutWire
<1> HIDE DEF t
<1>4. [wire[d] EXCEPT ![c] = t] \in [1..MaxConns -> Seq(S)]
  BY <1>2
<1> QED
  BY <1>3, <1>4

\* The number of listens is a natural number.
LEMMA ListensType ==
  ASSUME Scalars, NEW d \in Devices
  PROVE  Listens(d) \in Nat
<1>1. IsFiniteSet(listened[d])
  BY FS_Subset, UsersAssumption DEF Scalars
<1>2. Cardinality(listened[d]) \in Nat
  BY <1>1, FS_CardinalityType
<1> QED
  BY <1>2 DEF Listens, Scalars

-----------------------------------------------------------------------------
(* No step takes back a message or a write of the server: the sound sets    *)
(* only grow.                                                               *)

Grows ==
  /\ \A m \in Messages : Box!Sent(m) => composed'[m] = composed[m]
  /\ stored \subseteq stored'
  /\ userMessages \subseteq userMessages'

LEMMA StepGrows ==
  ASSUME Scalars, [Next]_vars
  PROVE  Grows
<1>1. ASSUME NEW d \in Devices, NEW m \in Messages, NEW v \in Users, Send(d, m, v)
      PROVE  Grows
  BY <1>1 DEF Send, Grows, Scalars, Box!Sent, server
<1>2. ASSUME NEW d \in Devices, NEW c \in 1..MaxConns, Serve(d, c)
      PROVE  Grows
  BY <1>2 DEF Serve, Apply, Grows, server
<1>3. CASE UNCHANGED <<composed, server>>
  BY <1>3 DEF Grows, server
<1>4. CASE UNCHANGED vars
  BY <1>3, <1>4 DEF vars
<1> QED
  BY <1>1, <1>2, <1>3, <1>4
  DEF Next, SignIn, SignOut, FanOut, StartRead, EndRead, Connect, Authenticated,
      Disconnect, ReceiveAck, ReceiveListenReply,
      RevokeListen, Crash

LEMMA SoundEntryGrows ==
  ASSUME Grows, NEW u \in Users, NEW v \in Users, NEW m \in Messages,
         SoundEntry(u, v, m)
  PROVE  SoundEntry(u, v, m)'
BY DEF Grows, SoundEntry, Box!Sent, Box!SenderEntry, Box!RecipientEntry

LEMMA WriteFields ==
  /\ \A w \in Writes : w.node \in Nodes /\ w.msg \in Messages
  /\ \A w \in Writes : w.node = "user-messages" => w.owner \in Users /\ w.partner \in Users
BY DEF Writes, MessageWrites, IndexWrites, Nodes

LEMMA SoundGrows ==
  ASSUME Grows
  PROVE  /\ SoundWrites \subseteq SoundWrites'
         /\ SoundAcks \subseteq SoundAcks'
         /\ SoundCompletions \subseteq SoundCompletions'
<1>1. ASSUME NEW w \in SoundWrites
      PROVE  w \in SoundWrites'
  <2>1. w \in Writes /\ w.msg \in Messages /\ Box!Sent(w.msg)
    BY WriteFields DEF SoundWrites
  <2>2. Box!Sent(w.msg)'
    BY <2>1 DEF Grows, Box!Sent
  <2>3. w.node = "user-messages" => SoundEntry(w.owner, w.partner, w.msg)'
    BY WriteFields, SoundEntryGrows DEF SoundWrites
  <2> QED
    BY <2>1, <2>2, <2>3 DEF SoundWrites
<1>2. \A w : Applied(w) => Applied(w)'
  BY DEF Grows, Applied, Entry
<1>3. SoundAcks \subseteq SoundAcks'
  BY <1>1, <1>2 DEF SoundAcks
<1> QED
  BY <1>1, <1>3 DEF SoundCompletions

\* The queues as they stand, typed by the sets of the next state.
LEMMA QueuesGrow ==
  ASSUME Queues, Grows
  PROVE  /\ outstanding \in [Devices -> Seq(SoundWrites')]
         /\ wire \in [Devices -> [1..MaxConns -> Seq(SoundWrites')]]
         /\ replies \in [Devices -> Seq(SoundAcks')]
         /\ putsToAck \in [Devices -> Seq(SoundCompletions')]
         /\ mainQueue \in [Devices -> Seq(SoundCompletions')]
<1>1. /\ Seq(SoundWrites) \subseteq Seq(SoundWrites')
      /\ Seq(SoundAcks) \subseteq Seq(SoundAcks')
      /\ Seq(SoundCompletions) \subseteq Seq(SoundCompletions')
  BY SoundGrows, SeqMonotonic
<1> QED
  BY <1>1 DEF Queues

-----------------------------------------------------------------------------
(* The invariant holds initially and is kept by every step.                *)

LEMMA InitInv == Init => IInv
<1> SUFFICES ASSUME Init PROVE IInv
  OBVIOUS
<1> USE BoundsAssumption DEF Init, Box!Init
<1>1. Scalars
  BY DEF Scalars, ConnectedHasWire, ConnStates
<1>2. Queues
  BY DEF Queues
<1>3. Files
  BY DEF Files
<1> QED
  BY <1>1, <1>2, <1>3 DEF IInv

LEMMA StepScalars ==
  ASSUME Scalars, [Next]_vars
  PROVE  Scalars'
<1> USE BoundsAssumption DEF Scalars, ConnectedHasWire
<1>1. ASSUME NEW d \in Devices, NEW u \in Users, SignIn(d, u)
      PROVE  Scalars'
  <2>1. unacked' \in [Devices -> Nat]
    BY <1>1 DEF SignIn, Listen
  <2>2. /\ observed' \in [Devices -> SUBSET Users]
        /\ listened' \in [Devices -> SUBSET Users]
    BY <1>1 DEF SignIn
  <2> QED
    BY <1>1, <2>1, <2>2 DEF SignIn, bounds
<1>2. ASSUME NEW d \in Devices, SignOut(d)
      PROVE  Scalars'
  BY <1>2 DEF SignOut, client, bounds
<1>3. ASSUME NEW d \in Devices, NEW m \in Messages, NEW v \in Users, Send(d, m, v)
      PROVE  Scalars'
  <2>1. composed' \in [Messages -> [from: Users, to: Users] \cup {Unsent}]
    BY <1>3 DEF Send, HomeShown
  <2> QED
    BY <1>3, <2>1 DEF Send, bounds
<1>4. ASSUME NEW d \in Devices, FanOut(d)
      PROVE  Scalars'
  BY <1>4 DEF FanOut, bounds
<1>5. ASSUME NEW d \in Devices, StartRead(d)
      PROVE  Scalars'
  <2>1. unacked' \in [Devices -> Nat]
    BY <1>5 DEF StartRead, Listen
  <2>2. /\ reads' \in [Devices -> 0..MaxReads]
        /\ reading' \in [Devices -> Nat]
    BY <1>5 DEF StartRead
  <2> QED
    BY <1>5, <2>1, <2>2 DEF StartRead
<1>6. ASSUME NEW d \in Devices, EndRead(d)
      PROVE  Scalars'
  <2>1. reading' \in [Devices -> Nat]
    BY <1>6 DEF EndRead
  <2> QED
    BY <1>6, <2>1 DEF EndRead, bounds
<1>7. ASSUME NEW d \in Devices, Connect(d)
      PROVE  Scalars'
  <2>1. connNo[d] + 1 \in 1..MaxConns
    BY <1>7 DEF Connect
  <2>2. unacked' \in [Devices -> Nat]
    BY <1>7, ListensType DEF Connect, RestoreState
  <2>3. conn' \in [Devices -> ConnStates]
    BY <1>7 DEF Connect, ConnStates
  <2>4. connNo' \in [Devices -> 0..MaxConns] /\ ConnectedHasWire'
    BY <1>7, <2>1 DEF Connect
  <2> QED
    BY <1>7, <2>2, <2>3, <2>4 DEF Connect
<1>8. ASSUME NEW d \in Devices, Authenticated(d)
      PROVE  Scalars'
  <2>1. unacked' \in [Devices -> Nat]
    BY <1>8, ListensType DEF Authenticated, RestoreState
  <2>2. conn' \in [Devices -> ConnStates] /\ ConnectedHasWire'
    BY <1>8 DEF Authenticated, ConnStates, bounds
  <2> QED
    BY <1>8, <2>1, <2>2 DEF Authenticated, bounds
<1>9. ASSUME NEW d \in Devices, Disconnect(d)
      PROVE  Scalars'
  <2>1. conn' \in [Devices -> ConnStates] /\ ConnectedHasWire'
    BY <1>9 DEF Disconnect, ConnStates, bounds
  <2>2. unacked' \in [Devices -> Nat]
    BY <1>9 DEF Disconnect
  <2> QED
    BY <1>9, <2>1, <2>2 DEF Disconnect, bounds
<1>10. ASSUME NEW d \in Devices, ReceiveAck(d)
       PROVE  Scalars'
  BY <1>10 DEF ReceiveAck, bounds
<1>11. ASSUME NEW d \in Devices, ReceiveListenReply(d)
       PROVE  Scalars'
  <2>1. unacked' \in [Devices -> Nat]
    BY <1>11 DEF ReceiveListenReply
  <2>2. listened' \in [Devices -> SUBSET Users]
    BY <1>11 DEF ReceiveListenReply, Unlisten
  <2> QED
    BY <1>11, <2>1, <2>2 DEF ReceiveListenReply, bounds
<1>12. ASSUME NEW d \in Devices, Crash(d)
       PROVE  Scalars'
  <2>1. /\ conn' \in [Devices -> ConnStates] /\ ConnectedHasWire'
        /\ crashes' \in [Devices -> 0..MaxCrashes]
    BY <1>12 DEF Crash, ConnStates
  <2>2. /\ session' \in [Devices -> Users \cup {NoUser}]
        /\ observed' \in [Devices -> SUBSET Users]
        /\ listened' \in [Devices -> SUBSET Users]
    BY <1>12 DEF Crash
  <2>3. unacked' \in [Devices -> Nat] /\ reading' \in [Devices -> Nat]
    BY <1>12 DEF Crash
  <2> QED
    BY <1>12, <2>1, <2>2, <2>3 DEF Crash
<1>13. ASSUME NEW d \in Devices, NEW c \in 1..MaxConns, Serve(d, c)
       PROVE  Scalars'
  BY <1>13 DEF Serve, bounds
<1>14. CASE UNCHANGED vars
  BY <1>14 DEF vars, client, bounds
<1>15. ASSUME NEW d \in Devices, RevokeListen(d)
       PROVE  Scalars'
  <2>1. listened' \in [Devices -> SUBSET Users]
    BY <1>15 DEF RevokeListen, Unlisten
  <2> QED
    BY <1>15, <2>1 DEF RevokeListen, bounds
<1> QED
  BY <1>1, <1>2, <1>3, <1>4, <1>5, <1>6, <1>7, <1>8, <1>9, <1>10, <1>11, <1>12,
     <1>13, <1>14, <1>15 DEF Next

\* The two writes of a fan-out are sound once the message's completion is.
LEMMA FanOutSound ==
  ASSUME Scalars, NEW a \in SoundCompletions
  PROVE  LET m == a.write.msg
             p == composed[m]
         IN  /\ m \in Messages /\ Box!Sent(m) /\ p \in [from: Users, to: Users]
             /\ IndexWrite(p.from, p.to, m) \in SoundWrites
             /\ IndexWrite(p.to, p.from, m) \in SoundWrites
<1> DEFINE m == a.write.msg
           p == composed[m]
<1>1. /\ a.write \in SoundWrites /\ a.write.node = "messages"
      /\ "messages" \notin Refusable => m \in stored
  BY DEF SoundCompletions, SoundAcks, Applied
<1>2. m \in Messages /\ Box!Sent(m)
  BY <1>1, WriteFields DEF SoundWrites
<1>3. p \in [from: Users, to: Users]
  BY <1>2 DEF Scalars, Box!Sent
<1>4. SoundEntry(p.from, p.to, m) /\ SoundEntry(p.to, p.from, m)
  BY <1>1, <1>2 DEF SoundEntry, Box!SenderEntry, Box!RecipientEntry
<1>5. /\ IndexWrite(p.from, p.to, m) \in Writes
      /\ IndexWrite(p.to, p.from, m) \in Writes
  BY <1>2, <1>3 DEF IndexWrite, Writes, IndexWrites
<1>6. /\ IndexWrite(p.from, p.to, m) \in SoundWrites
      /\ IndexWrite(p.to, p.from, m) \in SoundWrites
  BY <1>2, <1>4, <1>5 DEF SoundWrites, IndexWrite
<1> QED
  BY <1>2, <1>3, <1>6

\* What an answer completes is a sound completion.
LEMMA CompletionsSound ==
  ASSUME NEW a \in SoundAcks
  PROVE  Completions(a.write, a.status) \in Seq(SoundCompletions)
<1> DEFINE b == [write |-> a.write, status |-> a.status]
<1>1. a = b
  BY DEF SoundAcks, Acks
<1>2. CASE a.write.node = "messages"
  <2>1. b \in SoundCompletions
    BY <1>1, <1>2 DEF SoundCompletions
  <2> HIDE DEF b
  <2>2. <<b>> \in Seq(SoundCompletions)
    BY <2>1
  <2> QED
    BY <1>2, <2>2 DEF Completions, b
<1>3. CASE a.write.node # "messages"
  BY <1>3 DEF Completions
<1> QED
  BY <1>2, <1>3

LEMMA StepQueues ==
  ASSUME IInv, [Next]_vars
  PROVE  Queues'
<1> DEFINE W == SoundWrites'
           A == SoundAcks'
           C == SoundCompletions'
<1>0. Scalars /\ Queues /\ Files /\ ConnectedHasWire /\ Grows
  BY StepGrows DEF IInv, Scalars
<1>1. /\ outstanding \in [Devices -> Seq(W)]
      /\ wire \in [Devices -> [1..MaxConns -> Seq(W)]]
      /\ replies \in [Devices -> Seq(A)]
      /\ putsToAck \in [Devices -> Seq(C)]
      /\ mainQueue \in [Devices -> Seq(C)]
  BY <1>0, QueuesGrow
<1>2. SoundWrites \subseteq W /\ SoundAcks \subseteq A /\ SoundCompletions \subseteq C
  BY <1>0, SoundGrows
<1>3. SUFFICES /\ outstanding' \in [Devices -> Seq(W)]
               /\ wire' \in [Devices -> [1..MaxConns -> Seq(W)]]
               /\ replies' \in [Devices -> Seq(A)]
               /\ putsToAck' \in [Devices -> Seq(C)]
               /\ mainQueue' \in [Devices -> Seq(C)]
  BY DEF Queues
<1> HIDE DEF W, A, C
<1> DEFINE Goal == /\ outstanding' \in [Devices -> Seq(W)]
                   /\ wire' \in [Devices -> [1..MaxConns -> Seq(W)]]
                   /\ replies' \in [Devices -> Seq(A)]
                   /\ putsToAck' \in [Devices -> Seq(C)]
                   /\ mainQueue' \in [Devices -> Seq(C)]
<1>4. ASSUME NEW d \in Devices, NEW m \in Messages, NEW v \in Users, Send(d, m, v)
      PROVE  Goal
  <2>1. MessageWrite(m) \in W
    <3>1. MessageWrite(m) \in Writes
      BY DEF MessageWrite, Writes, MessageWrites
    <3>2. session[d] \in Users
      BY <1>0, <1>4 DEF Send, HomeShown, Scalars
    <3>3. Box!Sent(m)'
      BY <1>0, <1>4, <3>2, UnsentAssumption DEF Send, Box!Sent, Scalars
    <3> QED
      BY <3>1, <3>3 DEF W, SoundWrites, MessageWrite
  <2>2. <<MessageWrite(m)>> \in Seq(W)
    BY <2>1
  <2>3. /\ outstanding' \in [Devices -> Seq(W)]
        /\ wire' \in [Devices -> [1..MaxConns -> Seq(W)]]
    BY <1>0, <1>1, <1>4, <2>2, PutQueues DEF Send
  <2> QED
    BY <1>1, <1>4, <2>3 DEF Send
<1>5. ASSUME NEW d \in Devices, FanOut(d)
      PROVE  Goal
  <2> DEFINE a == Head(mainQueue[d])
             m == a.write.msg
             p == composed[m]
             ws == <<IndexWrite(p.from, p.to, m), IndexWrite(p.to, p.from, m)>>
  <2>1. a \in SoundCompletions
    BY <1>0, <1>5 DEF FanOut, Queues
  <2>2. ws \in Seq(W)
    BY <1>0, <1>2, <2>1, FanOutSound
  <2>3. Put(d, ws)
    BY <1>5 DEF FanOut
  <2> HIDE DEF ws
  <2>4. /\ outstanding' \in [Devices -> Seq(W)]
        /\ wire' \in [Devices -> [1..MaxConns -> Seq(W)]]
    BY <1>0, <1>1, <2>2, <2>3, PutQueues
  <2>5. mainQueue' \in [Devices -> Seq(C)]
    BY <1>1, <1>5 DEF FanOut
  <2> QED
    BY <1>1, <1>5, <2>4, <2>5 DEF FanOut
<1>6. ASSUME NEW d \in Devices, Connect(d)
      PROVE  Goal
  <2>1. connNo[d] + 1 \in 1..MaxConns
    BY <1>0, <1>6, BoundsAssumption DEF Connect, Scalars
  <2>2. wire' \in [Devices -> [1..MaxConns -> Seq(W)]]
    BY <1>1, <1>6, <2>1, RestoreStateQueues DEF Connect
  <2> QED
    BY <1>1, <1>6, <2>2 DEF Connect
<1>7. ASSUME NEW d \in Devices, Authenticated(d)
      PROVE  Goal
  <2>1. connNo[d] \in 1..MaxConns
    BY <1>0, <1>7 DEF Authenticated, ConnectedHasWire
  <2>2. wire' \in [Devices -> [1..MaxConns -> Seq(W)]]
    BY <1>1, <1>7, <2>1, RestoreStateQueues DEF Authenticated
  <2> QED
    BY <1>1, <1>7, <2>2 DEF Authenticated
<1>8. ASSUME NEW d \in Devices, Disconnect(d)
      PROVE  Goal
  <2>1. connNo[d] \in 1..MaxConns
    BY <1>0, <1>8 DEF Disconnect, Connected, ConnectedHasWire
  <2>2. wire' \in [Devices -> [1..MaxConns -> Seq(W)]]
    BY <1>1, <1>8, <2>1, CutWireQueues DEF Disconnect
  <2>3. replies' \in [Devices -> Seq(A)]
    BY <1>1, <1>8 DEF Disconnect
  <2> QED
    BY <1>1, <1>8, <2>2, <2>3 DEF Disconnect
<1>9. ASSUME NEW d \in Devices, ReceiveAck(d)
      PROVE  Goal
  <2> DEFINE a == Head(replies[d])
             done == Completions(a.write, a.status)
  <2>1. a \in SoundAcks
    BY <1>0, <1>9 DEF ReceiveAck, Queues
  <2>2. Seq(SoundCompletions) \subseteq Seq(C)
    BY <1>2, SeqMonotonic
  <2>3. done \in Seq(C)
    BY <2>1, <2>2, CompletionsSound
  <2>4. Without(outstanding[d], a.write) \in Seq(W)
    BY <1>1, WithoutType
  <2>5. mainQueue[d] \o done \in Seq(C) /\ putsToAck[d] \o done \in Seq(C)
    <3>1. mainQueue[d] \in Seq(C) /\ putsToAck[d] \in Seq(C)
      BY <1>1
    <3> HIDE DEF done
    <3> QED
      BY <2>3, <3>1, ConcatProperties
  <2>9. \/ /\ mainQueue' = [mainQueue EXCEPT ![d] = mainQueue[d] \o done]
           /\ putsToAck' = putsToAck
        \/ /\ putsToAck' = [putsToAck EXCEPT ![d] = putsToAck[d] \o done]
           /\ mainQueue' = mainQueue
    BY <1>9 DEF ReceiveAck
  <2> HIDE DEF done
  <2>6. outstanding' \in [Devices -> Seq(W)]
    BY <1>1, <1>9, <2>4 DEF ReceiveAck
  <2>7. /\ mainQueue' \in [Devices -> Seq(C)]
        /\ putsToAck' \in [Devices -> Seq(C)]
    <3>1. [mainQueue EXCEPT ![d] = mainQueue[d] \o done] \in [Devices -> Seq(C)]
      BY <1>1, <2>5
    <3>2. [putsToAck EXCEPT ![d] = putsToAck[d] \o done] \in [Devices -> Seq(C)]
      BY <1>1, <2>5
    <3> QED
      BY <1>1, <2>9, <3>1, <3>2
  <2>8. replies' \in [Devices -> Seq(A)]
    BY <1>1, <1>9 DEF ReceiveAck
  <2> QED
    BY <1>1, <1>9, <2>6, <2>7, <2>8 DEF ReceiveAck
<1>10. ASSUME NEW d \in Devices, ReceiveListenReply(d)
       PROVE  Goal
  <2>1. mainQueue[d] \o putsToAck[d] \in Seq(C)
    BY <1>1, ConcatProperties
  <2>2. /\ mainQueue' \in [Devices -> Seq(C)]
        /\ putsToAck' \in [Devices -> Seq(C)]
    <3>1. [mainQueue EXCEPT ![d] = @ \o putsToAck[d]] \in [Devices -> Seq(C)]
      BY <1>1, <2>1
    <3>2. [putsToAck EXCEPT ![d] = <<>>] \in [Devices -> Seq(C)]
      BY <1>1
    <3>3. CASE unacked[d] = 1
      BY <1>10, <3>1, <3>2, <3>3 DEF ReceiveListenReply
    <3>4. CASE unacked[d] # 1
      BY <1>1, <1>10, <3>4 DEF ReceiveListenReply
    <3> QED
      BY <3>3, <3>4
  <2> QED
    BY <1>1, <1>10, <2>2 DEF ReceiveListenReply
<1>11. ASSUME NEW d \in Devices, Crash(d)
       PROVE  Goal
  <2>1. wire' \in [Devices -> [1..MaxConns -> Seq(W)]]
    <3>1. CASE Connected(d)
      <4>1. connNo[d] \in 1..MaxConns
        BY <1>0, <3>1 DEF Connected, ConnectedHasWire
      <4> QED
        BY <1>1, <1>11, <3>1, <4>1, CutWireQueues DEF Crash
    <3>2. CASE ~ Connected(d)
      BY <1>1, <1>11, <3>2 DEF Crash
    <3> QED
      BY <3>1, <3>2
  <2>2. /\ outstanding' \in [Devices -> Seq(W)]
        /\ replies' \in [Devices -> Seq(A)]
    BY <1>1, <1>11 DEF Crash
  <2>3. /\ putsToAck' \in [Devices -> Seq(C)]
        /\ mainQueue' \in [Devices -> Seq(C)]
    BY <1>1, <1>11 DEF Crash
  <2> QED
    BY <2>1, <2>2, <2>3
<1>12. ASSUME NEW d \in Devices, NEW c \in 1..MaxConns, Serve(d, c)
       PROVE  Goal
  <2>1. wire[d][c] \in Seq(W) /\ wire[d][c] # <<>>
    BY <1>1, <1>12 DEF Serve
  <2>2. wire' \in [Devices -> [1..MaxConns -> Seq(W)]]
    <3>1. Tail(wire[d][c]) \in Seq(W)
      BY <2>1
    <3>2. wire' = [wire EXCEPT ![d] = [wire[d] EXCEPT ![c] = Tail(wire[d][c])]]
      BY <1>12 DEF Serve
    <3>3. [wire[d] EXCEPT ![c] = Tail(wire[d][c])] \in [1..MaxConns -> Seq(W)]
      BY <1>1, <3>1
    <3> QED
      BY <1>1, <3>2, <3>3
  <2>3. replies' \in [Devices -> Seq(A)]
    <3>0. PICK w \in W : w = Head(wire[d][c])
      BY <2>1
    <3>1. PICK status \in Verdicts(w) :
            /\ status = "ok" => Apply(w)
            /\ replies' = IF c = connNo[d] /\ Connected(d)
                          THEN [replies EXCEPT ![d] =
                                  Append(@, [write |-> w, status |-> status])]
                          ELSE replies
      BY <1>12, <3>0 DEF Serve
    <3>3. status \in Statuses /\ (w.node \notin Refusable => status = "ok")
      BY DEF Verdicts, Statuses
    <3>4. status = "ok" => Applied(w)'
      BY <3>1 DEF Apply, Applied, Entry
    <3>5. [write |-> w, status |-> status] \in A
      BY <3>3, <3>4 DEF A, W, SoundAcks, SoundWrites, Acks
    <3> QED
      BY <1>1, <3>1, <3>5
  <2> QED
    BY <1>1, <1>12, <2>2, <2>3 DEF Serve
<1>13. CASE UNCHANGED <<outstanding, wire, replies, putsToAck, mainQueue>>
  BY <1>1, <1>13
<1>14. CASE UNCHANGED vars
  BY <1>13, <1>14 DEF vars, client
<1> QED
  BY <1>4, <1>5, <1>6, <1>7, <1>8, <1>9, <1>10, <1>11, <1>12, <1>13, <1>14
  DEF Next, SignIn, SignOut, StartRead, EndRead, RevokeListen, client

LEMMA StepFiles ==
  ASSUME IInv, [Next]_vars
  PROVE  Files'
<1>1. Scalars /\ Queues /\ Files /\ Grows
  BY StepGrows DEF IInv
<1>2. stored \subseteq {m \in Messages : Box!Sent(m)'}
  BY <1>1 DEF Files, Grows, Box!Sent
<1>3. \A u, v \in Users, m \in Messages :
         <<u, v, m>> \in userMessages => SoundEntry(u, v, m)'
  BY <1>1, SoundEntryGrows DEF Files
<1>4. ASSUME NEW d \in Devices, NEW c \in 1..MaxConns, Serve(d, c)
      PROVE  Files'
  <2>1. PICK w \in SoundWrites : w = Head(wire[d][c])
    <3>1. wire[d][c] \in Seq(SoundWrites) /\ wire[d][c] # <<>>
      BY <1>1, <1>4 DEF Queues, Serve
    <3> QED
      BY <3>1
  <2>2. Apply(w) \/ UNCHANGED server
    BY <1>4, <2>1 DEF Serve
  <2>3. w \in SoundWrites' /\ w \in Writes
    BY <1>1, SoundGrows DEF SoundWrites
  <2>4. CASE w.node = "messages" /\ Apply(w)
    <3>1. w.msg \in Messages /\ Box!Sent(w.msg)'
      BY <2>3, WriteFields DEF SoundWrites
    <3> QED
      BY <1>1, <1>2, <1>3, <2>4, <3>1 DEF Apply, Files
  <2>5. CASE w.node # "messages" /\ Apply(w)
    <3>1. /\ w.owner \in Users /\ w.partner \in Users /\ w.msg \in Messages
          /\ SoundEntry(w.owner, w.partner, w.msg)'
      BY <2>3, <2>5, WriteFields DEF SoundWrites, Nodes
    <3>2. userMessages' = userMessages \cup {<<w.owner, w.partner, w.msg>>}
          /\ stored' = stored
      BY <2>5 DEF Apply
    <3>3. ASSUME NEW u \in Users, NEW v \in Users, NEW m \in Messages,
                 <<u, v, m>> \in userMessages'
          PROVE  SoundEntry(u, v, m)'
      <4>1. CASE <<u, v, m>> \in userMessages
        BY <1>3, <4>1
      <4>2. CASE u = w.owner /\ v = w.partner /\ m = w.msg
        BY <3>1, <4>2
      <4> QED
        BY <3>2, <3>3, <4>1, <4>2
    <3> QED
      BY <1>1, <1>2, <3>1, <3>2, <3>3 DEF Files
  <2>6. CASE UNCHANGED server
    BY <1>1, <1>2, <1>3, <2>6 DEF Files, server
  <2> QED
    BY <2>2, <2>4, <2>5, <2>6
<1>5. CASE UNCHANGED server
  BY <1>1, <1>2, <1>3, <1>5 DEF Files, server
<1>6. CASE UNCHANGED vars
  BY <1>5, <1>6 DEF vars
<1> QED
  BY <1>4, <1>5, <1>6
  DEF Next, SignIn, SignOut, Send, FanOut, StartRead, EndRead, Connect,
      Authenticated, Disconnect, ReceiveAck, ReceiveListenReply,
      RevokeListen, Crash

\* The invariant holds in every state of the phones' connections and the
\* server, whatever rules refuse.
THEOREM Inductive == Spec => []IInv
<1>1. IInv /\ [Next]_vars => IInv'
  BY StepScalars, StepQueues, StepFiles DEF IInv
<1> QED
  BY <1>1, InitInv, PTL DEF Spec

-----------------------------------------------------------------------------
(* What follows from it.                                                   *)

LEMMA InvType == IInv => TypeOK
<1> SUFFICES ASSUME IInv PROVE TypeOK
  OBVIOUS
<1>1. SoundWrites \subseteq Writes /\ SoundAcks \subseteq Acks /\ SoundCompletions \subseteq Acks
  BY DEF SoundWrites, SoundAcks, SoundCompletions
<1>2. /\ Seq(SoundWrites) \subseteq Seq(Writes)
      /\ Seq(SoundAcks) \subseteq Seq(Acks)
      /\ Seq(SoundCompletions) \subseteq Seq(Acks)
  BY <1>1, SeqMonotonic
<1>3. /\ outstanding \in [Devices -> Seq(Writes)]
      /\ wire \in [Devices -> [1..MaxConns -> Seq(Writes)]]
      /\ replies \in [Devices -> Seq(Acks)]
      /\ putsToAck \in [Devices -> Seq(Acks)]
      /\ mainQueue \in [Devices -> Seq(Acks)]
  BY <1>2 DEF IInv, Queues
<1> QED
  BY <1>3 DEF TypeOK, IInv, Scalars, Files

\* Every variable keeps its type, whatever the schedule.
THEOREM TypeCorrect == Spec => []TypeOK
BY Inductive, InvType, PTL

\* Where the rules accept every message, an index entry never dangles and never
\* sits in a stranger's box, even if they refuse index entries.
THEOREM EntriesSound ==
  ASSUME "messages" \notin Refusable
  PROVE  Spec => []IndexedIsStored
<1>1. IInv => IndexedIsStored
  BY DEF IInv, Files, SoundEntry, IndexedIsStored, Box!IndexedIsStored
<1> QED
  BY <1>1, Inductive, PTL

\* The status handed to send's completion block is never prematurely "ok",
\* whatever the rules refuse.
THEOREM OkSound == Spec => []OkIsStored
<1>1. ASSUME IInv PROVE OkIsStored
  <2>1. ASSUME NEW d \in Devices, NEW a \in ToSet(mainQueue[d]) \cup ToSet(putsToAck[d]),
               a.status = "ok"
        PROVE  a.write.msg \in stored
    <3>1. a \in SoundCompletions
      <4>1. /\ mainQueue[d] \in Seq(SoundCompletions)
            /\ putsToAck[d] \in Seq(SoundCompletions)
        BY <1>1 DEF IInv, Queues
      <4> QED
        BY <4>1 DEF ToSet
    <3> QED
      BY <2>1, <3>1 DEF SoundCompletions, SoundAcks, Applied
  <2> QED
    BY <2>1 DEF OkIsStored
<1> QED
  BY <1>1, Inductive, PTL

-----------------------------------------------------------------------------
(* The order of the two index writes.  On the table and on every wire an    *)
(* index write comes with the author's own write at or before it, unless    *)
(* that one is filed: appending, cutting, resending and answering keep it.  *)

OrderedIn(s, comp, files) ==
  \A j \in DOMAIN s : s[j].node = "user-messages" =>
     LET m == s[j].msg
         p == comp[m]
     IN  \/ <<p.from, p.to, m>> \in files
         \/ \E i \in 1..j : s[i] = IndexWrite(p.from, p.to, m)

Ordered(s) == OrderedIn(s, composed, userMessages)

Order ==
  \A d \in Devices : /\ Ordered(outstanding[d])
                     /\ \A c \in 1..MaxConns : Ordered(wire[d][c])

OInv == IInv /\ Order /\ RecipientAfterSender

LEMMA OrderedConcat ==
  ASSUME NEW S, NEW s \in Seq(S), NEW t \in Seq(S), NEW comp, NEW files,
         OrderedIn(s, comp, files), OrderedIn(t, comp, files)
  PROVE  OrderedIn(s \o t, comp, files)
<1> DEFINE r == s \o t
           First(k) == IndexWrite(comp[r[k].msg].from, comp[r[k].msg].to, r[k].msg)
           Filed(k) == <<comp[r[k].msg].from, comp[r[k].msg].to, r[k].msg>> \in files
<1>1. /\ DOMAIN r = 1..(Len(s) + Len(t))
      /\ \A i \in 1..Len(s) : r[i] = s[i]
      /\ \A i \in 1..Len(t) : r[Len(s) + i] = t[i]
  OBVIOUS
<1> HIDE DEF r
<1>2. ASSUME NEW j \in DOMAIN r, r[j].node = "user-messages"
      PROVE  Filed(j) \/ \E i \in 1..j : r[i] = First(j)
  <2>1. CASE j \in 1..Len(s)
    <3>1. r[j] = s[j] /\ j \in DOMAIN s /\ \A i \in 1..j : r[i] = s[i]
      BY <1>1, <2>1
    <3>2. Filed(j) \/ \E i \in 1..j : s[i] = First(j)
      BY <1>2, <3>1 DEF OrderedIn
    <3> QED
      BY <3>1, <3>2
  <2>2. CASE j \notin 1..Len(s)
    <3>1. PICK k \in 1..Len(t) : j = Len(s) + k
      <4>1. j - Len(s) \in 1..Len(t) /\ j = Len(s) + (j - Len(s))
        BY <1>1, <2>2
      <4> QED
        BY <4>1
    <3>2. r[j] = t[k] /\ k \in DOMAIN t
      BY <1>1, <3>1
    <3>3. Filed(j) \/ \E i \in 1..k : t[i] = First(j)
      BY <1>2, <3>2 DEF OrderedIn
    <3>4. ASSUME NEW i \in 1..k, t[i] = First(j)
          PROVE  Len(s) + i \in 1..j /\ r[Len(s) + i] = First(j)
      BY <1>1, <3>1, <3>4
    <3> QED
      BY <3>3, <3>4
  <2> QED
    BY <2>1, <2>2
<1> QED
  BY <1>2 DEF OrderedIn, r

LEMMA OrderedPrefix ==
  ASSUME NEW S, NEW s \in Seq(S), NEW n \in 0..Len(s), NEW comp, NEW files,
         OrderedIn(s, comp, files)
  PROVE  OrderedIn(SubSeq(s, 1, n), comp, files)
<1> DEFINE r == SubSeq(s, 1, n)
<1>1. DOMAIN r = 1..n /\ \A j \in 1..n : r[j] = s[j]
  BY PrefixType
<1>2. DOMAIN s = 1..Len(s) /\ 1..n \subseteq 1..Len(s)
  OBVIOUS
<1> HIDE DEF r
<1>3. \A j \in 1..n : \A i \in 1..j : r[i] = s[i]
  BY <1>1
<1>4. OrderedIn(r, comp, files)
  BY <1>1, <1>2, <1>3 DEF OrderedIn
<1> QED
  BY <1>4 DEF r

\* Reading the head of a wire keeps the rest ordered once the head is filed.
LEMMA OrderedTail ==
  ASSUME NEW S, NEW s \in Seq(S), s # <<>>, NEW comp, NEW files,
         OrderedIn(s, comp, files),
         s[1].node = "user-messages" => Entry(s[1]) \in files
  PROVE  OrderedIn(Tail(s), comp, files)
<1> DEFINE r == Tail(s)
<1>1. /\ DOMAIN r = 1..(Len(s) - 1)
      /\ \A j \in 1..(Len(s) - 1) : r[j] = s[j + 1]
      /\ DOMAIN s = 1..Len(s)
  OBVIOUS
<1> HIDE DEF r
<1>2. ASSUME NEW j \in DOMAIN r, r[j].node = "user-messages",
             NEW m, m = r[j].msg, <<comp[m].from, comp[m].to, m>> \notin files
      PROVE  \E i \in 1..j : r[i] = IndexWrite(comp[m].from, comp[m].to, m)
  <2>1. j + 1 \in DOMAIN s /\ s[j + 1] = r[j]
    BY <1>1
  <2>2. PICK k \in 1..(j + 1) : s[k] = IndexWrite(comp[m].from, comp[m].to, m)
    BY <1>2, <2>1 DEF OrderedIn
  <2>3. k # 1
    BY <1>2, <2>2 DEF IndexWrite, Entry
  <2>4. k - 1 \in 1..j /\ r[k - 1] = s[k]
    BY <1>1, <2>2, <2>3
  <2> QED
    BY <2>2, <2>4
<1>3. OrderedIn(r, comp, files)
  BY <1>2 DEF OrderedIn
<1> QED
  BY <1>3 DEF r

\* Taking an answered and applied put off the table keeps the table ordered.
LEMMA OrderedWithout ==
  ASSUME NEW S, NEW s \in Seq(S), NEW w, NEW comp, NEW files,
         OrderedIn(s, comp, files),
         w.node = "user-messages" => Entry(w) \in files
  PROVE  OrderedIn(Without(s, w), comp, files)
<1> DEFINE k == CHOOSE i \in DOMAIN s : s[i] = w
           r == RemoveAt(s, k)
<1>1. CASE \E i \in DOMAIN s : s[i] = w
  <2>1. k \in DOMAIN s /\ s[k] = w
    BY <1>1
  <2>2. Without(s, w) = r
    BY <1>1 DEF Without
  <2> HIDE DEF k
  <2>3. /\ DOMAIN r = 1..(Len(s) - 1) /\ DOMAIN s = 1..Len(s) /\ k \in 1..Len(s)
        /\ \A j \in 1..(k - 1) : r[j] = s[j]
        /\ \A j \in k..(Len(s) - 1) : r[j] = s[j + 1]
    BY <2>1, RemoveAtType
  <2> HIDE DEF r
  <2>4. ASSUME NEW j \in DOMAIN r, r[j].node = "user-messages",
               NEW m, m = r[j].msg, <<comp[m].from, comp[m].to, m>> \notin files
        PROVE  \E i \in 1..j : r[i] = IndexWrite(comp[m].from, comp[m].to, m)
    <3> DEFINE First == IndexWrite(comp[m].from, comp[m].to, m)
    <3>1. w # First
      BY <2>4 DEF IndexWrite, Entry
    <3> HIDE DEF First
    <3>2. CASE j < k
      <4>1. j \in DOMAIN s /\ s[j] = r[j]
        BY <2>3, <3>2
      <4>2. PICK i \in 1..j : s[i] = First
        BY <2>4, <4>1 DEF OrderedIn, First
      <4>3. r[i] = s[i]
        BY <2>3, <3>2, <4>2
      <4> QED
        BY <4>2, <4>3 DEF First
    <3>3. CASE j >= k
      <4>1. j + 1 \in DOMAIN s /\ s[j + 1] = r[j]
        BY <2>3, <3>3
      <4>2. PICK i \in 1..(j + 1) : s[i] = First
        BY <2>4, <4>1 DEF OrderedIn, First
      <4>3. i # k
        BY <2>1, <3>1, <4>2
      <4>4. CASE i < k
        <5>1. i \in 1..j /\ r[i] = First
          BY <2>3, <3>3, <4>2, <4>4
        <5> QED
          BY <5>1 DEF First
      <4>5. CASE i > k
        <5>1. i - 1 \in 1..j /\ r[i - 1] = First
          BY <2>3, <3>3, <4>2, <4>5
        <5> QED
          BY <5>1 DEF First
      <4> QED
        BY <2>3, <4>2, <4>3, <4>4, <4>5
    <3> QED
      BY <2>3, <3>2, <3>3
  <2> QED
    BY <2>2, <2>4 DEF OrderedIn
<1>2. CASE ~ \E i \in DOMAIN s : s[i] = w
  BY <1>2 DEF Without
<1> QED
  BY <1>1, <1>2

\* New messages and new entries disturb no order.
LEMMA OrderedGrows ==
  ASSUME Grows, NEW s \in Seq(SoundWrites), Ordered(s)
  PROVE  OrderedIn(s, composed', userMessages')
<1>1. ASSUME NEW j \in DOMAIN s
      PROVE  composed'[s[j].msg] = composed[s[j].msg]
  <2>1. s[j] \in SoundWrites
    OBVIOUS
  <2>2. s[j].msg \in Messages /\ Box!Sent(s[j].msg)
    BY <2>1, WriteFields DEF SoundWrites
  <2> QED
    BY <2>2 DEF Grows
<1> QED
  BY <1>1 DEF Grows, Ordered, OrderedIn

LEMMA PutOrdered ==
  ASSUME NEW comp, NEW files, NEW d \in Devices, NEW S, NEW ws \in Seq(S), Put(d, ws),
         outstanding \in [Devices -> Seq(S)],
         wire \in [Devices -> [1..MaxConns -> Seq(S)]],
         ConnectedHasWire, OrderedIn(ws, comp, files),
         \A e \in Devices : OrderedIn(outstanding[e], comp, files),
         \A e \in Devices, c \in 1..MaxConns : OrderedIn(wire[e][c], comp, files)
  PROVE  /\ \A e \in Devices : OrderedIn(outstanding'[e], comp, files)
         /\ \A e \in Devices, c \in 1..MaxConns : OrderedIn(wire'[e][c], comp, files)
<1>1. OrderedIn(outstanding[d] \o ws, comp, files)
  <2>1. outstanding[d] \in Seq(S) /\ OrderedIn(outstanding[d], comp, files)
    OBVIOUS
  <2> QED
    BY <2>1, OrderedConcat
<1>2. \A e \in Devices : OrderedIn(outstanding'[e], comp, files)
  BY <1>1 DEF Put
<1>3. CASE CanSendWrites(d)
  <2> DEFINE k == connNo[d]
  <2>1. k \in 1..MaxConns
    BY <1>3 DEF ConnectedHasWire, CanSendWrites
  <2>2. wire[d][k] \in Seq(S) /\ OrderedIn(wire[d][k], comp, files)
    BY <2>1
  <2>3. OrderedIn(wire[d][k] \o ws, comp, files)
    BY <2>2, OrderedConcat
  <2>4. wire' = [wire EXCEPT ![d] = [wire[d] EXCEPT ![k] = wire[d][k] \o ws]]
    BY <1>3, <2>1 DEF Put
  <2> HIDE DEF k
  <2> QED
    BY <1>2, <2>3, <2>4
<1>4. CASE ~ CanSendWrites(d)
  BY <1>2, <1>4 DEF Put
<1> QED
  BY <1>3, <1>4

LEMMA CutOrdered ==
  ASSUME NEW comp, NEW files, NEW d \in Devices, NEW S, connNo[d] \in 1..MaxConns,
         wire \in [Devices -> [1..MaxConns -> Seq(S)]],
         NEW n \in 0..Len(wire[d][connNo[d]]), CutWire(d, n),
         \A e \in Devices, c \in 1..MaxConns : OrderedIn(wire[e][c], comp, files)
  PROVE  \A e \in Devices, c \in 1..MaxConns : OrderedIn(wire'[e][c], comp, files)
<1> DEFINE k == connNo[d]
           t == SubSeq(wire[d][k], 1, n)
<1>1. wire[d][k] \in Seq(S) /\ OrderedIn(wire[d][k], comp, files)
  OBVIOUS
<1>2. OrderedIn(t, comp, files)
  BY <1>1, OrderedPrefix
<1>3. wire' = [wire EXCEPT ![d] = [wire[d] EXCEPT ![k] = t]]
  BY DEF CutWire
<1> HIDE DEF t
<1> QED
  BY <1>2, <1>3

LEMMA RestoreOrdered ==
  ASSUME NEW comp, NEW files, NEW d \in Devices, NEW S, NEW k \in 1..MaxConns,
         wire \in [Devices -> [1..MaxConns -> Seq(S)]], RestoreState(d, k),
         OrderedIn(outstanding[d], comp, files),
         \A e \in Devices, c \in 1..MaxConns : OrderedIn(wire[e][c], comp, files)
  PROVE  \A e \in Devices, c \in 1..MaxConns : OrderedIn(wire'[e][c], comp, files)
<1>1. wire' = [wire EXCEPT ![d] = [wire[d] EXCEPT ![k] = outstanding[d]]]
  BY DEF RestoreState
<1> QED
  BY <1>1

\* The head of a wire files nothing before the author's own entry.
LEMMA HeadFiled ==
  ASSUME NEW d \in Devices, NEW c \in 1..MaxConns, Serve(d, c),
         "user-messages" \notin Refusable, IInv
  PROVE  /\ wire[d][c] \in Seq(SoundWrites) /\ wire[d][c] # <<>>
         /\ wire[d][c][1] \in SoundWrites
         /\ wire[d][c][1].node = "user-messages" =>
               /\ userMessages' = userMessages \cup {Entry(wire[d][c][1])}
               /\ stored' = stored
         /\ wire[d][c][1].node # "user-messages" => userMessages' = userMessages
<1>1. wire[d][c] \in Seq(SoundWrites) /\ wire[d][c] # <<>>
  BY DEF IInv, Queues, Serve
<1>2. PICK w \in SoundWrites : w = wire[d][c][1] /\ w = Head(wire[d][c])
  BY <1>1
<1>3. PICK status \in Verdicts(w) : IF status = "ok" THEN Apply(w) ELSE UNCHANGED server
  BY <1>2 DEF Serve
<1>4. w.node = "user-messages" => Apply(w)
  BY <1>3 DEF Verdicts
<1>5. w.node # "user-messages" => userMessages' = userMessages
  <2>1. w.node \in Nodes
    BY WriteFields DEF SoundWrites
  <2> QED
    BY <1>3, <2>1 DEF Apply, server, Nodes
<1> QED
  BY <1>1, <1>2, <1>4, <1>5 DEF Apply, Entry

LEMMA StepOrder ==
  ASSUME OInv, [Next]_vars, "user-messages" \notin Refusable
  PROVE  Order'
<1> DEFINE Ord(s) == OrderedIn(s, composed', userMessages')
<1>0. IInv /\ Scalars /\ Queues /\ ConnectedHasWire /\ Grows
  BY StepGrows DEF OInv, IInv, Scalars
<1>1. /\ outstanding \in [Devices -> Seq(SoundWrites)]
      /\ wire \in [Devices -> [1..MaxConns -> Seq(SoundWrites)]]
      /\ replies \in [Devices -> Seq(SoundAcks)]
      /\ mainQueue \in [Devices -> Seq(SoundCompletions)]
  BY <1>0 DEF Queues
<1>2. \A e \in Devices : Ord(outstanding[e])
  BY <1>0, <1>1, OrderedGrows DEF OInv, Order
<1>3. \A e \in Devices, c \in 1..MaxConns : Ord(wire[e][c])
  BY <1>0, <1>1, OrderedGrows DEF OInv, Order
<1> DEFINE Goal == /\ \A e \in Devices : Ord(outstanding'[e])
                   /\ \A e \in Devices, c \in 1..MaxConns : Ord(wire'[e][c])
<1>4. SUFFICES Goal
  BY DEF Order, Ordered
<1>5. ASSUME NEW d \in Devices, NEW m \in Messages, NEW v \in Users, Send(d, m, v)
      PROVE  Goal
  <2> DEFINE ws == <<MessageWrite(m)>>
             W == Writes
  <2>1. ws \in Seq(W) /\ Ord(ws)
    <3>1. MessageWrite(m) \in W /\ MessageWrite(m).node = "messages"
      BY DEF MessageWrite, Writes, MessageWrites
    <3> QED
      BY <3>1 DEF OrderedIn
  <2>2. /\ outstanding \in [Devices -> Seq(W)]
        /\ wire \in [Devices -> [1..MaxConns -> Seq(W)]]
    BY <1>0, InvType DEF TypeOK
  <2>3. Put(d, ws)
    BY <1>5 DEF Send
  <2> HIDE DEF ws, Ord
  <2> QED
    BY <1>0, <1>2, <1>3, <2>1, <2>2, <2>3, PutOrdered DEF Ord
<1>6. ASSUME NEW d \in Devices, FanOut(d)
      PROVE  Goal
  <2> DEFINE a == Head(mainQueue[d])
             m == a.write.msg
             p == composed[m]
             ws == <<IndexWrite(p.from, p.to, m), IndexWrite(p.to, p.from, m)>>
  <2>1. a \in SoundCompletions
    BY <1>1, <1>6 DEF FanOut
  <2>2. m \in Messages /\ Box!Sent(m) /\ ws \in Seq(SoundWrites)
    BY <1>0, <2>1, FanOutSound
  <2>3. composed'[m] = p
    BY <1>0, <2>2 DEF Grows
  <2>4. Ord(ws)
    <3>1. /\ DOMAIN ws = 1..2
          /\ \A j \in 1..2 : ws[j].msg = m
          /\ ws[1] = IndexWrite(p.from, p.to, m)
      BY DEF IndexWrite
    <3> HIDE DEF ws
    <3> QED
      BY <2>3, <3>1 DEF OrderedIn
  <2>5. Put(d, ws)
    BY <1>6 DEF FanOut
  <2> HIDE DEF ws, Ord
  <2> QED
    BY <1>0, <1>1, <1>2, <1>3, <2>2, <2>4, <2>5, PutOrdered DEF Ord
<1>7. ASSUME NEW d \in Devices, Connect(d)
      PROVE  Goal
  <2>1. connNo[d] + 1 \in 1..MaxConns /\ outstanding' = outstanding
    BY <1>0, <1>7, BoundsAssumption DEF Connect, Scalars
  <2>2. RestoreState(d, connNo[d] + 1) \/ wire' = wire
    BY <1>7 DEF Connect
  <2> HIDE DEF Ord
  <2> QED
    BY <1>1, <1>2, <1>3, <2>1, <2>2, RestoreOrdered DEF Ord
<1>8. ASSUME NEW d \in Devices, Authenticated(d)
      PROVE  Goal
  <2>1. connNo[d] \in 1..MaxConns /\ outstanding' = outstanding
    BY <1>0, <1>8 DEF Authenticated, ConnectedHasWire
  <2>2. RestoreState(d, connNo[d])
    BY <1>8 DEF Authenticated
  <2> HIDE DEF Ord
  <2> QED
    BY <1>1, <1>2, <1>3, <2>1, <2>2, RestoreOrdered DEF Ord
<1>9. ASSUME NEW d \in Devices, Disconnect(d)
      PROVE  Goal
  <2>1. connNo[d] \in 1..MaxConns /\ outstanding' = outstanding
    BY <1>0, <1>9 DEF Disconnect, Connected, ConnectedHasWire
  <2>2. PICK n \in 0..Len(wire[d][connNo[d]]) : CutWire(d, n)
    BY <1>9 DEF Disconnect
  <2> HIDE DEF Ord
  <2> QED
    BY <1>1, <1>2, <1>3, <2>1, <2>2, CutOrdered DEF Ord
<1>10. ASSUME NEW d \in Devices, ReceiveAck(d)
       PROVE  Goal
  <2> DEFINE a == Head(replies[d])
  <2>1. a \in SoundAcks
    BY <1>1, <1>10 DEF ReceiveAck
  <2>2. a.write.node = "user-messages" => Entry(a.write) \in userMessages'
    BY <1>0, <2>1 DEF SoundAcks, Applied, Grows
  <2>3. outstanding[d] \in Seq(SoundWrites) /\ Ord(outstanding[d])
    BY <1>1, <1>2
  <2>4. Ord(Without(outstanding[d], a.write))
    BY <2>2, <2>3, OrderedWithout
  <2>5. /\ outstanding' = [outstanding EXCEPT ![d] = Without(@, a.write)]
        /\ wire' = wire
    BY <1>10 DEF ReceiveAck
  <2> HIDE DEF Ord
  <2> QED
    BY <1>1, <1>2, <1>3, <2>4, <2>5
<1>11. ASSUME NEW d \in Devices, Crash(d)
       PROVE  Goal
  <2>1. \A e \in Devices : Ord(outstanding'[e])
    <3>1. Ord(<<>>)
      BY DEF OrderedIn
    <3>2. outstanding' = [outstanding EXCEPT ![d] = <<>>]
      BY <1>11 DEF Crash
    <3> HIDE DEF Ord
    <3> QED
      BY <1>1, <1>2, <3>1, <3>2
  <2>2. \A e \in Devices, c \in 1..MaxConns : Ord(wire'[e][c])
    <3>1. CASE Connected(d)
      <4>1. connNo[d] \in 1..MaxConns
        BY <1>0, <3>1 DEF Connected, ConnectedHasWire
      <4>2. PICK n \in 0..Len(wire[d][connNo[d]]) : CutWire(d, n)
        BY <1>11, <3>1 DEF Crash
      <4> HIDE DEF Ord
      <4> QED
        BY <1>1, <1>3, <4>1, <4>2, CutOrdered DEF Ord
    <3>2. CASE ~ Connected(d)
      BY <1>3, <1>11, <3>2 DEF Crash
    <3> QED
      BY <3>1, <3>2
  <2> QED
    BY <2>1, <2>2
<1>12. ASSUME NEW d \in Devices, NEW c \in 1..MaxConns, Serve(d, c)
       PROVE  Goal
  <2>1. /\ wire[d][c] \in Seq(SoundWrites) /\ wire[d][c] # <<>>
        /\ wire[d][c][1].node = "user-messages" => Entry(wire[d][c][1]) \in userMessages'
    BY <1>0, <1>12, HeadFiled
  <2>2. Ord(Tail(wire[d][c]))
    BY <1>3, <2>1, OrderedTail
  <2>3. /\ wire' = [wire EXCEPT ![d] = [wire[d] EXCEPT ![c] = Tail(wire[d][c])]]
        /\ outstanding' = outstanding
    BY <1>12 DEF Serve
  <2> HIDE DEF Ord
  <2> QED
    BY <1>1, <1>2, <1>3, <2>2, <2>3
<1>13. CASE UNCHANGED <<outstanding, wire>>
  BY <1>2, <1>3, <1>13
<1>14. CASE UNCHANGED vars
  BY <1>13, <1>14 DEF vars, client
<1> QED
  BY <1>5, <1>6, <1>7, <1>8, <1>9, <1>10, <1>11, <1>12, <1>13, <1>14
  DEF Next, SignIn, SignOut, StartRead, EndRead, ReceiveListenReply,
      RevokeListen, client

LEMMA StepRecipient ==
  ASSUME OInv, [Next]_vars, "user-messages" \notin Refusable
  PROVE  RecipientAfterSender'
<1>0. IInv /\ Files /\ Grows /\ RecipientAfterSender /\ Order
  BY StepGrows DEF OInv, IInv
<1> USE DEF RecipientAfterSender, Box!RecipientAfterSender
<1>1. ASSUME NEW m \in Messages, Box!Sent(m)',
             <<composed'[m].to, composed'[m].from, m>> \in userMessages
      PROVE  <<composed'[m].from, composed'[m].to, m>> \in userMessages
  <2>1. \E u, v \in Users : <<u, v, m>> \in userMessages
    BY <1>0, <1>1 DEF Files
  <2>2. Box!Sent(m)
    BY <1>0, <2>1 DEF Files, SoundEntry
  <2>3. composed'[m] = composed[m]
    BY <1>0, <2>2 DEF Grows
  <2> QED
    BY <1>0, <1>1, <2>2, <2>3 DEF Box!SenderEntry, Box!RecipientEntry
<1>2. CASE userMessages' = userMessages
  BY <1>1, <1>2 DEF Box!SenderEntry, Box!RecipientEntry
<1>3. ASSUME NEW d \in Devices, NEW c \in 1..MaxConns, Serve(d, c)
      PROVE  RecipientAfterSender'
  <2> DEFINE w == wire[d][c][1]
  <2>1. /\ wire[d][c] \in Seq(SoundWrites) /\ wire[d][c] # <<>>
        /\ w \in SoundWrites
        /\ w.node = "user-messages" => userMessages' = userMessages \cup {Entry(w)}
        /\ w.node # "user-messages" => userMessages' = userMessages
    BY <1>0, <1>3, HeadFiled
  <2>2. CASE w.node = "user-messages"
    <3> DEFINE k == w.msg
               First == <<composed[k].from, composed[k].to, k>>
    <3>1. k \in Messages /\ Box!Sent(k) /\ composed'[k] = composed[k]
      BY <1>0, <2>1, WriteFields DEF SoundWrites, Grows
    <3>2. First \in userMessages'
      <4>1. 1 \in DOMAIN wire[d][c] /\ Ordered(wire[d][c])
        BY <1>0, <2>1 DEF Order
      <4>2. \/ First \in userMessages
            \/ \E i \in 1..1 : wire[d][c][i]
                                 = IndexWrite(composed[k].from, composed[k].to, k)
        BY <2>2, <4>1 DEF Ordered, OrderedIn
      <4>3. First \in userMessages
            \/ w = IndexWrite(composed[k].from, composed[k].to, k)
        BY <4>2
      <4>4. w = IndexWrite(composed[k].from, composed[k].to, k) => Entry(w) = First
        BY DEF IndexWrite, Entry
      <4> QED
        BY <2>1, <2>2, <4>3, <4>4
    <3>3. ASSUME NEW m \in Messages, Box!Sent(m)',
                 <<composed'[m].to, composed'[m].from, m>> \in userMessages'
          PROVE  <<composed'[m].from, composed'[m].to, m>> \in userMessages'
      <4>1. CASE <<composed'[m].to, composed'[m].from, m>> \in userMessages
        BY <1>1, <2>1, <2>2, <3>3, <4>1
      <4>2. CASE m = k
        BY <3>1, <3>2, <4>2
      <4>3. <<composed'[m].to, composed'[m].from, m>> \in userMessages \/ m = k
        BY <2>1, <2>2, <3>3 DEF Entry
      <4> QED
        BY <4>1, <4>2, <4>3
    <3> QED
      BY <3>3 DEF Box!SenderEntry, Box!RecipientEntry
  <2>3. CASE w.node # "user-messages"
    BY <1>2, <2>1, <2>3
  <2> QED
    BY <2>2, <2>3
<1>4. CASE UNCHANGED server
  BY <1>2, <1>4 DEF server
<1>5. CASE UNCHANGED vars
  BY <1>4, <1>5 DEF vars
<1> QED
  BY <1>3, <1>4, <1>5
  DEF Next, SignIn, SignOut, Send, FanOut, StartRead, EndRead, Connect,
      Authenticated, Disconnect, ReceiveAck, ReceiveListenReply,
      RevokeListen, Crash

LEMMA InitOrder == Init => Order /\ RecipientAfterSender
<1> SUFFICES ASSUME Init PROVE Order /\ RecipientAfterSender
  OBVIOUS
<1>1. Ordered(<<>>)
  BY DEF Ordered, OrderedIn
<1>2. Order
  BY <1>1 DEF Init, Order
<1>3. RecipientAfterSender
  BY DEF Init, Box!Init, RecipientAfterSender, Box!RecipientAfterSender
<1> QED
  BY <1>2, <1>3

\* Where the rules accept index entries, every table of puts and every wire also
\* keeps the author's entry of a message ahead of the recipient's.
THEOREM InductiveOrder ==
  ASSUME "user-messages" \notin Refusable
  PROVE  Spec => []OInv
<1>1. Init => OInv
  BY InitInv, InitOrder DEF OInv
<1>2. OInv /\ [Next]_vars => OInv'
  BY StepScalars, StepQueues, StepFiles, StepOrder, StepRecipient DEF OInv, IInv
<1> QED
  BY <1>1, <1>2, PTL DEF Spec

\* Where the rules accept every index entry, a recipient's box never shows a
\* message its author's box lacks, through every drop, resend and crash.
THEOREM AuthorFirst ==
  ASSUME "user-messages" \notin Refusable
  PROVE  Spec => []RecipientAfterSender
<1>1. OInv => RecipientAfterSender
  BY DEF OInv
<1> QED
  BY <1>1, InductiveOrder, PTL

-----------------------------------------------------------------------------
(* Refinement: under rules that refuse nothing, every step maps to a step   *)
(* of Mailbox or leaves the database alone.                                 *)

LEMMA StepRefines ==
  ASSUME OInv, [Next]_vars, Refusable = {}
  PROVE  [Box!Next]_(Box!vars)
<1>0. IInv /\ Scalars /\ Files /\ Order
  BY DEF OInv, IInv
<1>1. ASSUME NEW d \in Devices, NEW m \in Messages, NEW v \in Users, Send(d, m, v)
      PROVE  Box!Next
  <2>1. session[d] \in Users
    BY <1>0, <1>1 DEF Send, HomeShown, Scalars
  <2>2. Box!Compose(m, session[d], v)
    BY <1>1 DEF Send, Box!Compose, server
  <2> QED
    BY <2>1, <2>2 DEF Box!Next
<1>2. ASSUME NEW d \in Devices, NEW c \in 1..MaxConns, Serve(d, c)
      PROVE  Box!Next
  <2>1. wire[d][c] \in Seq(SoundWrites) /\ wire[d][c] # <<>>
    BY <1>0, <1>2 DEF IInv, Queues, Serve
  <2>2. PICK w \in SoundWrites : w = wire[d][c][1] /\ w = Head(wire[d][c])
    BY <2>1
  <2>3. Apply(w) /\ composed' = composed
    BY <1>2, <2>2 DEF Serve, Verdicts
  <2>4. w \in Writes /\ w.msg \in Messages /\ Box!Sent(w.msg) /\ w.node \in Nodes
    BY WriteFields DEF SoundWrites
  <2> DEFINE m == w.msg
  <2>5. CASE w.node = "messages"
    <3>1. Box!Store(m)
      BY <2>3, <2>4, <2>5 DEF Apply, Box!Store
    <3> QED
      BY <2>4, <3>1 DEF Box!Next
  <2>6. CASE w.node = "user-messages"
    <3>1. userMessages' = userMessages \cup {Entry(w)} /\ stored' = stored
      BY <2>3, <2>6 DEF Apply, Entry
    <3>2. /\ Entry(w) \in {Box!SenderEntry(m), Box!RecipientEntry(m)}
          /\ m \in stored
      BY <2>6 DEF SoundWrites, SoundEntry, Entry
    <3>3. Box!SenderEntry(m) \in userMessages \/ Entry(w) = Box!SenderEntry(m)
      <4>1. 1 \in DOMAIN wire[d][c] /\ Ordered(wire[d][c])
        BY <1>0, <2>1 DEF Order
      <4>2. \/ Box!SenderEntry(m) \in userMessages
            \/ \E i \in 1..1 : wire[d][c][i]
                                 = IndexWrite(composed[m].from, composed[m].to, m)
        BY <2>2, <2>6, <4>1 DEF Ordered, OrderedIn, Box!SenderEntry
      <4>3. w = IndexWrite(composed[m].from, composed[m].to, m)
              => Entry(w) = Box!SenderEntry(m)
        BY DEF IndexWrite, Entry, Box!SenderEntry
      <4> QED
        BY <2>2, <4>2, <4>3
    <3>4. CASE Entry(w) = Box!SenderEntry(m)
      <4>1. Box!FileForSender(m)
        BY <2>3, <2>4, <3>1, <3>2, <3>4 DEF Box!FileForSender
      <4> QED
        BY <2>4, <4>1 DEF Box!Next
    <3>5. CASE Entry(w) # Box!SenderEntry(m)
      <4>1. Box!FileForRecipient(m)
        BY <2>3, <2>4, <3>1, <3>2, <3>3, <3>5 DEF Box!FileForRecipient
      <4> QED
        BY <2>4, <4>1 DEF Box!Next
    <3> QED
      BY <3>4, <3>5
  <2> QED
    BY <2>4, <2>5, <2>6 DEF Nodes
<1>3. CASE UNCHANGED <<composed, server>>
  BY <1>3 DEF Box!vars, server
<1>4. CASE UNCHANGED vars
  BY <1>3, <1>4 DEF vars
<1> QED
  BY <1>1, <1>2, <1>3, <1>4
  DEF Next, SignIn, SignOut, FanOut, StartRead, EndRead, Connect, Authenticated,
      Disconnect, ReceiveAck, ReceiveListenReply,
      RevokeListen, Crash

\* Whatever phones, connections and processes do, the database moves only as
\* Mailbox promises (rules that refuse nothing).
THEOREM Refinement ==
  ASSUME Refusable = {}
  PROVE  Spec => BoxSpec
<1>1. Init => Box!Init
  BY DEF Init
<1>2. Spec => []OInv
  BY InductiveOrder
<1>3. OInv /\ [Next]_vars => [Box!Next]_(Box!vars)
  BY StepRefines
<1> QED
  BY <1>1, <1>2, <1>3, PTL DEF Spec, BoxSpec, Box!Spec

-----------------------------------------------------------------------------
(* Completions held back have an answer to wait for.                        *)

\* As long as a query is in listens, a completion is held back on a connection
\* only while some answer is due.
HeldWhileListened ==
  \A d \in Devices :
     conn[d] = "connected" /\ putsToAck[d] # <<>> /\ Listens(d) > 0 => unacked[d] > 0

\* A user whose recents are in listens makes the listens positive.
LEMMA ListensPositive ==
  ASSUME Scalars, NEW d \in Devices, listened[d] # {}
  PROVE  Listens(d) \in Nat /\ Listens(d) > 0
<1>1. IsFiniteSet(listened[d])
  BY FS_Subset, UsersAssumption DEF Scalars
<1>2. Cardinality(listened[d]) \in Nat /\ Cardinality(listened[d]) # 0
  BY <1>1, FS_CardinalityType, FS_EmptySet
<1> QED
  BY <1>2 DEF Listens, Scalars

\* RestoreState waits for every listen there is.
LEMMA RestoreHeld ==
  ASSUME Scalars, HeldWhileListened, NEW d \in Devices, NEW c, RestoreState(d, c),
         UNCHANGED <<putsToAck, reading, listened>>,
         \A e \in Devices : e # d => conn'[e] = conn[e]
  PROVE  HeldWhileListened'
<1>1. \A e \in Devices : /\ e # d => unacked'[e] = unacked[e]
                         /\ e = d => unacked'[e] = unacked[e] + Listens(e)
  BY DEF RestoreState, Scalars
<1>2. unacked[d] \in Nat /\ Listens(d) \in Nat
  BY ListensType DEF Scalars
<1>3. \A e \in Devices : Listens(e)' = Listens(e)
  BY DEF Listens
<1> QED
  BY <1>1, <1>2, <1>3 DEF HeldWhileListened

LEMMA StepHeld ==
  ASSUME Scalars, Queues, HeldWhileListened, [Next]_vars
  PROVE  HeldWhileListened'
<1> USE DEF HeldWhileListened
<1>1. ASSUME NEW d \in Devices, NEW u \in Users, SignIn(d, u)
      PROVE  HeldWhileListened'
  <2>1. UNCHANGED <<conn, putsToAck, reading>>
    BY <1>1 DEF SignIn
  <2>2. \A e \in Devices : e # d => listened'[e] = listened[e] /\ unacked'[e] = unacked[e]
    BY <1>1 DEF SignIn, Listen, Scalars
  <2>3. CASE u \in listened[d]
    <3>1. listened'[d] = listened[d] /\ unacked' = unacked
      BY <1>1, <2>3 DEF SignIn, Scalars
    <3> QED
      BY <2>1, <2>2, <3>1 DEF Listens
  <2>4. CASE u \notin listened[d]
    <3>1. conn[d] = "connected" => unacked'[d] > 0
      BY <1>1, <2>4 DEF SignIn, Listen, Connected, Scalars
    <3> QED
      BY <2>1, <2>2, <3>1 DEF Listens
  <2> QED
    BY <2>3, <2>4
<1>2. ASSUME NEW d \in Devices, StartRead(d)
      PROVE  HeldWhileListened'
  <2>1. UNCHANGED <<conn, putsToAck, listened>>
    BY <1>2 DEF StartRead
  <2>2. \A e \in Devices : e # d => reading'[e] = reading[e] /\ unacked'[e] = unacked[e]
    BY <1>2 DEF StartRead, Listen, Scalars
  <2>3. conn[d] = "connected" => unacked'[d] > 0
    BY <1>2 DEF StartRead, Listen, Connected, Scalars
  <2> QED
    BY <2>1, <2>2, <2>3 DEF Listens
<1>3. ASSUME NEW d \in Devices, EndRead(d)
      PROVE  HeldWhileListened'
  <2>1. UNCHANGED <<conn, putsToAck, listened, unacked>>
    BY <1>3 DEF EndRead
  <2>2. \A e \in Devices : e # d => reading'[e] = reading[e]
    BY <1>3 DEF EndRead, Scalars
  <2>3. reading[d] > 0 /\ reading[d] \in Nat /\ Listens(d) \in Nat
    BY <1>3, ListensType DEF EndRead, Scalars
  <2>4. Listens(d) > 0
    <3>1. Cardinality(listened[d]) \in Nat
      BY FS_Subset, FS_CardinalityType, UsersAssumption DEF Scalars
    <3> QED
      BY <2>3, <3>1 DEF Listens
  <2> QED
    BY <2>1, <2>2, <2>4 DEF Listens
<1>4. ASSUME NEW d \in Devices, Connect(d)
      PROVE  HeldWhileListened'
  <2>1. CASE session[d] = NoUser
    BY <1>4, <2>1, RestoreHeld DEF Connect, Scalars
  <2>2. CASE session[d] # NoUser
    BY <1>4, <2>2 DEF Connect, Scalars, Listens
  <2> QED
    BY <2>1, <2>2
<1>5. ASSUME NEW d \in Devices, Authenticated(d)
      PROVE  HeldWhileListened'
  BY <1>5, RestoreHeld DEF Authenticated, Scalars
<1>6. ASSUME NEW d \in Devices, Disconnect(d)
      PROVE  HeldWhileListened'
  BY <1>6 DEF Disconnect, Scalars, Listens
<1>7. ASSUME NEW d \in Devices, ReceiveAck(d)
      PROVE  HeldWhileListened'
  <2>1. /\ UNCHANGED <<unacked, reading, listened, conn>>
        /\ \A e \in Devices : e # d => putsToAck'[e] = putsToAck[e]
        /\ unacked[d] = 0 => putsToAck' = putsToAck
    BY <1>7 DEF ReceiveAck, Queues
  <2>2. unacked[d] \in Nat
    BY DEF Scalars
  <2> QED
    BY <2>1, <2>2 DEF Listens
<1>8. ASSUME NEW d \in Devices, ReceiveListenReply(d)
      PROVE  HeldWhileListened'
  <2>1. /\ UNCHANGED <<reading, conn>>
        /\ unacked'[d] = unacked[d] - 1 /\ unacked[d] \in Nat /\ unacked[d] > 0
        /\ \A e \in Devices : e # d => unacked'[e] = unacked[e]
    BY <1>8 DEF ReceiveListenReply, Scalars
  <2>2. /\ unacked[d] = 1 => putsToAck'[d] = <<>>
        /\ \A e \in Devices : e # d => putsToAck'[e] = putsToAck[e]
    BY <1>8 DEF ReceiveListenReply, Queues
  <2>3. \A e \in Devices : e # d => listened'[e] = listened[e]
    BY <1>8 DEF ReceiveListenReply, Unlisten, Scalars
  <2> QED
    BY <2>1, <2>2, <2>3 DEF Listens
<1>9. ASSUME NEW d \in Devices, RevokeListen(d)
      PROVE  HeldWhileListened'
  <2>1. UNCHANGED <<conn, putsToAck, reading, unacked>>
    BY <1>9 DEF RevokeListen
  <2>2. \A e \in Devices : e # d => listened'[e] = listened[e]
    BY <1>9 DEF RevokeListen, Unlisten, Scalars
  <2>3. Listens(d) > 0
    BY <1>9, ListensPositive DEF RevokeListen, Unlisten
  <2> QED
    BY <2>1, <2>2, <2>3 DEF Listens
<1>10. ASSUME NEW d \in Devices, Crash(d)
       PROVE  HeldWhileListened'
  <2>1. \A e \in Devices :
          /\ e = d => putsToAck'[e] = <<>>
          /\ e # d => /\ unacked'[e] = unacked[e] /\ reading'[e] = reading[e]
                      /\ putsToAck'[e] = putsToAck[e] /\ listened'[e] = listened[e]
                      /\ conn'[e] = conn[e]
    BY <1>10 DEF Crash, Scalars, Queues
  <2> QED
    BY <2>1 DEF Listens
<1>11. CASE UNCHANGED <<unacked, reading, putsToAck, listened, conn>>
  BY <1>11 DEF Listens
<1>12. CASE UNCHANGED vars
  BY <1>11, <1>12 DEF vars, client
<1> QED
  BY <1>1, <1>2, <1>3, <1>4, <1>5, <1>6, <1>7, <1>8, <1>9, <1>10, <1>11, <1>12
  DEF Next, SignOut, Send, FanOut, Serve, client

\* What can hold a completion back, or is held back, needs a home that observes.
HeldObserved ==
  \A d \in Devices :
     /\ listened[d] \subseteq observed[d]
     /\ unacked[d] > 0 \/ reading[d] > 0 \/ putsToAck[d] # <<>> => observed[d] # {}

LEMMA StepObserved ==
  ASSUME Scalars, Queues, HeldObserved, [Next]_vars
  PROVE  HeldObserved'
<1> USE DEF HeldObserved
<1>1. ASSUME NEW d \in Devices, NEW u \in Users, SignIn(d, u)
      PROVE  HeldObserved'
  <2>1. /\ UNCHANGED <<reading, putsToAck>>
        /\ \A e \in Devices :
              /\ listened'[e] \subseteq observed'[e] /\ observed[e] \subseteq observed'[e]
              /\ e = d => u \in observed'[e]
              /\ e # d => unacked'[e] = unacked[e]
    BY <1>1 DEF SignIn, Listen, Scalars
  <2> QED
    BY <2>1
<1>2. ASSUME NEW d \in Devices, StartRead(d)
      PROVE  HeldObserved'
  <2>1. observed[d] # {} /\ UNCHANGED <<observed, listened, putsToAck>>
    BY <1>2 DEF StartRead, HomeShown
  <2>2. \A e \in Devices :
          e # d => unacked'[e] = unacked[e] /\ reading'[e] = reading[e]
    BY <1>2 DEF StartRead, Listen, Scalars
  <2> QED
    BY <2>1, <2>2
<1>3. ASSUME NEW d \in Devices, EndRead(d)
      PROVE  HeldObserved'
  <2>1. \A e \in Devices : reading'[e] > 0 => reading[e] > 0
    BY <1>3 DEF EndRead, Scalars
  <2> QED
    BY <1>3, <2>1 DEF EndRead
<1>4. ASSUME NEW d \in Devices, NEW c, RestoreState(d, c),
             UNCHANGED <<observed, listened, reading, putsToAck>>
      PROVE  HeldObserved'
  <2>1. \A e \in Devices : /\ e # d => unacked'[e] = unacked[e]
                           /\ e = d => unacked'[e] = unacked[e] + Listens(e)
    BY <1>4 DEF RestoreState, Scalars
  <2>2. observed[d] = {} => unacked'[d] = 0
    <3>1. Cardinality({}) = 0
      BY FS_EmptySet
    <3>2. reading[d] \in Nat /\ unacked[d] \in Nat
      BY DEF Scalars
    <3>3. observed[d] = {} => listened[d] = {} /\ ~ (reading[d] > 0) /\ ~ (unacked[d] > 0)
      OBVIOUS
    <3>4. observed[d] = {} => listened[d] = {} /\ reading[d] = 0 /\ unacked[d] = 0
      BY <3>2, <3>3
    <3>5. unacked'[d] = unacked[d] + Listens(d)
      BY <2>1
    <3> HIDE DEF HeldObserved
    <3> QED
      BY <3>1, <3>4, <3>5 DEF Listens
  <2> QED
    BY <1>4, <2>1, <2>2
<1>5. ASSUME NEW d \in Devices, Connect(d) \/ Authenticated(d)
      PROVE  HeldObserved'
  <2>1. UNCHANGED <<observed, listened, reading, putsToAck>>
    BY <1>5 DEF Connect, Authenticated
  <2>2. (\E c : RestoreState(d, c)) \/ unacked' = unacked
    BY <1>5 DEF Connect, Authenticated
  <2> QED
    BY <1>4, <2>1, <2>2
<1>6. ASSUME NEW d \in Devices, Disconnect(d)
      PROVE  HeldObserved'
  BY <1>6 DEF Disconnect, Scalars
<1>7. ASSUME NEW d \in Devices, ReceiveAck(d)
      PROVE  HeldObserved'
  <2>1. /\ UNCHANGED <<unacked, reading, observed, listened>>
        /\ \A e \in Devices : e # d => putsToAck'[e] = putsToAck[e]
        /\ unacked[d] = 0 => putsToAck' = putsToAck
    BY <1>7 DEF ReceiveAck, Queues
  <2>2. unacked[d] \in Nat
    BY DEF Scalars
  <2> QED
    BY <2>1, <2>2
<1>8. ASSUME NEW d \in Devices, ReceiveListenReply(d)
      PROVE  HeldObserved'
  <2>1. /\ UNCHANGED <<reading, observed>>
        /\ \A e \in Devices : listened'[e] \subseteq listened[e]
    BY <1>8 DEF ReceiveListenReply, Unlisten, Scalars
  <2>2. \A e \in Devices : /\ unacked'[e] > 0 => unacked[e] > 0
                           /\ putsToAck'[e] # <<>> => putsToAck[e] # <<>>
    BY <1>8 DEF ReceiveListenReply, Scalars, Queues
  <2> QED
    BY <2>1, <2>2
<1>9. ASSUME NEW d \in Devices, Crash(d)
      PROVE  HeldObserved'
  <2>1. \A e \in Devices :
          /\ e = d => /\ unacked'[e] = 0 /\ reading'[e] = 0 /\ putsToAck'[e] = <<>>
                      /\ listened'[e] = {}
          /\ e # d => /\ unacked'[e] = unacked[e] /\ reading'[e] = reading[e]
                      /\ putsToAck'[e] = putsToAck[e] /\ listened'[e] = listened[e]
                      /\ observed'[e] = observed[e]
    BY <1>9 DEF Crash, Scalars, Queues
  <2> QED
    BY <2>1
<1>10. CASE UNCHANGED <<unacked, reading, putsToAck, observed, listened>>
  BY <1>10
<1>11. ASSUME NEW d \in Devices, RevokeListen(d)
       PROVE  HeldObserved'
  <2>1. /\ UNCHANGED <<unacked, reading, putsToAck, observed>>
        /\ \A e \in Devices : listened'[e] \subseteq listened[e]
    BY <1>11 DEF RevokeListen, Unlisten, Scalars
  <2> QED
    BY <2>1
<1>12. CASE UNCHANGED vars
  BY <1>10, <1>12 DEF vars, client
<1> QED
  BY <1>1, <1>2, <1>3, <1>5, <1>6, <1>7, <1>8, <1>9, <1>10, <1>11, <1>12
  DEF Next, SignOut, Send, FanOut, Serve, client

HeldIInv == IInv /\ HeldWhileListened /\ HeldObserved

LEMMA InductiveHeld == Spec => []HeldIInv
<1>1. Init => HeldWhileListened /\ HeldObserved
  BY DEF Init, HeldWhileListened, HeldObserved
<1>2. IInv /\ HeldWhileListened /\ HeldObserved /\ [Next]_vars
        => HeldWhileListened' /\ HeldObserved'
  BY StepHeld, StepObserved DEF IInv
<1>3. IInv /\ HeldWhileListened /\ HeldObserved => HeldIInv
  BY DEF HeldIInv
<1> QED
  BY <1>1, <1>2, <1>3, Inductive, PTL DEF Spec

\* A completion that onDisconnect leaves behind is never stuck on a connection
\* that waits for nothing, whatever drops, crashes and changes of account: some
\* observer the app never removed is listened for again, and its answer releases
\* it.  Only rules that refuse or revoke every listen of the process (the answer's
\* status, or onListenRevoked, removes it) leave nothing to wait for.
THEOREM HeldReleasable == Spec => []HeldHasListen
<1>1. ASSUME HeldIInv
      PROVE  HeldHasListen
  <2>1. SUFFICES ASSUME NEW d \in Devices, conn[d] = "connected", putsToAck[d] # <<>>
                 PROVE  unacked[d] > 0 \/ AllRefused(d)
    BY DEF HeldHasListen
  <2>2. observed[d] # {}
    BY <1>1, <2>1 DEF HeldIInv, HeldObserved
  <2>3. Listens(d) > 0 => unacked[d] > 0
    BY <1>1, <2>1 DEF HeldIInv, HeldWhileListened
  <2>4. Listens(d) \in Nat
    BY <1>1, ListensType DEF HeldIInv, IInv
  <2> QED
    BY <2>2, <2>3, <2>4 DEF AllRefused
<1> QED
  BY <1>1, InductiveHeld, PTL

\* Rules that neither refuse nor revoke a listen never bring a process there.
LEMMA NoneRefused ==
  ASSUME ~ ListensRefusable
  PROVE  Spec => [](\A d \in Devices : ~ AllRefused(d))
<1> DEFINE Same == listened = observed
<1>1. Init => Same
  BY DEF Init
<1>2. ASSUME Scalars, Same, [Next]_vars
      PROVE  Same'
  <2>1. ASSUME NEW d \in Devices, NEW u \in Users, SignIn(d, u)
        PROVE  Same'
    BY <1>2, <2>1 DEF SignIn
  <2>2. ASSUME NEW d \in Devices, Crash(d)
        PROVE  Same'
    BY <1>2, <2>2 DEF Crash
  <2>3. CASE UNCHANGED <<listened, observed>>
    BY <1>2, <2>3
  <2>4. CASE UNCHANGED vars
    BY <2>3, <2>4 DEF vars, client
  <2> HIDE DEF Same
  <2> QED
    BY <1>2, <2>1, <2>2, <2>3, <2>4
    DEF Next, SignOut, Send, FanOut, StartRead, EndRead, Connect, Authenticated,
        Disconnect, ReceiveAck, ReceiveListenReply, RevokeListen, Unlisten, Serve,
        client
<1>3. Scalars /\ Same => \A d \in Devices : ~ AllRefused(d)
  BY ListensPositive DEF AllRefused
<1>4. IInv => Scalars
  BY DEF IInv
<1> HIDE DEF Same
<1> QED
  BY <1>1, <1>2, <1>3, <1>4, Inductive, PTL DEF Spec

\* Under rules that neither refuse nor revoke a listen, a completion held back on
\* a connection that is up always has an answer to wait for.
THEOREM HeldAwaitsAnswer ==
  ASSUME ~ ListensRefusable
  PROVE  Spec => [](\A d \in Devices :
                       conn[d] = "connected" /\ putsToAck[d] # <<>> => unacked[d] > 0)
<1>1. HeldHasListen /\ (\A d \in Devices : ~ AllRefused(d))
        => \A d \in Devices :
              conn[d] = "connected" /\ putsToAck[d] # <<>> => unacked[d] > 0
  BY DEF HeldHasListen
<1> QED
  BY <1>1, HeldReleasable, NoneRefused, PTL

-----------------------------------------------------------------------------
(* While no process dies a message is never forgotten, and however often its *)
(* write is resent and answered its index entries are written by one fan-out *)
(* only.                                                                     *)


(* Sequences of writes, and which of the messages' own writes they hold.   *)

WritesOf(acks) == [i \in DOMAIN acks |-> acks[i].write]

\* No message's own write occurs twice.
MessageOnce(s) ==
  \A i, j \in DOMAIN s : s[i] = s[j] /\ s[i].node = "messages" => i = j

LEMMA InToSet ==
  ASSUME NEW S, NEW s \in Seq(S), NEW i \in DOMAIN s
  PROVE  s[i] \in ToSet(s)
BY DEF ToSet

LEMMA ToSetConcat ==
  ASSUME NEW S, NEW s \in Seq(S), NEW t \in Seq(S)
  PROVE  ToSet(s \o t) = ToSet(s) \cup ToSet(t)
<1> DEFINE r == s \o t
<1>1. /\ DOMAIN r = 1..(Len(s) + Len(t))
      /\ \A i \in 1..Len(s) : r[i] = s[i]
      /\ \A i \in 1..Len(t) : r[Len(s) + i] = t[i]
      /\ Len(s) \in Nat /\ Len(t) \in Nat /\ DOMAIN s = 1..Len(s) /\ DOMAIN t = 1..Len(t)
  OBVIOUS
<1> HIDE DEF r
<1>2. ASSUME NEW x \in ToSet(r)
      PROVE  x \in ToSet(s) \cup ToSet(t)
  <2>1. PICK k \in DOMAIN r : x = r[k]
    BY DEF ToSet
  <2>2. CASE k \in 1..Len(s)
    BY <1>1, <2>1, <2>2 DEF ToSet
  <2>3. CASE k \notin 1..Len(s)
    <3>1. k - Len(s) \in 1..Len(t) /\ k = Len(s) + (k - Len(s))
      BY <1>1, <2>1, <2>3
    <3>2. x = t[k - Len(s)]
      BY <1>1, <2>1, <3>1
    <3> QED
      BY <1>1, <3>1, <3>2 DEF ToSet
  <2> QED
    BY <2>2, <2>3
<1>3. ASSUME NEW x \in ToSet(s)
      PROVE  x \in ToSet(r)
  <2>1. PICK k \in 1..Len(s) : x = s[k]
    BY <1>1 DEF ToSet
  <2>2. k \in DOMAIN r /\ r[k] = x
    BY <1>1, <2>1
  <2> QED
    BY <2>2 DEF ToSet
<1>4. ASSUME NEW x \in ToSet(t)
      PROVE  x \in ToSet(r)
  <2>1. PICK k \in 1..Len(t) : x = t[k]
    BY <1>1 DEF ToSet
  <2>2. Len(s) + k \in DOMAIN r /\ r[Len(s) + k] = x
    BY <1>1, <2>1
  <2> QED
    BY <2>2 DEF ToSet
<1> QED
  BY <1>2, <1>3, <1>4 DEF r

LEMMA ToSetTail ==
  ASSUME NEW S, NEW s \in Seq(S), s # <<>>
  PROVE  /\ Head(s) \in ToSet(s)
         /\ ToSet(Tail(s)) \subseteq ToSet(s)
         /\ ToSet(s) \subseteq {Head(s)} \cup ToSet(Tail(s))
<1>1. /\ Tail(s) \in Seq(S) /\ Len(Tail(s)) = Len(s) - 1 /\ Len(s) \in Nat \ {0}
      /\ \A i \in 1..(Len(s) - 1) : Tail(s)[i] = s[i + 1]
      /\ Head(s) = s[1] /\ DOMAIN s = 1..Len(s) /\ DOMAIN Tail(s) = 1..(Len(s) - 1)
  OBVIOUS
<1>2. ToSet(Tail(s)) \subseteq ToSet(s)
  BY <1>1 DEF ToSet
<1>3. ASSUME NEW x \in ToSet(s), x # Head(s)
      PROVE  x \in ToSet(Tail(s))
  <2>1. PICK k \in DOMAIN s : x = s[k]
    BY DEF ToSet
  <2>2. k - 1 \in DOMAIN Tail(s) /\ Tail(s)[k - 1] = x
    BY <1>1, <1>3, <2>1
  <2> QED
    BY <2>2 DEF ToSet
<1> QED
  BY <1>1, <1>2, <1>3 DEF ToSet

LEMMA ToSetPrefix ==
  ASSUME NEW S, NEW s \in Seq(S), NEW n \in 0..Len(s)
  PROVE  ToSet(SubSeq(s, 1, n)) \subseteq ToSet(s)
<1> DEFINE r == SubSeq(s, 1, n)
<1>1. DOMAIN r = 1..n /\ \A j \in 1..n : r[j] = s[j]
  BY PrefixType
<1>2. 1..n \subseteq DOMAIN s
  OBVIOUS
<1> HIDE DEF r
<1>3. ToSet(r) \subseteq ToSet(s)
  BY <1>1, <1>2 DEF ToSet
<1> QED
  BY <1>3 DEF r

\* Taking a put off the table touches no other put.
LEMMA ToSetWithout ==
  ASSUME NEW S, NEW s \in Seq(S), NEW w
  PROVE  /\ ToSet(Without(s, w)) \subseteq ToSet(s)
         /\ ToSet(s) \subseteq {w} \cup ToSet(Without(s, w))
<1> DEFINE k == CHOOSE i \in DOMAIN s : s[i] = w
           r == RemoveAt(s, k)
<1>1. CASE \E i \in DOMAIN s : s[i] = w
  <2>1. k \in DOMAIN s /\ s[k] = w
    BY <1>1
  <2>2. Without(s, w) = r
    BY <1>1 DEF Without
  <2> HIDE DEF k
  <2>3. /\ DOMAIN r = 1..(Len(s) - 1) /\ DOMAIN s = 1..Len(s) /\ k \in 1..Len(s)
        /\ \A j \in 1..(k - 1) : r[j] = s[j]
        /\ \A j \in k..(Len(s) - 1) : r[j] = s[j + 1]
    BY <2>1, RemoveAtType
  <2> HIDE DEF r
  <2>4. ASSUME NEW j \in DOMAIN r
        PROVE  \E i \in DOMAIN s : r[j] = s[i]
    <3>1. CASE j < k
      BY <2>3, <3>1
    <3>2. CASE j >= k
      <4>1. j + 1 \in DOMAIN s /\ r[j] = s[j + 1]
        BY <2>3, <3>2
      <4> QED
        BY <4>1
    <3> QED
      BY <2>3, <3>1, <3>2
  <2>5. ASSUME NEW i \in DOMAIN s, i # k
        PROVE  \E j \in DOMAIN r : r[j] = s[i]
    <3>1. CASE i < k
      <4>1. i \in DOMAIN r /\ r[i] = s[i]
        BY <2>3, <3>1
      <4> QED
        BY <4>1
    <3>2. CASE i > k
      <4>1. i - 1 \in DOMAIN r /\ r[i - 1] = s[i]
        BY <2>3, <3>2
      <4> QED
        BY <4>1
    <3> QED
      BY <2>3, <2>5, <3>1, <3>2
  <2> QED
    BY <2>1, <2>2, <2>4, <2>5 DEF ToSet
<1>2. CASE ~ \E i \in DOMAIN s : s[i] = w
  BY <1>2 DEF Without
<1> QED
  BY <1>1, <1>2

LEMMA HeadTailConcat ==
  ASSUME NEW S, NEW s \in Seq(S), NEW t \in Seq(S), s # <<>>
  PROVE  s \o t # <<>> /\ Head(s \o t) = Head(s) /\ Tail(s \o t) = Tail(s) \o t
OBVIOUS

LEMMA OnceConcat ==
  ASSUME NEW S, NEW s \in Seq(S), NEW t \in Seq(S), MessageOnce(s), MessageOnce(t),
         \A w \in ToSet(s) \cap ToSet(t) : w.node # "messages"
  PROVE  MessageOnce(s \o t)
<1> DEFINE r == s \o t
<1>1. /\ DOMAIN r = 1..(Len(s) + Len(t))
      /\ \A i \in 1..Len(s) : r[i] = s[i]
      /\ \A i \in 1..Len(t) : r[Len(s) + i] = t[i]
      /\ Len(s) \in Nat /\ Len(t) \in Nat /\ DOMAIN s = 1..Len(s) /\ DOMAIN t = 1..Len(t)
  OBVIOUS
<1>2. \A i \in DOMAIN s : s[i] \in ToSet(s)
  BY InToSet
<1>3. \A i \in DOMAIN t : t[i] \in ToSet(t)
  BY InToSet
<1> HIDE DEF r
<1>4. ASSUME NEW i \in DOMAIN r, i \notin 1..Len(s)
      PROVE  i - Len(s) \in DOMAIN t /\ r[i] = t[i - Len(s)]
  <2>1. i - Len(s) \in 1..Len(t) /\ i = Len(s) + (i - Len(s))
    BY <1>1, <1>4
  <2> QED
    BY <1>1, <2>1
<1>5. ASSUME NEW i \in DOMAIN r, NEW j \in DOMAIN r, r[i] = r[j], r[i].node = "messages"
      PROVE  i = j
  <2>1. CASE i \in 1..Len(s) /\ j \in 1..Len(s)
    BY <1>1, <1>5, <2>1 DEF MessageOnce
  <2>2. CASE i \notin 1..Len(s) /\ j \notin 1..Len(s)
    <3>1. i - Len(s) = j - Len(s)
      BY <1>4, <1>5, <2>2 DEF MessageOnce
    <3> QED
      BY <1>1, <3>1
  <2>3. CASE i \in 1..Len(s) /\ j \notin 1..Len(s)
    BY <1>1, <1>2, <1>3, <1>4, <1>5, <2>3
  <2>4. CASE i \notin 1..Len(s) /\ j \in 1..Len(s)
    BY <1>1, <1>2, <1>3, <1>4, <1>5, <2>4
  <2> QED
    BY <2>1, <2>2, <2>3, <2>4
<1>6. MessageOnce(r)
  BY <1>5 DEF MessageOnce
<1> QED
  BY <1>6 DEF r

LEMMA OnceTail ==
  ASSUME NEW S, NEW s \in Seq(S), s # <<>>, MessageOnce(s)
  PROVE  /\ MessageOnce(Tail(s))
         /\ Head(s).node = "messages" => Head(s) \notin ToSet(Tail(s))
<1>1. /\ DOMAIN Tail(s) = 1..(Len(s) - 1) /\ DOMAIN s = 1..Len(s) /\ Len(s) \in Nat \ {0}
      /\ \A i \in 1..(Len(s) - 1) : Tail(s)[i] = s[i + 1]
      /\ Head(s) = s[1]
  OBVIOUS
<1>2. \A i \in 1..(Len(s) - 1) : i + 1 \in DOMAIN s /\ i + 1 # 1
  BY <1>1
<1>3. ASSUME NEW i \in DOMAIN Tail(s), NEW j \in DOMAIN Tail(s),
             Tail(s)[i] = Tail(s)[j], Tail(s)[i].node = "messages"
      PROVE  i = j
  <2>1. i + 1 = j + 1
    BY <1>1, <1>2, <1>3 DEF MessageOnce
  <2> QED
    BY <1>1, <2>1
<1>4. ASSUME Head(s).node = "messages", Head(s) \in ToSet(Tail(s))
      PROVE  FALSE
  <2>1. PICK i \in DOMAIN Tail(s) : Tail(s)[i] = Head(s)
    BY <1>4 DEF ToSet
  <2> QED
    BY <1>1, <1>2, <1>4, <2>1 DEF MessageOnce
<1> QED
  BY <1>3, <1>4 DEF MessageOnce

LEMMA OnceWithout ==
  ASSUME NEW S, NEW s \in Seq(S), NEW w, MessageOnce(s)
  PROVE  /\ MessageOnce(Without(s, w))
         /\ w.node = "messages" => w \notin ToSet(Without(s, w))
<1> DEFINE k == CHOOSE i \in DOMAIN s : s[i] = w
           r == RemoveAt(s, k)
           Old(j) == IF j < k THEN j ELSE j + 1
<1>1. CASE \E i \in DOMAIN s : s[i] = w
  <2>1. k \in DOMAIN s /\ s[k] = w
    BY <1>1
  <2>2. Without(s, w) = r
    BY <1>1 DEF Without
  <2> HIDE DEF k
  <2>3. /\ DOMAIN r = 1..(Len(s) - 1) /\ DOMAIN s = 1..Len(s) /\ k \in 1..Len(s)
        /\ \A j \in 1..(k - 1) : r[j] = s[j]
        /\ \A j \in k..(Len(s) - 1) : r[j] = s[j + 1]
        /\ Len(s) \in Nat
    BY <2>1, RemoveAtType
  <2> HIDE DEF r
  <2>4. \A j \in DOMAIN r : Old(j) \in DOMAIN s /\ Old(j) # k /\ r[j] = s[Old(j)]
    BY <2>3
  <2>5. \A i, j \in DOMAIN r : Old(i) = Old(j) => i = j
    BY <2>3
  <2> HIDE DEF Old
  <2>6. MessageOnce(r)
    BY <2>4, <2>5 DEF MessageOnce
  <2>7. w.node = "messages" => w \notin ToSet(r)
    BY <2>1, <2>4 DEF MessageOnce, ToSet
  <2> QED
    BY <2>2, <2>6, <2>7
<1>2. CASE ~ \E i \in DOMAIN s : s[i] = w
  BY <1>2 DEF Without, ToSet
<1> QED
  BY <1>1, <1>2

\* The writes of a sequence of answers.
LEMMA WritesOfType ==
  ASSUME NEW s \in Seq(Acks)
  PROVE  /\ WritesOf(s) \in Seq(Writes)
         /\ Len(WritesOf(s)) = Len(s)
         /\ \A i \in 1..Len(s) : WritesOf(s)[i] = s[i].write
<1>1. DOMAIN s = 1..Len(s) /\ Len(s) \in Nat
  OBVIOUS
<1>2. \A i \in 1..Len(s) : s[i].write \in Writes
  <2>1. \A i \in 1..Len(s) : s[i] \in Acks
    BY ElementOfSeq
  <2> QED
    BY <2>1 DEF Acks
<1>3. WritesOf(s) \in [1..Len(s) -> Writes]
  BY <1>1, <1>2 DEF WritesOf
<1> QED
  BY <1>1, <1>3 DEF WritesOf

LEMMA WritesOfConcat ==
  ASSUME NEW s \in Seq(Acks), NEW t \in Seq(Acks)
  PROVE  WritesOf(s \o t) = WritesOf(s) \o WritesOf(t)
<1> DEFINE q == s \o t
           a == WritesOf(s)
           b == WritesOf(t)
           r == WritesOf(q)
           e == a \o b
<1>1. /\ a \in Seq(Writes) /\ Len(a) = Len(s) /\ \A i \in 1..Len(s) : a[i] = s[i].write
      /\ b \in Seq(Writes) /\ Len(b) = Len(t) /\ \A i \in 1..Len(t) : b[i] = t[i].write
  BY WritesOfType
<1>2. /\ q \in Seq(Acks) /\ Len(q) = Len(s) + Len(t)
      /\ \A i \in 1..(Len(s) + Len(t)) : q[i] = IF i <= Len(s) THEN s[i] ELSE t[i - Len(s)]
  BY ConcatProperties
<1> HIDE DEF q, a, b
<1>3. /\ r \in Seq(Writes) /\ Len(r) = Len(s) + Len(t)
      /\ \A i \in 1..(Len(s) + Len(t)) : r[i] = q[i].write
  BY <1>2, WritesOfType
<1>4. /\ e \in Seq(Writes) /\ Len(e) = Len(a) + Len(b)
      /\ \A i \in 1..(Len(a) + Len(b)) : e[i] = IF i <= Len(a) THEN a[i] ELSE b[i - Len(a)]
  <2>1. a \in Seq(Writes) /\ b \in Seq(Writes)
    BY <1>1
  <2> QED
    BY <2>1, ConcatProperties
<1>5. Len(s) \in Nat /\ Len(t) \in Nat
  OBVIOUS
<1> HIDE DEF r, e
<1>6. ASSUME NEW i \in 1..(Len(s) + Len(t))
      PROVE  r[i] = e[i]
  <2>1. CASE i <= Len(s)
    BY <1>1, <1>2, <1>3, <1>4, <1>5, <2>1
  <2>2. CASE ~ (i <= Len(s))
    <3>1. i - Len(s) \in 1..Len(t)
      BY <1>5, <2>2
    <3>2. q[i] = t[i - Len(s)] /\ e[i] = b[i - Len(s)]
      BY <1>1, <1>2, <1>4, <1>5, <2>2
    <3> QED
      BY <1>1, <1>3, <3>1, <3>2
  <2> QED
    BY <2>1, <2>2
<1>7. r = e
  BY <1>1, <1>3, <1>4, <1>6, SeqEqual
<1> QED
  BY <1>7 DEF q, a, b, r, e

LEMMA WritesOfTail ==
  ASSUME NEW s \in Seq(Acks), s # <<>>
  PROVE  /\ WritesOf(Tail(s)) = Tail(WritesOf(s))
         /\ WritesOf(s) # <<>> /\ Head(WritesOf(s)) = Head(s).write
<1> DEFINE a == WritesOf(s)
           b == WritesOf(Tail(s))
<1>1. /\ Tail(s) \in Seq(Acks) /\ Len(Tail(s)) = Len(s) - 1 /\ Len(s) \in Nat \ {0}
      /\ \A i \in 1..(Len(s) - 1) : Tail(s)[i] = s[i + 1]
      /\ Head(s) = s[1]
  OBVIOUS
<1>2. /\ a \in Seq(Writes) /\ Len(a) = Len(s) /\ \A i \in 1..Len(s) : a[i] = s[i].write
  BY WritesOfType
<1>3. /\ b \in Seq(Writes) /\ Len(b) = Len(s) - 1
      /\ \A i \in 1..(Len(s) - 1) : b[i] = Tail(s)[i].write
  BY <1>1, WritesOfType
<1> HIDE DEF a, b
<1>4. a # <<>> /\ Head(a) = a[1] /\ 1 \in 1..Len(s)
  BY <1>1, <1>2
<1>5. /\ Tail(a) \in Seq(Writes) /\ Len(Tail(a)) = Len(a) - 1
      /\ \A i \in 1..(Len(a) - 1) : Tail(a)[i] = a[i + 1]
  BY <1>2, <1>4
<1>6. \A i \in 1..Len(b) : b[i] = Tail(a)[i]
  BY <1>1, <1>2, <1>3, <1>5
<1>7. b = Tail(a)
  BY <1>2, <1>3, <1>5, <1>6, SeqEqual
<1> QED
  BY <1>1, <1>2, <1>4, <1>7 DEF a, b

-----------------------------------------------------------------------------
(* What the queues hold after each operation.                              *)

\* What IInv says of the queues, with the types the lemmas on sequences need.
LEMMA QueueTypes ==
  ASSUME IInv
  PROVE  /\ Scalars /\ ConnectedHasWire
         /\ outstanding \in [Devices -> Seq(Writes)]
         /\ wire \in [Devices -> [1..MaxConns -> Seq(Writes)]]
         /\ replies \in [Devices -> Seq(Acks)]
         /\ putsToAck \in [Devices -> Seq(Acks)]
         /\ mainQueue \in [Devices -> Seq(Acks)]
         /\ \A d \in Devices : \A w \in ToSet(outstanding[d]) : w \in SoundWrites
         /\ \A d \in Devices, c \in 1..MaxConns : \A w \in ToSet(wire[d][c]) : w \in SoundWrites
         /\ \A d \in Devices : \A a \in ToSet(replies[d]) : a \in SoundAcks
         /\ \A d \in Devices : \A a \in ToSet(mainQueue[d]) \cup ToSet(putsToAck[d]) :
               a \in SoundCompletions
<1>1. TypeOK /\ Scalars /\ Queues
  BY InvType DEF IInv
<1>2. \A d \in Devices : \A w \in ToSet(outstanding[d]) : w \in SoundWrites
  BY <1>1 DEF Queues, ToSet
<1>3. \A d \in Devices, c \in 1..MaxConns : \A w \in ToSet(wire[d][c]) : w \in SoundWrites
  <2>1. \A d \in Devices, c \in 1..MaxConns : wire[d][c] \in Seq(SoundWrites)
    BY <1>1 DEF Queues
  <2> QED
    BY <2>1 DEF ToSet
<1>4. \A d \in Devices : \A a \in ToSet(replies[d]) : a \in SoundAcks
  BY <1>1 DEF Queues, ToSet
<1>5. \A d \in Devices : \A a \in ToSet(mainQueue[d]) \cup ToSet(putsToAck[d]) :
         a \in SoundCompletions
  BY <1>1 DEF Queues, ToSet
<1> QED
  BY <1>1, <1>2, <1>3, <1>4, <1>5 DEF TypeOK, Scalars

\* What Put leaves on the tables and the wires.
LEMMA PutHolds ==
  ASSUME IInv, NEW d \in Devices, NEW ws \in Seq(Writes), Put(d, ws)
  PROVE  /\ outstanding' = [outstanding EXCEPT ![d] = outstanding[d] \o ws]
         /\ ToSet(outstanding'[d]) = ToSet(outstanding[d]) \cup ToSet(ws)
         /\ wire' \in [Devices -> [1..MaxConns -> Seq(Writes)]]
         /\ \A e \in Devices, c \in 1..MaxConns :
               wire'[e][c] = IF conn[d] = "connected" /\ e = d /\ c = connNo[d]
                             THEN wire[d][c] \o ws ELSE wire[e][c]
         /\ \A e \in Devices, c \in 1..MaxConns :
               ToSet(wire'[e][c]) \subseteq ToSet(wire[e][c]) \cup ToSet(ws)
<1>1. /\ outstanding \in [Devices -> Seq(Writes)]
      /\ wire \in [Devices -> [1..MaxConns -> Seq(Writes)]]
      /\ ConnectedHasWire
  BY QueueTypes
<1>2. outstanding' = [outstanding EXCEPT ![d] = outstanding[d] \o ws]
  BY DEF Put
<1>3. ToSet(outstanding'[d]) = ToSet(outstanding[d]) \cup ToSet(ws)
  <2>1. outstanding[d] \in Seq(Writes)
    BY <1>1
  <2>2. ToSet(outstanding[d] \o ws) = ToSet(outstanding[d]) \cup ToSet(ws)
    BY <2>1, ToSetConcat
  <2> QED
    BY <1>1, <1>2, <2>2
<1>4. wire' \in [Devices -> [1..MaxConns -> Seq(Writes)]]
  BY <1>1, PutQueues
<1>5. \A e \in Devices, c \in 1..MaxConns :
         wire'[e][c] = IF conn[d] = "connected" /\ e = d /\ c = connNo[d]
                       THEN wire[d][c] \o ws ELSE wire[e][c]
  <2>1. CASE CanSendWrites(d)
    <3> DEFINE k == connNo[d]
    <3>1. k \in 1..MaxConns
      BY <1>1, <2>1 DEF ConnectedHasWire, CanSendWrites
    <3>2. wire' = [wire EXCEPT ![d] = [wire[d] EXCEPT ![k] = wire[d][k] \o ws]]
      BY <2>1 DEF Put
    <3> HIDE DEF k
    <3>3. \A e \in Devices, c \in 1..MaxConns :
             wire'[e][c] = IF e = d /\ c = k THEN wire[d][k] \o ws ELSE wire[e][c]
      BY <1>1, <3>1, <3>2
    <3> QED
      BY <2>1, <3>3 DEF k, CanSendWrites
  <2>2. CASE ~ CanSendWrites(d)
    BY <2>2 DEF Put, CanSendWrites
  <2> QED
    BY <2>1, <2>2
<1>6. ASSUME NEW e \in Devices, NEW c \in 1..MaxConns
      PROVE  ToSet(wire'[e][c]) \subseteq ToSet(wire[e][c]) \cup ToSet(ws)
  <2>1. wire[e][c] \in Seq(Writes)
    BY <1>1
  <2>2. ToSet(wire[e][c] \o ws) = ToSet(wire[e][c]) \cup ToSet(ws)
    BY <2>1, ToSetConcat
  <2> QED
    BY <1>5, <2>2
<1> QED
  BY <1>2, <1>3, <1>4, <1>5, <1>6

\* What a fan-out reads and leaves, in terms of the message it is about.
LEMMA FanOutHolds ==
  ASSUME IInv, NEW d \in Devices, FanOut(d)
  PROVE  \E m \in Messages, p \in [from: Users, to: Users], ws \in Seq(Writes) :
           /\ Box!Sent(m) /\ composed[m] = p /\ composed'[m] = p
           /\ mainQueue[d] # <<>> /\ Head(mainQueue[d]).write = MessageWrite(m)
           /\ ws = <<IndexWrite(p.from, p.to, m), IndexWrite(p.to, p.from, m)>>
           /\ ToSet(ws) = {IndexWrite(p.from, p.to, m), IndexWrite(p.to, p.from, m)}
           /\ Put(d, ws)
           /\ mainQueue' = [mainQueue EXCEPT ![d] = Tail(mainQueue[d])]
<1> DEFINE a == Head(mainQueue[d])
           m == a.write.msg
           p == composed[m]
           first == IndexWrite(p.from, p.to, m)
           second == IndexWrite(p.to, p.from, m)
           ws == <<first, second>>
<1>1. mainQueue[d] \in Seq(SoundCompletions) /\ mainQueue[d] # <<>>
  BY DEF FanOut, IInv, Queues
<1>2. a \in SoundCompletions
  BY <1>1
<1>3. /\ m \in Messages /\ Box!Sent(m) /\ p \in [from: Users, to: Users]
      /\ first \in SoundWrites /\ second \in SoundWrites
  BY <1>2, FanOutSound DEF IInv
<1>4. composed' = composed
  BY DEF FanOut
<1>5. a.write = MessageWrite(m)
  BY <1>2 DEF SoundCompletions, SoundAcks, SoundWrites, Writes, MessageWrites,
              IndexWrites, MessageWrite
<1>6. /\ Put(d, ws)
      /\ mainQueue' = [mainQueue EXCEPT ![d] = Tail(mainQueue[d])]
  BY DEF FanOut
<1>7. ws \in Seq(Writes) /\ ToSet(ws) = {first, second}
  <2>1. first \in Writes /\ second \in Writes
    BY <1>3 DEF SoundWrites
  <2> HIDE DEF first, second
  <2> QED
    BY <2>1 DEF ToSet
<1> QED
  BY <1>1, <1>3, <1>4, <1>5, <1>6, <1>7

\* Cutting a wire adds to no wire.
LEMMA CutHolds ==
  ASSUME NEW d \in Devices, connNo[d] \in 1..MaxConns,
         wire \in [Devices -> [1..MaxConns -> Seq(Writes)]],
         \E n \in 0..Len(wire[d][connNo[d]]) : CutWire(d, n)
  PROVE  \A e \in Devices, c \in 1..MaxConns : ToSet(wire'[e][c]) \subseteq ToSet(wire[e][c])
<1> DEFINE k == connNo[d]
<1>1. PICK n \in 0..Len(wire[d][k]) : CutWire(d, n)
  OBVIOUS
<1> DEFINE t == SubSeq(wire[d][k], 1, n)
<1>2. wire[d][k] \in Seq(Writes)
  OBVIOUS
<1>3. ToSet(t) \subseteq ToSet(wire[d][k])
  BY <1>2, ToSetPrefix
<1>4. wire' = [wire EXCEPT ![d] = [wire[d] EXCEPT ![k] = t]]
  BY <1>1 DEF CutWire
<1> HIDE DEF t
<1> QED
  BY <1>3, <1>4

\* What the answer to a put leaves on the table and in the queues.
LEMMA AckHolds ==
  ASSUME IInv, NEW d \in Devices, ReceiveAck(d)
  PROVE  \E a \in SoundAcks :
           /\ a = Head(replies[d]) /\ replies[d] # <<>>
           /\ replies' = [replies EXCEPT ![d] = Tail(replies[d])]
           /\ outstanding' = [outstanding EXCEPT ![d] = Without(outstanding[d], a.write)]
           /\ a.write.node # "messages" => putsToAck' = putsToAck /\ mainQueue' = mainQueue
           /\ a.write.node = "messages" =>
                \/ /\ putsToAck' = [putsToAck EXCEPT ![d] = putsToAck[d] \o <<a>>]
                   /\ mainQueue' = mainQueue /\ unacked[d] # 0
                \/ /\ mainQueue' = [mainQueue EXCEPT ![d] = mainQueue[d] \o <<a>>]
                   /\ putsToAck' = putsToAck /\ unacked[d] = 0
<1> DEFINE a == Head(replies[d])
           done == Completions(a.write, a.status)
<1>1. replies[d] \in Seq(SoundAcks) /\ replies[d] # <<>>
  BY DEF IInv, Queues, ReceiveAck
<1>2. a \in SoundAcks
  BY <1>1
<1>3. a = [write |-> a.write, status |-> a.status]
  BY <1>2 DEF SoundAcks, Acks
<1>4. done = IF a.write.node = "messages" THEN <<a>> ELSE <<>>
  BY <1>3 DEF Completions
<1>5. /\ replies' = [replies EXCEPT ![d] = Tail(replies[d])]
      /\ outstanding' = [outstanding EXCEPT ![d] = Without(outstanding[d], a.write)]
      /\ \/ /\ mainQueue' = [mainQueue EXCEPT ![d] = mainQueue[d] \o done]
            /\ putsToAck' = putsToAck /\ unacked[d] = 0
         \/ /\ putsToAck' = [putsToAck EXCEPT ![d] = putsToAck[d] \o done]
            /\ mainQueue' = mainQueue /\ unacked[d] # 0
  BY DEF ReceiveAck
<1>6. /\ putsToAck \in [Devices -> Seq(Acks)]
      /\ mainQueue \in [Devices -> Seq(Acks)]
  BY QueueTypes
<1> HIDE DEF done, a
<1>7. done = <<>> => /\ [mainQueue EXCEPT ![d] = mainQueue[d] \o done] = mainQueue
                     /\ [putsToAck EXCEPT ![d] = putsToAck[d] \o done] = putsToAck
  <2>1. /\ mainQueue[d] \in Seq(Acks) /\ putsToAck[d] \in Seq(Acks)
    BY <1>6
  <2>2. mainQueue[d] \o <<>> = mainQueue[d] /\ putsToAck[d] \o <<>> = putsToAck[d]
    BY <2>1, ConcatEmptySeq
  <2> QED
    BY <1>6, <2>2
<1>8. CASE a.write.node = "messages"
  BY <1>1, <1>2, <1>4, <1>5, <1>8 DEF a
<1>9. CASE a.write.node # "messages"
  <2>1. mainQueue' = mainQueue /\ putsToAck' = putsToAck
    BY <1>4, <1>5, <1>7, <1>9
  <2> QED
    BY <1>1, <1>2, <1>5, <1>9, <2>1 DEF a
<1> QED
  BY <1>8, <1>9

-----------------------------------------------------------------------------
(* Nothing is forgotten.                                                   *)

\* The device still has the message in hand, or has done all it has to.
Kept(d, m) ==
  \/ MessageWrite(m) \in ToSet(outstanding[d])
  \/ \E ack \in ToSet(mainQueue[d]) \cup ToSet(putsToAck[d]) : ack.write.msg = m
  \/ /\ Underway(d, composed[m].from, composed[m].to, m)
     /\ Underway(d, composed[m].to, composed[m].from, m)

\* A step that takes nothing off the device's table and queues.
LEMMA KeptGrows ==
  ASSUME Grows, NEW d \in Devices, NEW m \in Messages, Box!Sent(m), Kept(d, m),
         ToSet(outstanding[d]) \subseteq ToSet(outstanding'[d]),
         ToSet(mainQueue[d]) \cup ToSet(putsToAck[d])
           \subseteq ToSet(mainQueue'[d]) \cup ToSet(putsToAck'[d])
  PROVE  Kept(d, m)'
BY DEF Grows, Kept, Underway

LEMMA KeptStep ==
  ASSUME IInv, [Next]_vars, "user-messages" \notin Refusable,
         NEW d \in Devices, NEW m \in Messages, Box!Sent(m), Kept(d, m), ~ Crash(d)
  PROVE  Kept(d, m)'
<1>0. /\ Grows /\ Scalars
      /\ outstanding \in [Devices -> Seq(Writes)]
      /\ replies \in [Devices -> Seq(Acks)]
      /\ putsToAck \in [Devices -> Seq(Acks)]
      /\ mainQueue \in [Devices -> Seq(Acks)]
  BY StepGrows, QueueTypes
<1>1. CASE UNCHANGED <<outstanding[d], mainQueue[d], putsToAck[d]>>
  BY <1>0, <1>1, KeptGrows
<1>2. ASSUME NEW k \in Messages, NEW v \in Users, Send(d, k, v)
      PROVE  Kept(d, m)'
  <2>1. <<MessageWrite(k)>> \in Seq(Writes)
    BY DEF MessageWrite, Writes, MessageWrites
  <2>2. Put(d, <<MessageWrite(k)>>) /\ mainQueue' = mainQueue /\ putsToAck' = putsToAck
    BY <1>2 DEF Send
  <2>3. ToSet(outstanding[d]) \subseteq ToSet(outstanding'[d])
    <3> DEFINE ws == <<MessageWrite(k)>>
    <3>1. ws \in Seq(Writes) /\ Put(d, ws)
      BY <2>1, <2>2
    <3> HIDE DEF ws
    <3>2. ToSet(outstanding'[d]) = ToSet(outstanding[d]) \cup ToSet(ws)
      BY <3>1, PutHolds
    <3> QED BY <3>2
  <2> QED
    BY <1>0, <2>2, <2>3, KeptGrows
<1>3. CASE FanOut(d)
  <2>1. PICK k \in Messages, p \in [from: Users, to: Users], ws \in Seq(Writes) :
           /\ composed'[k] = p
           /\ mainQueue[d] # <<>> /\ Head(mainQueue[d]).write = MessageWrite(k)
           /\ ToSet(ws) = {IndexWrite(p.from, p.to, k), IndexWrite(p.to, p.from, k)}
           /\ Put(d, ws)
           /\ mainQueue' = [mainQueue EXCEPT ![d] = Tail(mainQueue[d])]
    BY <1>3, FanOutHolds
  <2>2. putsToAck' = putsToAck
    BY <1>3 DEF FanOut
  <2>3. ToSet(mainQueue[d]) \subseteq {Head(mainQueue[d])} \cup ToSet(mainQueue'[d])
    BY <1>0, <2>1, ToSetTail
  <2>4. ToSet(outstanding'[d]) = ToSet(outstanding[d]) \cup ToSet(ws)
    BY <2>1, PutHolds
  <2>5. CASE m = k
    BY <2>1, <2>4, <2>5 DEF Kept, Underway
  <2>6. CASE m # k
    <3>1. CASE \E ack \in ToSet(mainQueue[d]) \cup ToSet(putsToAck[d]) : ack.write.msg = m
      BY <2>1, <2>2, <2>3, <2>6, <3>1 DEF Kept, MessageWrite
    <3>2. CASE ~ \E ack \in ToSet(mainQueue[d]) \cup ToSet(putsToAck[d]) : ack.write.msg = m
      BY <1>0, <2>4, <3>2 DEF Kept, Underway, Grows
    <3> QED
      BY <3>1, <3>2
  <2> QED
    BY <2>5, <2>6
<1>4. CASE ReceiveAck(d)
  <2>1. PICK a \in SoundAcks :
           /\ outstanding' = [outstanding EXCEPT ![d] = Without(outstanding[d], a.write)]
           /\ a.write.node # "messages" => putsToAck' = putsToAck /\ mainQueue' = mainQueue
           /\ a.write.node = "messages" =>
                \/ /\ putsToAck' = [putsToAck EXCEPT ![d] = putsToAck[d] \o <<a>>]
                   /\ mainQueue' = mainQueue
                \/ /\ mainQueue' = [mainQueue EXCEPT ![d] = mainQueue[d] \o <<a>>]
                   /\ putsToAck' = putsToAck
    BY <1>4, AckHolds
  <2>2. ToSet(outstanding[d]) \subseteq {a.write} \cup ToSet(outstanding'[d])
    <3>1. outstanding[d] \in Seq(Writes)
      BY <1>0
    <3> QED
      BY <1>0, <2>1, <3>1, ToSetWithout
  <2>3. /\ a \in Acks /\ a.write \in Writes /\ a.write.node \in Nodes
        /\ a.write.node = "user-messages" => Entry(a.write) \in userMessages
    BY WriteFields DEF SoundAcks, SoundWrites, Applied
  <2>4. /\ ToSet(mainQueue[d] \o <<a>>) = ToSet(mainQueue[d]) \cup {a}
        /\ ToSet(putsToAck[d] \o <<a>>) = ToSet(putsToAck[d]) \cup {a}
    <3> DEFINE t == <<a>>
    <3>1. t \in Seq(Acks) /\ ToSet(t) = {a}
      BY <2>3 DEF ToSet
    <3>2. mainQueue[d] \in Seq(Acks) /\ putsToAck[d] \in Seq(Acks)
      BY <1>0
    <3> HIDE DEF t
    <3>3. ToSet(mainQueue[d] \o t) = ToSet(mainQueue[d]) \cup ToSet(t)
      BY <3>1, <3>2, ToSetConcat
    <3>4. ToSet(putsToAck[d] \o t) = ToSet(putsToAck[d]) \cup ToSet(t)
      BY <3>1, <3>2, ToSetConcat
    <3> QED
      BY <3>1, <3>3, <3>4 DEF t
  <2>5. ToSet(mainQueue[d]) \cup ToSet(putsToAck[d])
          \subseteq ToSet(mainQueue'[d]) \cup ToSet(putsToAck'[d])
    BY <1>0, <2>1, <2>4
  <2>6. a.write.node = "messages" => a \in ToSet(mainQueue'[d]) \cup ToSet(putsToAck'[d])
    BY <1>0, <2>1, <2>4
  <2>7. CASE MessageWrite(m) \in ToSet(outstanding[d])
    <3>1. MessageWrite(m) = a.write => a.write.msg = m /\ a.write.node = "messages"
      BY DEF MessageWrite
    <3> QED
      BY <2>2, <2>6, <2>7, <3>1 DEF Kept
  <2>8. CASE \E ack \in ToSet(mainQueue[d]) \cup ToSet(putsToAck[d]) : ack.write.msg = m
    BY <2>5, <2>8 DEF Kept
  <2>9. CASE /\ Underway(d, composed[m].from, composed[m].to, m)
             /\ Underway(d, composed[m].to, composed[m].from, m)
    <3>1. ASSUME NEW u, NEW v, Underway(d, u, v, m)
          PROVE  Underway(d, u, v, m)'
      <4>1. IndexWrite(u, v, m) = a.write => <<u, v, m>> \in userMessages
        BY <2>3 DEF IndexWrite, Entry
      <4> QED
        BY <1>0, <2>2, <3>1, <4>1 DEF Underway, Grows
    <3>2. composed'[m] = composed[m]
      BY <1>0 DEF Grows
    <3> QED
      BY <2>9, <3>1, <3>2 DEF Kept
  <2> QED
    BY <2>7, <2>8, <2>9 DEF Kept
<1>5. CASE ReceiveListenReply(d)
  <2>1. /\ outstanding' = outstanding
        /\ \/ mainQueue' = mainQueue /\ putsToAck' = putsToAck
           \/ mainQueue' = [mainQueue EXCEPT ![d] = mainQueue[d] \o putsToAck[d]]
    BY <1>5 DEF ReceiveListenReply
  <2>2. ToSet(mainQueue[d] \o putsToAck[d]) = ToSet(mainQueue[d]) \cup ToSet(putsToAck[d])
    <3>1. mainQueue[d] \in Seq(Acks) /\ putsToAck[d] \in Seq(Acks)
      BY <1>0
    <3> QED
      BY <3>1, ToSetConcat
  <2>3. ToSet(mainQueue[d]) \cup ToSet(putsToAck[d])
          \subseteq ToSet(mainQueue'[d]) \cup ToSet(putsToAck'[d])
    BY <1>0, <2>1, <2>2
  <2> QED
    BY <1>0, <2>1, <2>3, KeptGrows
<1>6. ASSUME NEW e \in Devices, e # d,
             \/ \E k \in Messages, v \in Users : Send(e, k, v)
             \/ FanOut(e) \/ ReceiveAck(e) \/ ReceiveListenReply(e) \/ Crash(e)
      PROVE  Kept(d, m)'
  <2>1. UNCHANGED <<outstanding[d], mainQueue[d], putsToAck[d]>>
    BY <1>0, <1>6 DEF Send, FanOut, ReceiveAck, ReceiveListenReply, Crash, Put
  <2> QED
    BY <1>1, <2>1
<1>7. CASE UNCHANGED <<outstanding, mainQueue, putsToAck>>
  BY <1>1, <1>7
<1>8. CASE UNCHANGED vars
  BY <1>7, <1>8 DEF vars, client
<1>9. PICK e \in Devices :
         \/ \E u \in Users : SignIn(e, u)
         \/ SignOut(e)
         \/ \E k \in Messages, v \in Users : Send(e, k, v)
         \/ FanOut(e) \/ StartRead(e) \/ EndRead(e) \/ Connect(e) \/ Authenticated(e)
         \/ Disconnect(e) \/ ReceiveAck(e) \/ ReceiveListenReply(e)
         \/ RevokeListen(e) \/ Crash(e)
         \/ \E c \in 1..MaxConns : Serve(e, c)
         \/ UNCHANGED vars
  BY DEF Next
<1>10. CASE \/ \E u \in Users : SignIn(e, u)
            \/ SignOut(e) \/ StartRead(e) \/ EndRead(e) \/ Connect(e)
            \/ Authenticated(e) \/ Disconnect(e) \/ RevokeListen(e)
            \/ \E c \in 1..MaxConns : Serve(e, c)
  BY <1>7, <1>10 DEF SignIn, SignOut, StartRead, EndRead, Connect, Authenticated,
                     Disconnect, RevokeListen, Serve, client
<1> QED
  BY <1>2, <1>3, <1>4, <1>5, <1>6, <1>8, <1>9, <1>10

LEMMA StepForgets ==
  ASSUME IInv, NothingForgotten, [Next]_vars, "user-messages" \notin Refusable
  PROVE  NothingForgotten'
<1>0. Scalars /\ Scalars' /\ Grows
  BY StepScalars, StepGrows DEF IInv
<1> SUFFICES ASSUME NEW m \in Messages, Box!Sent(m)', \A d \in Devices : crashes'[d] = 0
             PROVE  \E d \in Devices : Kept(d, m)'
  BY DEF NothingForgotten, Kept
<1>1. \A d \in Devices : crashes[d] = 0 /\ ~ Crash(d)
  <2>1. ASSUME NEW d \in Devices
        PROVE  crashes'[d] >= crashes[d] /\ (Crash(d) => crashes'[d] > 0)
    <3>1. CASE UNCHANGED crashes
      BY <1>0, <3>1 DEF Scalars, Crash
    <3>2. ASSUME NEW e \in Devices, Crash(e)
          PROVE  crashes'[d] >= crashes[d] /\ (Crash(d) => crashes'[d] > 0)
      BY <1>0, <3>2 DEF Scalars, Crash
    <3>3. UNCHANGED crashes \/ \E e \in Devices : Crash(e)
      BY DEF Next, SignIn, SignOut, Send, FanOut, StartRead, EndRead, Connect,
             Authenticated, Disconnect, ReceiveAck, ReceiveListenReply,
             RevokeListen, Serve, bounds, vars
    <3> QED
      BY <3>1, <3>2, <3>3
  <2> QED
    BY <1>0, <2>1 DEF Scalars
<1>2. CASE Box!Sent(m)
  <2>1. PICK d \in Devices : Kept(d, m)
    BY <1>1, <1>2 DEF NothingForgotten, Kept
  <2> QED
    BY <1>1, <1>2, <2>1, KeptStep
<1>3. CASE ~ Box!Sent(m)
  <2>1. PICK d \in Devices, k \in Messages, v \in Users : Send(d, k, v)
    <3>1. composed' # composed
      BY <1>3 DEF Box!Sent
    <3> QED
      BY <3>1 DEF Next, SignIn, SignOut, FanOut, StartRead, EndRead, Connect,
             Authenticated, Disconnect, ReceiveAck, ReceiveListenReply,
             RevokeListen, Crash, Serve, vars
  <2>2. k = m
    BY <1>0, <1>3, <2>1 DEF Send, Scalars, Box!Sent
  <2> DEFINE ws == <<MessageWrite(m)>>
  <2>3. ws \in Seq(Writes) /\ ToSet(ws) = {MessageWrite(m)}
    BY DEF MessageWrite, Writes, MessageWrites, ToSet
  <2>4. Put(d, ws)
    BY <2>1, <2>2 DEF Send
  <2> HIDE DEF ws
  <2>5. MessageWrite(m) \in ToSet(outstanding'[d])
    <3>1. ws \in Seq(Writes)
      BY <2>3
    <3>2. ToSet(outstanding'[d]) = ToSet(outstanding[d]) \cup ToSet(ws)
      BY <2>4, <3>1, PutHolds
    <3> QED
      BY <2>3, <3>2
  <2> QED
    BY <2>5 DEF Kept
<1> QED
  BY <1>2, <1>3

\* Under rules that accept index entries, a message that was composed is in
\* some phone's hands, or on its way to both boxes, until a process dies: no
\* drop, resend, refusal, held completion or change of account loses it.
THEOREM NeverForgotten ==
  ASSUME "user-messages" \notin Refusable
  PROVE  Spec => []NothingForgotten
<1>1. Init => NothingForgotten
  BY DEF Init, Box!Init, NothingForgotten, Box!Sent
<1>2. IInv /\ NothingForgotten /\ [Next]_vars => NothingForgotten'
  BY StepForgets
<1> QED
  BY <1>1, <1>2, Inductive, PTL DEF Spec

-----------------------------------------------------------------------------
(* One fan-out per message.  A message whose fan-out is still ahead of it   *)
(* is in one place of one phone: its write on the table of puts, or its     *)
(* completion held back or queued.  And while the fan-out is ahead, none of *)
(* its index writes is anywhere, not even on a dead connection.  That an    *)
(* answer moves the message from the table to the queues, and never puts it *)
(* there a second time, needs the third part: on a connection that is up,   *)
(* what is in flight holds each message's write once, and on the table.     *)

Places == {"table", "held", "queue"}

Place(p, d) ==
  CASE p = "table" -> outstanding[d]
    [] p = "held"  -> WritesOf(putsToAck[d])
    [] p = "queue" -> WritesOf(mainQueue[d])

Ahead(p, d, m) == MessageWrite(m) \in ToSet(Place(p, d))

OnePlace ==
  \A m \in Messages, d, e \in Devices, p, q \in Places :
     Ahead(p, d, m) /\ Ahead(q, e, m) => d = e /\ p = q

OncePlace == \A d \in Devices, p \in Places : MessageOnce(Place(p, d))

FannedOut(m) ==
  \E u, v \in Users :
     \/ <<u, v, m>> \in userMessages
     \/ \E e \in Devices :
          \/ IndexWrite(u, v, m) \in ToSet(outstanding[e])
          \/ \E c \in 1..MaxConns : IndexWrite(u, v, m) \in ToSet(wire[e][c])

NotBoth ==
  \A m \in Messages, d \in Devices, p \in Places : Ahead(p, d, m) => ~ FannedOut(m)

\* What the connection that is up still carries, in either direction.
InFlight(d) == WritesOf(replies[d]) \o wire[d][connNo[d]]

Line(d) ==
  /\ \A c \in 1..MaxConns : c > connNo[d] => wire[d][c] = <<>>
  /\ conn[d] # "connected" => replies[d] = <<>>
  /\ conn[d] = "authenticating" => wire[d][connNo[d]] = <<>>
  /\ conn[d] = "connected" =>
       /\ MessageOnce(InFlight(d))
       /\ \A m \in Messages : MessageWrite(m) \in ToSet(InFlight(d))
                                 => MessageWrite(m) \in ToSet(outstanding[d])

Lines == \A d \in Devices : Line(d)

FInv == IInv /\ OnePlace /\ OncePlace /\ NotBoth /\ Lines

\* Every write on a table or in a queue belongs to a message that was sent.
LEMMA PlaceTypes ==
  ASSUME IInv, NEW d \in Devices, NEW p \in Places
  PROVE  /\ Place(p, d) \in Seq(Writes)
         /\ \A m \in Messages : Ahead(p, d, m) => Box!Sent(m)
<1>1. /\ outstanding[d] \in Seq(Writes)
      /\ \A w \in ToSet(outstanding[d]) : w \in SoundWrites
      /\ putsToAck[d] \in Seq(Acks) /\ mainQueue[d] \in Seq(Acks)
      /\ \A a \in ToSet(mainQueue[d]) \cup ToSet(putsToAck[d]) : a \in SoundCompletions
  BY QueueTypes
<1>2. ASSUME NEW s \in Seq(Acks), \A a \in ToSet(s) : a \in SoundCompletions
      PROVE  /\ WritesOf(s) \in Seq(Writes)
             /\ \A w \in ToSet(WritesOf(s)) : w \in SoundWrites
  <2>1. WritesOf(s) \in Seq(Writes)
    BY WritesOfType
  <2>2. ASSUME NEW w \in ToSet(WritesOf(s))
        PROVE  w \in SoundWrites
    <3>1. PICK i \in DOMAIN s : w = s[i].write
      BY DEF ToSet, WritesOf
    <3>2. s[i] \in SoundCompletions
      BY <1>2 DEF ToSet
    <3> QED
      BY <3>1, <3>2 DEF SoundCompletions, SoundAcks
  <2> QED
    BY <2>1, <2>2
<1>3. /\ Place(p, d) \in Seq(Writes)
      /\ \A w \in ToSet(Place(p, d)) : w \in SoundWrites
  BY <1>1, <1>2 DEF Places, Place
<1>4. \A m \in Messages : MessageWrite(m) \in SoundWrites => Box!Sent(m)
  BY DEF SoundWrites, MessageWrite
<1> QED
  BY <1>3, <1>4 DEF Ahead

\* So does every index write, wherever it is.
LEMMA FannedSent ==
  ASSUME IInv, NEW m \in Messages, FannedOut(m)
  PROVE  Box!Sent(m)
<1>1. \A u, v \in Users : IndexWrite(u, v, m) \in SoundWrites => Box!Sent(m)
  BY DEF SoundWrites, IndexWrite
<1>2. \A u, v \in Users : <<u, v, m>> \in userMessages => Box!Sent(m)
  BY DEF IInv, Files, SoundEntry
<1>3. /\ \A d \in Devices : \A w \in ToSet(outstanding[d]) : w \in SoundWrites
      /\ \A d \in Devices, c \in 1..MaxConns : \A w \in ToSet(wire[d][c]) : w \in SoundWrites
  BY QueueTypes
<1> QED
  BY <1>1, <1>2, <1>3 DEF FannedOut

\* A step that puts no index write on a table adds to no message's fan-out.
LEMMA FannedShrinks ==
  ASSUME NEW m \in Messages, FannedOut(m)',
         \A e \in Devices, u, v \in Users :
            IndexWrite(u, v, m) \in ToSet(outstanding'[e])
              => IndexWrite(u, v, m) \in ToSet(outstanding[e]),
         \A e \in Devices, c \in 1..MaxConns, u, v \in Users :
            IndexWrite(u, v, m) \in ToSet(wire'[e][c])
              => IndexWrite(u, v, m) \in ToSet(wire[e][c]) \cup ToSet(outstanding[e]),
         \A u, v \in Users :
            <<u, v, m>> \in userMessages'
              => \/ <<u, v, m>> \in userMessages
                 \/ \E e \in Devices, c \in 1..MaxConns :
                      IndexWrite(u, v, m) \in ToSet(wire[e][c])
  PROVE  FannedOut(m)
BY DEF FannedOut

\* What a step that leaves a phone's connection alone keeps of its line.
LEMMA LineSame ==
  ASSUME NEW d \in Devices, Line(d),
         UNCHANGED <<conn[d], connNo[d], replies[d], wire[d], outstanding[d]>>
  PROVE  Line(d)'
BY DEF Line, InFlight

LEMMA InFlightType ==
  ASSUME IInv, NEW d \in Devices, conn[d] # "disconnected"
  PROVE  /\ connNo[d] \in 1..MaxConns
         /\ wire[d][connNo[d]] \in Seq(Writes)
         /\ WritesOf(replies[d]) \in Seq(Writes)
         /\ InFlight(d) \in Seq(Writes)
         /\ ToSet(InFlight(d)) = ToSet(WritesOf(replies[d])) \cup ToSet(wire[d][connNo[d]])
<1>1. /\ ConnectedHasWire
      /\ wire \in [Devices -> [1..MaxConns -> Seq(Writes)]]
      /\ replies \in [Devices -> Seq(Acks)]
  BY QueueTypes
<1>2. connNo[d] \in 1..MaxConns
  BY <1>1 DEF ConnectedHasWire
<1>3. wire[d][connNo[d]] \in Seq(Writes)
  BY <1>1, <1>2
<1>4. WritesOf(replies[d]) \in Seq(Writes)
  BY <1>1, WritesOfType
<1>5. InFlight(d) \in Seq(Writes)
  BY <1>3, <1>4, ConcatProperties DEF InFlight
<1>6. ToSet(InFlight(d)) = ToSet(WritesOf(replies[d])) \cup ToSet(wire[d][connNo[d]])
  BY <1>3, <1>4, ToSetConcat DEF InFlight
<1> QED
  BY <1>2, <1>3, <1>4, <1>5, <1>6

LEMMA PutLines ==
  ASSUME IInv, Lines, NEW d \in Devices, NEW ws \in Seq(Writes), Put(d, ws),
         UNCHANGED <<conn, connNo, replies>>, MessageOnce(ws),
         \A w \in ToSet(ws) : w.node = "messages" => w \notin ToSet(outstanding[d])
  PROVE  Lines'
<1>1. /\ outstanding' = [outstanding EXCEPT ![d] = outstanding[d] \o ws]
      /\ ToSet(outstanding'[d]) = ToSet(outstanding[d]) \cup ToSet(ws)
      /\ \A e \in Devices, c \in 1..MaxConns :
            wire'[e][c] = IF conn[d] = "connected" /\ e = d /\ c = connNo[d]
                          THEN wire[d][c] \o ws ELSE wire[e][c]
      /\ wire' \in [Devices -> [1..MaxConns -> Seq(Writes)]]
  BY PutHolds
<1>2. /\ outstanding \in [Devices -> Seq(Writes)]
      /\ wire \in [Devices -> [1..MaxConns -> Seq(Writes)]]
      /\ connNo \in [Devices -> 0..MaxConns] /\ ConnectedHasWire
      /\ \A e \in Devices : \A w \in ToSet(outstanding[e]) : w \in SoundWrites
  BY QueueTypes DEF Scalars
<1>3. ASSUME NEW e \in Devices, e # d \/ conn[d] # "connected"
      PROVE  Line(e)'
  <2>1. \A c \in 1..MaxConns : wire'[e][c] = wire[e][c]
    BY <1>1, <1>3
  <2>2. conn[e] # "disconnected" =>
          connNo[e] \in 1..MaxConns /\ wire'[e][connNo[e]] = wire[e][connNo[e]]
    BY <1>2, <2>1 DEF ConnectedHasWire
  <2>3. ToSet(outstanding[e]) \subseteq ToSet(outstanding'[e])
    BY <1>1, <1>2
  <2> QED
    BY <1>3, <2>1, <2>2, <2>3 DEF Lines, Line, InFlight
<1>4. ASSUME conn[d] = "connected"
      PROVE  Line(d)'
  <2> DEFINE k == connNo[d]
             r == WritesOf(replies[d])
             s == wire[d][k]
  <2>1. /\ k \in 1..MaxConns /\ s \in Seq(Writes) /\ r \in Seq(Writes)
        /\ InFlight(d) \in Seq(Writes)
    BY <1>4, InFlightType
  <2>2. wire'[d][k] = s \o ws
    BY <1>1, <1>4, <2>1
  <2>3. InFlight(d) = r \o s
    BY DEF InFlight
  <2>4. InFlight(d)' = r \o (s \o ws)
    BY <2>2 DEF InFlight
  <2> HIDE DEF r, s
  <2>5. r \o (s \o ws) = InFlight(d) \o ws
    <3>1. (r \o s) \o ws = r \o (s \o ws)
      <4>1. r \in Seq(Writes) /\ s \in Seq(Writes) /\ ws \in Seq(Writes)
        BY <2>1
      <4> HIDE DEF k
      <4> QED BY <4>1, ConcatAssociative
    <3> QED BY <2>3, <3>1
  <2>6. /\ MessageOnce(InFlight(d))
        /\ \A m \in Messages : MessageWrite(m) \in ToSet(InFlight(d))
                                  => MessageWrite(m) \in ToSet(outstanding[d])
    BY <1>4 DEF Lines, Line
  <2>7. \A w \in Writes : w.node = "messages" => w.msg \in Messages /\ w = MessageWrite(w.msg)
    BY DEF Writes, MessageWrites, IndexWrites, MessageWrite
  <2>8. \A w \in ToSet(InFlight(d)) \cap ToSet(ws) : w.node # "messages"
    <3>1. \A w \in ToSet(ws) : w \in Writes
      BY DEF ToSet
    <3> QED
      BY <2>6, <2>7, <3>1
  <2>9. MessageOnce(InFlight(d) \o ws)
    BY <2>1, <2>6, <2>8, OnceConcat
  <2>10. ToSet(InFlight(d) \o ws) = ToSet(InFlight(d)) \cup ToSet(ws)
    BY <2>1, ToSetConcat
  <2>11. \A c \in 1..MaxConns : c > k => wire'[d][c] = <<>>
    <3>1. \A c \in 1..MaxConns : c > k => wire[d][c] = <<>> /\ c # k
      BY <2>1 DEF Lines, Line
    <3> QED
      BY <1>1, <3>1
  <2> QED
    BY <1>1, <1>4, <2>4, <2>5, <2>6, <2>9, <2>10, <2>11 DEF Line
<1> QED
  BY <1>3, <1>4 DEF Lines

LEMMA RestoreLines ==
  ASSUME FInv, NEW d \in Devices, NEW k \in 1..MaxConns, RestoreState(d, k),
         replies[d] = <<>>, UNCHANGED <<outstanding, replies>>,
         conn' = [conn EXCEPT ![d] = "connected"],
         connNo' = [connNo EXCEPT ![d] = k], k >= connNo[d]
  PROVE  Lines'
<1>1. /\ outstanding \in [Devices -> Seq(Writes)]
      /\ wire \in [Devices -> [1..MaxConns -> Seq(Writes)]]
      /\ Scalars
  BY QueueTypes DEF FInv
<1>2. wire' = [wire EXCEPT ![d] = [wire[d] EXCEPT ![k] = outstanding[d]]]
  BY DEF RestoreState
<1>3. ASSUME NEW e \in Devices, e # d
      PROVE  Line(e)'
  <2>1. UNCHANGED <<conn[e], connNo[e], replies[e], wire[e], outstanding[e]>>
    BY <1>1, <1>2, <1>3 DEF Scalars
  <2> QED
    BY <2>1, LineSame DEF FInv, Lines
<1>4. InFlight(d)' = outstanding[d]
  <2>1. connNo'[d] = k /\ wire'[d][k] = outstanding[d] /\ replies'[d] = <<>>
    BY <1>1, <1>2 DEF Scalars
  <2>2. WritesOf(<<>>) = <<>>
    BY DEF WritesOf
  <2>3. <<>> \o outstanding[d] = outstanding[d]
    BY <1>1, ConcatEmptySeq
  <2> QED
    BY <2>1, <2>2, <2>3 DEF InFlight
<1>5. MessageOnce(outstanding[d])
  BY DEF FInv, OncePlace, Place, Places
<1>6. /\ conn'[d] = "connected" /\ connNo'[d] = k
      /\ \A c \in 1..MaxConns : c > k => wire'[d][c] = <<>>
  <2>1. \A c \in 1..MaxConns : c > k => wire'[d][c] = wire[d][c] /\ c > connNo[d]
    BY <1>1, <1>2 DEF Scalars
  <2> QED
    BY <1>1, <2>1 DEF Scalars, FInv, Lines, Line
<1>7. Line(d)'
  BY <1>4, <1>5, <1>6 DEF Line
<1> QED
  BY <1>3, <1>7 DEF Lines

LEMMA StepLines ==
  ASSUME FInv, [Next]_vars
  PROVE  Lines'
<1>0. /\ IInv /\ Scalars /\ ConnectedHasWire /\ Lines
      /\ outstanding \in [Devices -> Seq(Writes)]
      /\ wire \in [Devices -> [1..MaxConns -> Seq(Writes)]]
      /\ replies \in [Devices -> Seq(Acks)]
  BY QueueTypes DEF FInv
<1>1. CASE UNCHANGED <<conn, connNo, replies, wire, outstanding>>
  BY <1>0, <1>1, LineSame DEF Lines
<1>2. ASSUME NEW d \in Devices, NEW m \in Messages, NEW v \in Users, Send(d, m, v)
      PROVE  Lines'
  <2> DEFINE ws == <<MessageWrite(m)>>
  <2>1. ws \in Seq(Writes) /\ ToSet(ws) = {MessageWrite(m)} /\ MessageOnce(ws)
    BY DEF MessageWrite, Writes, MessageWrites, ToSet, MessageOnce
  <2>2. MessageWrite(m) \notin ToSet(outstanding[d])
    <3>1. ~ Ahead("table", d, m)
      BY <1>0, <1>2, PlaceTypes DEF Places, Send
    <3> QED
      BY <3>1 DEF Ahead, Place
  <2>3. Put(d, ws) /\ UNCHANGED <<conn, connNo, replies>>
    BY <1>2 DEF Send, bounds
  <2> HIDE DEF ws
  <2>4. \A w \in ToSet(ws) : w.node = "messages" => w \notin ToSet(outstanding[d])
    BY <2>1, <2>2
  <2>5. ws \in Seq(Writes) /\ MessageOnce(ws)
    BY <2>1
  <2> QED
    BY <1>0, <2>3, <2>4, <2>5, PutLines
<1>3. ASSUME NEW d \in Devices, FanOut(d)
      PROVE  Lines'
  <2>1. PICK m \in Messages, p \in [from: Users, to: Users], ws \in Seq(Writes) :
           /\ ToSet(ws) = {IndexWrite(p.from, p.to, m), IndexWrite(p.to, p.from, m)}
           /\ Put(d, ws)
    BY <1>0, <1>3, FanOutHolds
  <2>2. \A w \in ToSet(ws) : w.node # "messages"
    BY <2>1 DEF IndexWrite
  <2>3. MessageOnce(ws)
    BY <2>2 DEF MessageOnce, ToSet
  <2>4. UNCHANGED <<conn, connNo, replies>>
    BY <1>3 DEF FanOut, bounds
  <2>5. Put(d, ws)
    BY <2>1
  <2> QED
    BY <1>0, <2>2, <2>3, <2>4, <2>5, PutLines
<1>4. ASSUME NEW d \in Devices, Connect(d)
      PROVE  Lines'
  <2>1. /\ connNo[d] + 1 \in 1..MaxConns /\ connNo[d] + 1 >= connNo[d]
        /\ connNo' = [connNo EXCEPT ![d] = connNo[d] + 1]
        /\ UNCHANGED <<outstanding, replies>> /\ replies[d] = <<>>
    <3>1. /\ connNo[d] < MaxConns /\ connNo[d] \in Nat /\ MaxConns \in Nat
          /\ connNo' = [connNo EXCEPT ![d] = connNo[d] + 1]
          /\ UNCHANGED <<outstanding, replies>> /\ conn[d] = "disconnected"
      BY <1>0, <1>4, BoundsAssumption DEF Connect, Scalars
    <3>2. replies[d] = <<>>
      BY <1>0, <3>1 DEF Lines, Line
    <3> QED
      BY <3>1, <3>2
  <2>2. CASE session[d] = NoUser
    <3>1. /\ conn' = [conn EXCEPT ![d] = "connected"]
          /\ RestoreState(d, connNo[d] + 1)
      BY <1>4, <2>2 DEF Connect
    <3> QED
      BY <2>1, <3>1, RestoreLines
  <2>3. CASE session[d] # NoUser
    <3>1. conn' = [conn EXCEPT ![d] = "authenticating"] /\ wire' = wire
      BY <1>4, <2>3 DEF Connect
    <3>2. \A e \in Devices : e # d => Line(e)'
      BY <1>0, <2>1, <3>1, LineSame DEF Scalars, Lines
    <3>3. /\ conn'[d] = "authenticating" /\ connNo'[d] = connNo[d] + 1
          /\ \A c \in 1..MaxConns : c > connNo[d] => wire'[d][c] = <<>>
      BY <1>0, <2>1, <3>1 DEF Scalars, Lines, Line
    <3>4. Line(d)'
      BY <1>0, <2>1, <3>3 DEF Line, Scalars
    <3> QED
      BY <3>2, <3>4 DEF Lines
  <2> QED
    BY <2>2, <2>3
<1>5. ASSUME NEW d \in Devices, Authenticated(d)
      PROVE  Lines'
  <2>1. /\ connNo[d] \in 1..MaxConns /\ replies[d] = <<>>
        /\ UNCHANGED <<outstanding, replies>>
        /\ conn' = [conn EXCEPT ![d] = "connected"]
        /\ connNo' = connNo
        /\ RestoreState(d, connNo[d])
    BY <1>0, <1>5 DEF Authenticated, ConnectedHasWire, bounds, Lines, Line
  <2>2. connNo' = [connNo EXCEPT ![d] = connNo[d]] /\ connNo[d] >= connNo[d]
    BY <1>0, <2>1 DEF Scalars
  <2> QED
    BY <2>1, <2>2, RestoreLines
<1>6. ASSUME NEW d \in Devices, Disconnect(d) \/ Crash(d)
      PROVE  Lines'
  <2>1. /\ conn' = [conn EXCEPT ![d] = "disconnected"]
        /\ replies' = [replies EXCEPT ![d] = <<>>]
        /\ connNo' = connNo
        /\ \A e \in Devices : e # d => outstanding'[e] = outstanding[e]
    BY <1>0, <1>6 DEF Disconnect, Crash, bounds
  <2>2. \/ wire' = wire
        \/ connNo[d] \in 1..MaxConns /\ \E n \in 0..Len(wire[d][connNo[d]]) : CutWire(d, n)
    BY <1>0, <1>6 DEF Disconnect, Crash, ConnectedHasWire, Connected
  <2>3. \A e \in Devices, c \in 1..MaxConns :
           e # d \/ c # connNo[d] => wire'[e][c] = wire[e][c]
    BY <1>0, <2>2 DEF CutWire
  <2>4. \A e \in Devices : e # d => wire'[e] = wire[e]
    BY <1>0, <2>2 DEF CutWire
  <2>5. \A e \in Devices : e # d => Line(e)'
    BY <1>0, <2>1, <2>4, LineSame DEF Scalars, Lines
  <2>6. /\ conn'[d] = "disconnected" /\ replies'[d] = <<>>
        /\ \A c \in 1..MaxConns : c > connNo[d] => wire'[d][c] = <<>>
    <3>1. \A c \in 1..MaxConns : c > connNo[d] => wire[d][c] = <<>> /\ c # connNo[d]
      BY <1>0 DEF Lines, Line, Scalars
    <3>2. conn'[d] = "disconnected" /\ replies'[d] = <<>>
      BY <1>0, <2>1 DEF Scalars
    <3> QED
      BY <2>3, <3>1, <3>2
  <2>7. Line(d)'
    BY <2>1, <2>6 DEF Line
  <2> QED
    BY <2>5, <2>7 DEF Lines
<1>7. ASSUME NEW d \in Devices, ReceiveAck(d)
      PROVE  Lines'
  <2>1. PICK a \in SoundAcks :
           /\ a = Head(replies[d]) /\ replies[d] # <<>>
           /\ replies' = [replies EXCEPT ![d] = Tail(replies[d])]
           /\ outstanding' = [outstanding EXCEPT ![d] = Without(outstanding[d], a.write)]
    BY <1>0, <1>7, AckHolds
  <2>2. UNCHANGED <<conn, connNo, wire>>
    BY <1>7 DEF ReceiveAck, bounds
  <2>3. \A e \in Devices : e # d => Line(e)'
    BY <1>0, <2>1, <2>2, LineSame DEF Lines
  <2>4. conn[d] = "connected"
    BY <1>0, <2>1 DEF Lines, Line
  <2> DEFINE f == InFlight(d)
             r == WritesOf(replies[d])
             s == wire[d][connNo[d]]
             t == outstanding[d]
  <2>5. /\ f \in Seq(Writes) /\ r \in Seq(Writes) /\ s \in Seq(Writes) /\ t \in Seq(Writes)
        /\ MessageOnce(f)
        /\ \A m \in Messages : MessageWrite(m) \in ToSet(f) => MessageWrite(m) \in ToSet(t)
    BY <1>0, <2>4, InFlightType DEF Lines, Line
  <2>6. r # <<>> /\ Head(r) = a.write /\ WritesOf(Tail(replies[d])) = Tail(r)
    BY <1>0, <2>1, WritesOfTail
  <2>7. f = r \o s
    BY DEF InFlight
  <2>8. InFlight(d)' = Tail(r) \o s
    BY <1>0, <2>1, <2>2, <2>6 DEF InFlight
  <2> HIDE DEF f, r, s, t
  <2>9. f # <<>> /\ Head(f) = Head(r) /\ Tail(f) = Tail(r) \o s
    BY <2>5, <2>6, <2>7, HeadTailConcat
  <2>10. /\ MessageOnce(Tail(f)) /\ ToSet(Tail(f)) \subseteq ToSet(f)
         /\ Head(f).node = "messages" => Head(f) \notin ToSet(Tail(f))
    BY <2>5, <2>9, OnceTail, ToSetTail
  <2>11. ToSet(t) \subseteq {a.write} \cup ToSet(Without(t, a.write))
    BY <2>5, ToSetWithout
  <2>12. ASSUME NEW m \in Messages, MessageWrite(m) \in ToSet(Tail(f))
         PROVE  MessageWrite(m) \in ToSet(Without(t, a.write))
    <3>1. MessageWrite(m) # a.write
      BY <2>6, <2>9, <2>10, <2>12 DEF MessageWrite
    <3> QED
      BY <2>5, <2>10, <2>11, <2>12, <3>1
  <2>13. outstanding'[d] = Without(t, a.write)
    BY <1>0, <2>1 DEF t
  <2>14. Line(d)'
    BY <1>0, <2>2, <2>4, <2>8, <2>9, <2>10, <2>12, <2>13 DEF Line, Lines
  <2> QED
    BY <2>3, <2>14 DEF Lines
<1>8. ASSUME NEW d \in Devices, NEW c \in 1..MaxConns, Serve(d, c)
      PROVE  Lines'
  <2>1. PICK w \in Writes, status \in Statuses :
           /\ wire[d][c] # <<>> /\ w = Head(wire[d][c])
           /\ replies' = IF c = connNo[d] /\ Connected(d)
                         THEN [replies EXCEPT ![d] =
                                 Append(@, [write |-> w, status |-> status])]
                         ELSE replies
           /\ wire' = [wire EXCEPT ![d][c] = Tail(@)]
    <3>1. wire[d][c] \in Seq(Writes) /\ wire[d][c] # <<>>
      BY <1>0, <1>8 DEF Serve
    <3>2. Head(wire[d][c]) \in Writes
      BY <3>1
    <3>3. Verdicts(Head(wire[d][c])) \subseteq Statuses
      BY DEF Verdicts, Statuses
    <3> QED
      BY <1>8, <3>1, <3>2, <3>3 DEF Serve
  <2>2. UNCHANGED <<conn, connNo, outstanding>>
    BY <1>8 DEF Serve, bounds
  <2>3. \A e \in Devices, k \in 1..MaxConns :
           wire'[e][k] = IF e = d /\ k = c THEN Tail(wire[d][c]) ELSE wire[e][k]
    BY <1>0, <2>1
  <2>4. \A e \in Devices : e # d => Line(e)'
    BY <1>0, <2>1, <2>2, LineSame DEF Lines
  <2>5. /\ ~ (c > connNo[d])
        /\ ~ (conn[d] = "authenticating" /\ c = connNo[d])
    BY <1>0, <2>1 DEF Lines, Line
  <2>6. \A k \in 1..MaxConns : k > connNo[d] => wire'[d][k] = <<>>
    BY <1>0, <2>3, <2>5 DEF Lines, Line, Scalars
  <2>7. CASE c = connNo[d] /\ conn[d] = "connected"
    <3> DEFINE ack == [write |-> w, status |-> status]
               r == WritesOf(replies[d])
               s == wire[d][c]
    <3>1. ack \in Acks /\ replies[d] \in Seq(Acks) /\ replies'[d] = Append(replies[d], ack)
      BY <1>0, <2>1, <2>7 DEF Acks, Connected
    <3> HIDE DEF ack
    <3>2. replies'[d] = replies[d] \o <<ack>> /\ <<ack>> \in Seq(Acks)
      BY <3>1
    <3>3. WritesOf(replies'[d]) = r \o WritesOf(<<ack>>)
      BY <3>1, <3>2, WritesOfConcat
    <3>4. WritesOf(<<ack>>) = <<w>>
      BY DEF WritesOf, ack
    <3>5. r \in Seq(Writes) /\ s \in Seq(Writes) /\ s # <<>> /\ w = Head(s)
      BY <1>0, <2>1, <2>7, InFlightType
    <3>6. wire'[d][c] = Tail(s)
      BY <2>3
    <3> HIDE DEF r, s
    <3>7. <<w>> \in Seq(Writes) /\ Tail(s) \in Seq(Writes) /\ <<w>> \o Tail(s) = s
      BY <3>5
    <3>8. (r \o <<w>>) \o Tail(s) = r \o s
      BY <3>5, <3>7, ConcatAssociative
    <3>9. InFlight(d)' = InFlight(d)
      BY <2>2, <2>7, <3>3, <3>4, <3>6, <3>8 DEF InFlight, r, s
    <3>10. Line(d)'
      BY <1>0, <2>2, <2>6, <2>7, <3>9 DEF Line, Lines
    <3> QED
      BY <2>4, <3>10 DEF Lines
  <2>8. CASE ~ (c = connNo[d] /\ conn[d] = "connected")
    <3>1. replies' = replies
      BY <1>0, <2>1, <2>5, <2>8 DEF Connected
    <3>2. conn[d] = "connected" => connNo[d] \in 1..MaxConns /\ c # connNo[d]
      BY <1>0, <2>8 DEF ConnectedHasWire
    <3>3. conn[d] = "connected" => InFlight(d)' = InFlight(d)
      BY <2>2, <2>3, <3>1, <3>2 DEF InFlight
    <3>4. conn[d] = "authenticating" => wire'[d][connNo[d]] = <<>>
      BY <1>0, <2>3, <2>5 DEF ConnectedHasWire, Lines, Line
    <3>5. Line(d)'
      BY <1>0, <2>2, <2>6, <3>1, <3>3, <3>4 DEF Line, Lines
    <3> QED
      BY <2>4, <3>5 DEF Lines
  <2> QED
    BY <2>7, <2>8
<1>9. CASE UNCHANGED vars
  BY <1>1, <1>9 DEF vars, client, bounds
<1> QED
  BY <1>1, <1>2, <1>3, <1>4, <1>5, <1>6, <1>7, <1>8, <1>9
  DEF Next, SignIn, SignOut, StartRead, EndRead, ReceiveListenReply, RevokeListen,
      client, bounds

\* A step that moves no message to a new place and adds to no fan-out.
LEMMA PlacesShrink ==
  ASSUME OnePlace, NotBoth,
         \A m \in Messages, d \in Devices, p \in Places : Ahead(p, d, m)' => Ahead(p, d, m),
         \A m \in Messages : FannedOut(m)' => FannedOut(m)
  PROVE  OnePlace' /\ NotBoth'
<1>1. OnePlace'
  BY DEF OnePlace
<1>2. NotBoth'
  BY DEF NotBoth
<1> QED
  BY <1>1, <1>2

\* The three places of a phone, spelled out.
LEMMA PlacesAre ==
  ASSUME NEW d \in Devices
  PROVE  /\ Place("table", d) = outstanding[d]
         /\ Place("held", d) = WritesOf(putsToAck[d])
         /\ Place("queue", d) = WritesOf(mainQueue[d])
         /\ Place("table", d)' = outstanding'[d]
         /\ Place("held", d)' = WritesOf(putsToAck'[d])
         /\ Place("queue", d)' = WritesOf(mainQueue'[d])
BY DEF Place

Apart == OnePlace /\ OncePlace /\ NotBoth

LEMMA SendApart ==
  ASSUME FInv, NEW d \in Devices, NEW k \in Messages, NEW v \in Users, Send(d, k, v)
  PROVE  Apart'
<1> DEFINE ws == <<MessageWrite(k)>>
<1>1. ws \in Seq(Writes) /\ ToSet(ws) = {MessageWrite(k)} /\ MessageOnce(ws)
  BY DEF MessageWrite, Writes, MessageWrites, ToSet, MessageOnce
<1>2. Put(d, ws) /\ UNCHANGED <<putsToAck, mainQueue, userMessages>> /\ ~ Box!Sent(k)
  BY DEF Send, server
<1> HIDE DEF ws
<1>3. /\ IInv /\ outstanding \in [Devices -> Seq(Writes)]
  BY QueueTypes DEF FInv
<1>4. /\ outstanding' = [outstanding EXCEPT ![d] = outstanding[d] \o ws]
      /\ ToSet(outstanding'[d]) = ToSet(outstanding[d]) \cup {MessageWrite(k)}
      /\ \A e \in Devices, c \in 1..MaxConns :
            ToSet(wire'[e][c]) \subseteq ToSet(wire[e][c]) \cup {MessageWrite(k)}
  <2>1. ws \in Seq(Writes)
    BY <1>1
  <2>2. /\ outstanding' = [outstanding EXCEPT ![d] = outstanding[d] \o ws]
        /\ ToSet(outstanding'[d]) = ToSet(outstanding[d]) \cup ToSet(ws)
        /\ \A e \in Devices, c \in 1..MaxConns :
              ToSet(wire'[e][c]) \subseteq ToSet(wire[e][c]) \cup ToSet(ws)
    BY <1>2, <1>3, <2>1, PutHolds
  <2> QED
    BY <1>1, <2>2
<1>5. \A e \in Devices, p \in Places : e # d \/ p # "table" => Place(p, e)' = Place(p, e)
  BY <1>2, <1>3, <1>4 DEF Places, Place
<1>6. /\ Place("table", d)' = Place("table", d) \o ws
      /\ \A m \in Messages : Ahead("table", d, m)' => m = k \/ Ahead("table", d, m)
  <2>1. \A m \in Messages : MessageWrite(m) = MessageWrite(k) => m = k
    BY DEF MessageWrite
  <2>2. Place("table", d)' = Place("table", d) \o ws
    BY <1>3, <1>4, PlacesAre
  <2> QED
    BY <1>4, <2>1, <2>2, PlacesAre DEF Ahead
<1>7. /\ \A e \in Devices, p \in Places : ~ Ahead(p, e, k)
      /\ ~ FannedOut(k)
  BY <1>2, <1>3, PlaceTypes, FannedSent
<1>8. ASSUME NEW m \in Messages, FannedOut(m)'
      PROVE  FannedOut(m)
  <2>1. \A u, v1 \in Users : IndexWrite(u, v1, m) # MessageWrite(k)
    BY DEF IndexWrite, MessageWrite
  <2>2. \A e \in Devices, u, v1 \in Users :
           IndexWrite(u, v1, m) \in ToSet(outstanding'[e])
             => IndexWrite(u, v1, m) \in ToSet(outstanding[e])
    BY <1>3, <1>4, <2>1
  <2>3. \A e \in Devices, c \in 1..MaxConns, u, v1 \in Users :
           IndexWrite(u, v1, m) \in ToSet(wire'[e][c])
             => IndexWrite(u, v1, m) \in ToSet(wire[e][c])
    BY <1>4, <2>1
  <2> QED
    BY <1>2, <1>8, <2>2, <2>3, FannedShrinks
<1>9. OncePlace'
  <2>1. Place("table", d) \in Seq(Writes)
    BY <1>3, PlaceTypes DEF Places
  <2>2. \A e \in Devices, p \in Places : MessageOnce(Place(p, e))
    BY DEF FInv, OncePlace
  <2>3. ToSet(Place("table", d)) \cap ToSet(ws) = {}
    BY <1>1, <1>7 DEF Ahead, Places
  <2>4. MessageOnce(Place("table", d) \o ws)
    BY <1>1, <2>1, <2>2, <2>3, OnceConcat DEF Places
  <2> QED
    BY <1>5, <1>6, <2>2, <2>4 DEF OncePlace
<1>10. \A m \in Messages, e \in Devices, p \in Places :
          Ahead(p, e, m)' => Ahead(p, e, m) \/ (m = k /\ e = d /\ p = "table")
  BY <1>5, <1>6 DEF Ahead
<1>11. OnePlace'
  BY <1>7, <1>10 DEF FInv, OnePlace
<1>12. NotBoth'
  BY <1>7, <1>8, <1>10 DEF FInv, NotBoth
<1> QED
  BY <1>9, <1>11, <1>12 DEF Apart

LEMMA FanOutApart ==
  ASSUME FInv, NEW d \in Devices, FanOut(d)
  PROVE  Apart'
<1>1. PICK k \in Messages, p \in [from: Users, to: Users], ws \in Seq(Writes) :
         /\ mainQueue[d] # <<>> /\ Head(mainQueue[d]).write = MessageWrite(k)
         /\ ToSet(ws) = {IndexWrite(p.from, p.to, k), IndexWrite(p.to, p.from, k)}
         /\ Put(d, ws)
         /\ mainQueue' = [mainQueue EXCEPT ![d] = Tail(mainQueue[d])]
  BY FanOutHolds DEF FInv
<1>2. /\ IInv /\ outstanding \in [Devices -> Seq(Writes)]
      /\ mainQueue \in [Devices -> Seq(Acks)]
      /\ UNCHANGED <<putsToAck, userMessages>>
  BY QueueTypes DEF FInv, FanOut, server
<1>3. /\ outstanding' = [outstanding EXCEPT ![d] = outstanding[d] \o ws]
      /\ ToSet(outstanding'[d]) = ToSet(outstanding[d]) \cup ToSet(ws)
      /\ \A e \in Devices, c \in 1..MaxConns :
            ToSet(wire'[e][c]) \subseteq ToSet(wire[e][c]) \cup ToSet(ws)
  BY <1>1, <1>2, PutHolds
<1>4. \A w \in ToSet(ws) : w.node # "messages" /\ w.msg = k
  BY <1>1 DEF IndexWrite
<1>5. \A e \in Devices, q \in Places :
         (e # d \/ q = "held") => Place(q, e)' = Place(q, e)
  BY <1>1, <1>2, <1>3 DEF Places, Place
<1>6. /\ Place("table", d)' = Place("table", d) \o ws
      /\ \A m \in Messages : Ahead("table", d, m)' => Ahead("table", d, m)
  <2>1. \A m \in Messages : MessageWrite(m).node = "messages"
    BY DEF MessageWrite
  <2>2. Place("table", d)' = Place("table", d) \o ws
    BY <1>2, <1>3, PlacesAre
  <2> QED
    BY <1>3, <1>4, <2>1, <2>2, PlacesAre DEF Ahead
<1>7. /\ Place("queue", d) # <<>> /\ Head(Place("queue", d)) = MessageWrite(k)
      /\ Place("queue", d)' = Tail(Place("queue", d))
      /\ Place("queue", d) \in Seq(Writes) /\ Place("table", d) \in Seq(Writes)
  <2>1. mainQueue[d] \in Seq(Acks) /\ mainQueue'[d] = Tail(mainQueue[d])
    BY <1>1, <1>2
  <2>2. Place("queue", d) \in Seq(Writes) /\ Place("table", d) \in Seq(Writes)
    BY <1>2, PlaceTypes DEF Places
  <2> QED
    BY <1>1, <2>1, <2>2, WritesOfTail, PlacesAre
<1>8. /\ Ahead("queue", d, k) /\ MessageOnce(Tail(Place("queue", d)))
      /\ MessageWrite(k) \notin ToSet(Tail(Place("queue", d)))
      /\ ToSet(Tail(Place("queue", d))) \subseteq ToSet(Place("queue", d))
  <2>1. MessageOnce(Place("queue", d)) /\ MessageWrite(k).node = "messages"
    BY DEF FInv, OncePlace, Places, MessageWrite
  <2> QED
    BY <1>7, <2>1, OnceTail, ToSetTail DEF Ahead
<1>9. \A m \in Messages, e \in Devices, q \in Places : Ahead(q, e, m)' => Ahead(q, e, m)
  BY <1>5, <1>6, <1>7, <1>8 DEF Ahead, Places
<1>10. \A e \in Devices, q \in Places : ~ Ahead(q, e, k)'
  <2>1. ~ Ahead("queue", d, k)'
    BY <1>7, <1>8 DEF Ahead
  <2>2. \A e \in Devices, q \in Places : Ahead(q, e, k) => e = d /\ q = "queue"
    BY <1>8 DEF FInv, OnePlace, Places
  <2> QED
    BY <1>9, <2>1, <2>2
<1>11. ASSUME NEW m \in Messages, m # k, FannedOut(m)'
       PROVE  FannedOut(m)
  <2>1. \A u, v \in Users : IndexWrite(u, v, m) \notin ToSet(ws)
    BY <1>4, <1>11 DEF IndexWrite
  <2>2. \A e \in Devices, u, v \in Users :
           IndexWrite(u, v, m) \in ToSet(outstanding'[e])
             => IndexWrite(u, v, m) \in ToSet(outstanding[e])
    BY <1>2, <1>3, <2>1
  <2>3. \A e \in Devices, c \in 1..MaxConns, u, v \in Users :
           IndexWrite(u, v, m) \in ToSet(wire'[e][c])
             => IndexWrite(u, v, m) \in ToSet(wire[e][c])
    BY <1>3, <2>1
  <2> QED
    BY <1>2, <1>11, <2>2, <2>3, FannedShrinks
<1>12. OncePlace'
  <2>1. \A e \in Devices, q \in Places : MessageOnce(Place(q, e))
    BY DEF FInv, OncePlace
  <2>2. MessageOnce(ws)
    BY <1>4 DEF MessageOnce, ToSet
  <2>3. MessageOnce(Place("table", d) \o ws)
    BY <1>4, <1>7, <2>1, <2>2, OnceConcat DEF Places
  <2> QED
    BY <1>5, <1>6, <1>7, <1>8, <2>1, <2>3 DEF OncePlace, Places
<1>13. OnePlace'
  BY <1>9 DEF FInv, OnePlace
<1>14. NotBoth'
  BY <1>9, <1>10, <1>11 DEF FInv, NotBoth
<1> QED
  BY <1>12, <1>13, <1>14 DEF Apart

LEMMA AckApart ==
  ASSUME FInv, NEW d \in Devices, ReceiveAck(d)
  PROVE  Apart'
<1>1. /\ IInv /\ outstanding \in [Devices -> Seq(Writes)]
      /\ putsToAck \in [Devices -> Seq(Acks)]
      /\ mainQueue \in [Devices -> Seq(Acks)]
      /\ replies \in [Devices -> Seq(Acks)]
  BY QueueTypes DEF FInv
<1>2. PICK a \in SoundAcks :
         /\ a = Head(replies[d]) /\ replies[d] # <<>>
         /\ outstanding' = [outstanding EXCEPT ![d] = Without(outstanding[d], a.write)]
         /\ a.write.node # "messages" => putsToAck' = putsToAck /\ mainQueue' = mainQueue
         /\ a.write.node = "messages" =>
              \/ /\ putsToAck' = [putsToAck EXCEPT ![d] = putsToAck[d] \o <<a>>]
                 /\ mainQueue' = mainQueue
              \/ /\ mainQueue' = [mainQueue EXCEPT ![d] = mainQueue[d] \o <<a>>]
                 /\ putsToAck' = putsToAck
  BY <1>1, AckHolds
<1>3. UNCHANGED <<wire, userMessages>>
  BY DEF ReceiveAck, server
<1> DEFINE w == a.write
           t == outstanding[d]
<1>4. /\ a \in Acks /\ w \in Writes
      /\ w.node = "messages" => w.msg \in Messages /\ w = MessageWrite(w.msg)
  BY DEF SoundAcks, SoundWrites, Writes, MessageWrites, IndexWrites, MessageWrite
<1>5. /\ t \in Seq(Writes) /\ MessageOnce(t) /\ Place("table", d) = t
      /\ Place("table", d)' = Without(t, w)
  BY <1>1, <1>2, PlacesAre DEF FInv, OncePlace, Places
<1>6. /\ ToSet(Without(t, w)) \subseteq ToSet(t)
      /\ MessageOnce(Without(t, w))
      /\ w.node = "messages" => w \notin ToSet(Without(t, w))
  BY <1>5, ToSetWithout, OnceWithout
<1>7. w.node = "messages" => w \in ToSet(t)
  <2>1. conn[d] = "connected"
    BY <1>2 DEF FInv, Lines, Line
  <2>2. w \in ToSet(WritesOf(replies[d]))
    <3>1. /\ replies[d] \in Seq(Acks) /\ WritesOf(replies[d]) # <<>>
          /\ Head(WritesOf(replies[d])) = w
      BY <1>1, <1>2, WritesOfTail
    <3>2. WritesOf(replies[d]) \in Seq(Writes)
      BY <3>1, WritesOfType
    <3> QED
      BY <3>1, <3>2, ToSetTail
  <2>3. w \in ToSet(InFlight(d))
    BY <1>1, <2>1, <2>2, InFlightType
  <2> QED
    BY <1>4, <2>1, <2>3 DEF FInv, Lines, Line
<1>8. \A m \in Messages : FannedOut(m)' => FannedOut(m)
  <2>1. \A e \in Devices : ToSet(outstanding'[e]) \subseteq ToSet(outstanding[e])
    BY <1>1, <1>2, <1>6
  <2> QED
    BY <1>3, <2>1 DEF FannedOut
<1> HIDE DEF w, t
<1>9. CASE w.node # "messages"
  <2>1. \A e \in Devices, p \in Places : e # d \/ p # "table" => Place(p, e)' = Place(p, e)
    BY <1>1, <1>2, <1>9 DEF Places, Place, w
  <2>2. \A m \in Messages, e \in Devices, p \in Places : Ahead(p, e, m)' => Ahead(p, e, m)
    BY <1>5, <1>6, <2>1 DEF Ahead
  <2>3. OncePlace'
    BY <1>5, <1>6, <2>1 DEF FInv, OncePlace
  <2> QED
    BY <1>8, <2>2, <2>3, PlacesShrink DEF FInv, Apart
<1>10. CASE w.node = "messages"
  <2>1. PICK q \in {"held", "queue"} :
           /\ Place(q, d)' = Place(q, d) \o <<w>>
           /\ \A e \in Devices, p \in Places :
                 e # d \/ p \notin {"table", q} => Place(p, e)' = Place(p, e)
    <3> DEFINE one == <<a>>
    <3>1. one \in Seq(Acks) /\ WritesOf(one) = <<w>>
      BY <1>4 DEF WritesOf, w
    <3>2. putsToAck[d] \in Seq(Acks) /\ mainQueue[d] \in Seq(Acks)
      BY <1>1
    <3>3. \/ /\ putsToAck' = [putsToAck EXCEPT ![d] = putsToAck[d] \o one]
             /\ mainQueue' = mainQueue
          \/ /\ mainQueue' = [mainQueue EXCEPT ![d] = mainQueue[d] \o one]
             /\ putsToAck' = putsToAck
      BY <1>2, <1>10 DEF w
    <3> HIDE DEF one
    <3>4. /\ WritesOf(putsToAck[d] \o one) = WritesOf(putsToAck[d]) \o <<w>>
          /\ WritesOf(mainQueue[d] \o one) = WritesOf(mainQueue[d]) \o <<w>>
      BY <3>1, <3>2, WritesOfConcat
    <3>5. CASE /\ putsToAck' = [putsToAck EXCEPT ![d] = putsToAck[d] \o one]
               /\ mainQueue' = mainQueue
      <4>1. Place("held", d)' = Place("held", d) \o <<w>>
        BY <1>1, <3>4, <3>5, PlacesAre
      <4>2. \A e \in Devices, p \in Places :
               e # d \/ p \notin {"table", "held"} => Place(p, e)' = Place(p, e)
        BY <1>1, <1>2, <3>5 DEF Places, Place
      <4> QED
        BY <4>1, <4>2
    <3>6. CASE /\ mainQueue' = [mainQueue EXCEPT ![d] = mainQueue[d] \o one]
               /\ putsToAck' = putsToAck
      <4>1. Place("queue", d)' = Place("queue", d) \o <<w>>
        BY <1>1, <3>4, <3>6, PlacesAre
      <4>2. \A e \in Devices, p \in Places :
               e # d \/ p \notin {"table", "queue"} => Place(p, e)' = Place(p, e)
        BY <1>1, <1>2, <3>6 DEF Places, Place
      <4> QED
        BY <4>1, <4>2
    <3> QED
      BY <3>3, <3>5, <3>6
  <2> DEFINE k == w.msg
             one == <<w>>
  <2>2. /\ Ahead("table", d, k) /\ k \in Messages /\ w = MessageWrite(k)
        /\ ~ Ahead("table", d, k)'
    BY <1>4, <1>5, <1>6, <1>7, <1>10 DEF Ahead
  <2>3. one \in Seq(Writes) /\ ToSet(one) = {w} /\ MessageOnce(one)
    BY <1>4 DEF ToSet, MessageOnce, w
  <2>4. Place(q, d) \in Seq(Writes) /\ MessageOnce(Place(q, d))
    BY <1>1, PlaceTypes DEF FInv, OncePlace, Places
  <2>5. w \notin ToSet(Place(q, d))
    <3>1. ~ Ahead(q, d, k)
      BY <2>2 DEF FInv, OnePlace, Places
    <3> QED
      BY <2>2, <3>1 DEF Ahead
  <2>6. Place(q, d)' = Place(q, d) \o one
    BY <2>1
  <2>7. /\ MessageOnce(Place(q, d) \o one)
        /\ ToSet(Place(q, d) \o one) = ToSet(Place(q, d)) \cup {w}
    <3> HIDE DEF one
    <3>1. ToSet(Place(q, d)) \cap ToSet(one) = {}
      BY <2>3, <2>5
    <3>2. one \in Seq(Writes) /\ MessageOnce(one)
      BY <2>3
    <3>3. MessageOnce(Place(q, d) \o one)
      BY <2>4, <3>1, <3>2, OnceConcat
    <3>4. ToSet(Place(q, d) \o one) = ToSet(Place(q, d)) \cup ToSet(one)
      BY <2>4, <3>2, ToSetConcat
    <3> QED
      BY <2>3, <3>3, <3>4
  <2> HIDE DEF one
  <2>8. \A m \in Messages : MessageWrite(m) = w => m = k
    BY <2>2 DEF MessageWrite
  <2> HIDE DEF k
  <2>9. \A m \in Messages, e \in Devices, p \in Places :
           Ahead(p, e, m)' => Ahead(p, e, m) \/ (m = k /\ e = d /\ p = q)
    <3>1. ASSUME NEW m \in Messages, NEW e \in Devices, NEW p \in Places, Ahead(p, e, m)'
          PROVE  Ahead(p, e, m) \/ (m = k /\ e = d /\ p = q)
      <4>1. CASE e # d \/ p \notin {"table", q}
        BY <2>1, <3>1, <4>1 DEF Ahead
      <4>2. CASE e = d /\ p = "table"
        BY <1>5, <1>6, <3>1, <4>2 DEF Ahead
      <4>3. CASE e = d /\ p = q
        BY <2>6, <2>7, <2>8, <3>1, <4>3 DEF Ahead
      <4> QED
        BY <4>1, <4>2, <4>3
    <3> QED
      BY <3>1
  <2>10. \A e \in Devices, p \in Places : Ahead(p, e, k) => e = d /\ p = "table"
    BY <2>2 DEF FInv, OnePlace, Places
  <2>11. OnePlace'
    BY <2>2, <2>9, <2>10 DEF FInv, OnePlace
  <2>12. NotBoth'
    BY <1>8, <2>2, <2>9 DEF FInv, NotBoth, Places
  <2>13. OncePlace'
    BY <1>5, <1>6, <2>1, <2>6, <2>7 DEF FInv, OncePlace, Places
  <2> QED
    BY <2>11, <2>12, <2>13 DEF Apart
<1> QED
  BY <1>9, <1>10

LEMMA ListenReplyApart ==
  ASSUME FInv, NEW d \in Devices, ReceiveListenReply(d)
  PROVE  Apart'
<1>1. /\ IInv /\ putsToAck \in [Devices -> Seq(Acks)]
      /\ mainQueue \in [Devices -> Seq(Acks)]
      /\ UNCHANGED <<outstanding, wire, userMessages>>
  BY QueueTypes DEF FInv, ReceiveListenReply, server
<1>2. \A m \in Messages : FannedOut(m)' <=> FannedOut(m)
  BY <1>1 DEF FannedOut
<1>3. CASE unacked[d] # 1
  <2>1. UNCHANGED <<putsToAck, mainQueue>>
    BY <1>3 DEF ReceiveListenReply
  <2>2. \A e \in Devices, p \in Places : Place(p, e)' = Place(p, e)
    BY <1>1, <2>1 DEF Places, Place
  <2> QED
    BY <1>2, <2>2 DEF FInv, OnePlace, OncePlace, NotBoth, Ahead, Apart
<1>4. CASE unacked[d] = 1
  <2> DEFINE held == Place("held", d)
             queue == Place("queue", d)
  <2>1. /\ mainQueue' = [mainQueue EXCEPT ![d] = mainQueue[d] \o putsToAck[d]]
        /\ putsToAck' = [putsToAck EXCEPT ![d] = <<>>]
    BY <1>4 DEF ReceiveListenReply
  <2>2. /\ held \in Seq(Writes) /\ queue \in Seq(Writes)
        /\ MessageOnce(held) /\ MessageOnce(queue)
    BY <1>1, PlaceTypes DEF FInv, OncePlace, Places
  <2>3. Place("queue", d)' = queue \o held
    <3>1. mainQueue[d] \in Seq(Acks) /\ putsToAck[d] \in Seq(Acks)
      BY <1>1
    <3>2. WritesOf(mainQueue[d] \o putsToAck[d])
            = WritesOf(mainQueue[d]) \o WritesOf(putsToAck[d])
      BY <3>1, WritesOfConcat
    <3> QED
      BY <1>1, <2>1, <3>2, PlacesAre
  <2>4. Place("held", d)' = <<>>
    BY <1>1, <2>1, PlacesAre DEF WritesOf
  <2>5. \A e \in Devices, p \in Places : e # d \/ p = "table" => Place(p, e)' = Place(p, e)
    BY <1>1, <2>1 DEF Places, Place
  <2>6. \A m \in Messages : ~ (Ahead("held", d, m) /\ Ahead("queue", d, m))
    BY DEF FInv, OnePlace, Places
  <2>7. \A w \in Writes : w.node = "messages" => w.msg \in Messages /\ w = MessageWrite(w.msg)
    BY DEF Writes, MessageWrites, IndexWrites, MessageWrite
  <2>8. \A w \in ToSet(queue) \cap ToSet(held) : w.node # "messages"
    <3>1. \A w \in ToSet(held) : w \in Writes
      BY <2>2 DEF ToSet
    <3> QED
      BY <2>6, <2>7, <3>1 DEF Ahead
  <2> HIDE DEF held, queue
  <2>9. /\ MessageOnce(queue \o held)
        /\ ToSet(queue \o held) = ToSet(queue) \cup ToSet(held)
    BY <2>2, <2>8, OnceConcat, ToSetConcat
  <2>10. /\ \A m \in Messages : ~ Ahead("held", d, m)'
         /\ \A m \in Messages :
               Ahead("queue", d, m)' => Ahead("queue", d, m) \/ Ahead("held", d, m)
         /\ \A m \in Messages, e \in Devices, p \in Places :
               e # d \/ p = "table" => (Ahead(p, e, m)' <=> Ahead(p, e, m))
    <3>1. ToSet(<<>>) = {}
      BY DEF ToSet
    <3>2. \A m \in Messages : ~ Ahead("held", d, m)'
      BY <2>4, <3>1 DEF Ahead
    <3>3. \A m \in Messages :
             Ahead("queue", d, m)' => Ahead("queue", d, m) \/ Ahead("held", d, m)
      BY <2>3, <2>9 DEF Ahead, held, queue
    <3>4. \A m \in Messages, e \in Devices, p \in Places :
             e # d \/ p = "table" => (Ahead(p, e, m)' <=> Ahead(p, e, m))
      BY <2>5 DEF Ahead
    <3> QED
      BY <3>2, <3>3, <3>4
  <2>11. OnePlace'
    BY <2>10 DEF FInv, OnePlace, Places
  <2>12. NotBoth'
    BY <1>2, <2>10 DEF FInv, NotBoth, Places
  <2>13. OncePlace'
    <3>1. MessageOnce(<<>>)
      BY DEF MessageOnce
    <3> QED
      BY <2>3, <2>4, <2>5, <2>9, <3>1 DEF FInv, OncePlace, Places
  <2> QED
    BY <2>11, <2>12, <2>13 DEF Apart
<1> QED
  BY <1>3, <1>4

\* A process that dies takes its tables and queues with it.
LEMMA CrashApart ==
  ASSUME FInv, NEW d \in Devices, Crash(d)
  PROVE  Apart'
<1>1. /\ IInv /\ outstanding \in [Devices -> Seq(Writes)]
      /\ putsToAck \in [Devices -> Seq(Acks)] /\ mainQueue \in [Devices -> Seq(Acks)]
      /\ wire \in [Devices -> [1..MaxConns -> Seq(Writes)]] /\ ConnectedHasWire
  BY QueueTypes DEF FInv
<1>2. /\ outstanding' = [outstanding EXCEPT ![d] = <<>>]
      /\ putsToAck' = [putsToAck EXCEPT ![d] = <<>>]
      /\ mainQueue' = [mainQueue EXCEPT ![d] = <<>>]
      /\ userMessages' = userMessages
  BY DEF Crash, server
<1>3. \A p \in Places : Place(p, d)' = <<>>
  BY <1>1, <1>2 DEF Places, Place, WritesOf
<1>4. \A e \in Devices, p \in Places : e # d => Place(p, e)' = Place(p, e)
  BY <1>1, <1>2 DEF Places, Place
<1>5. ToSet(<<>>) = {} /\ MessageOnce(<<>>)
  BY DEF ToSet, MessageOnce
<1>6. \A m \in Messages, e \in Devices, p \in Places : Ahead(p, e, m)' => Ahead(p, e, m)
  BY <1>3, <1>4, <1>5 DEF Ahead
<1>7. OncePlace'
  BY <1>3, <1>4, <1>5 DEF FInv, OncePlace
<1>8. \A e \in Devices, c \in 1..MaxConns : ToSet(wire'[e][c]) \subseteq ToSet(wire[e][c])
  <2>1. CASE Connected(d)
    BY <1>1, <2>1, CutHolds DEF Crash, Connected, ConnectedHasWire
  <2>2. CASE ~ Connected(d)
    BY <2>2 DEF Crash
  <2> QED
    BY <2>1, <2>2
<1>9. ASSUME NEW m \in Messages, FannedOut(m)'
      PROVE  FannedOut(m)
  <2>1. \A e \in Devices : ToSet(outstanding'[e]) \subseteq ToSet(outstanding[e])
    BY <1>1, <1>2, <1>5
  <2> QED
    BY <1>2, <1>8, <1>9, <2>1, FannedShrinks
<1> QED
  BY <1>6, <1>7, <1>9, PlacesShrink DEF FInv, Apart

\* A step that leaves the tables and the queues alone.
LEMMA QuietApart ==
  ASSUME FInv, [Next]_vars, UNCHANGED <<outstanding, putsToAck, mainQueue>>
  PROVE  Apart'
<1>1. /\ IInv /\ Scalars /\ ConnectedHasWire
      /\ wire \in [Devices -> [1..MaxConns -> Seq(Writes)]]
  BY QueueTypes DEF FInv
<1>2. \A d \in Devices, p \in Places : Place(p, d)' = Place(p, d)
  BY DEF Place
<1> DEFINE Wires == \A e \in Devices, c \in 1..MaxConns :
                      ToSet(wire'[e][c]) \subseteq ToSet(wire[e][c]) \cup ToSet(outstanding[e])
           Filed == \A u, v \in Users, m \in Messages :
                      <<u, v, m>> \in userMessages'
                        => \/ <<u, v, m>> \in userMessages
                           \/ \E e \in Devices, c \in 1..MaxConns :
                                IndexWrite(u, v, m) \in ToSet(wire[e][c])
<1>3. Wires /\ Filed
  <2>1. CASE UNCHANGED <<wire, userMessages>>
    BY <2>1
  <2>2. ASSUME NEW d \in Devices, NEW c \in 1..MaxConns, RestoreState(d, c),
               UNCHANGED userMessages
        PROVE  Wires /\ Filed
    BY <1>1, <2>2 DEF RestoreState
  <2>3. ASSUME NEW d \in Devices, connNo[d] \in 1..MaxConns,
               \E n \in 0..Len(wire[d][connNo[d]]) : CutWire(d, n),
               UNCHANGED userMessages
        PROVE  Wires /\ Filed
    BY <1>1, <2>3, CutHolds
  <2>4. ASSUME NEW d \in Devices, NEW c \in 1..MaxConns, Serve(d, c)
        PROVE  Wires /\ Filed
    <3>1. wire[d][c] \in Seq(Writes) /\ wire[d][c] # <<>>
      BY <1>1, <2>4 DEF Serve
    <3>2. PICK w \in Writes : w = Head(wire[d][c]) /\ w \in ToSet(wire[d][c])
      BY <3>1, ToSetTail
    <3>3. \A e \in Devices, k \in 1..MaxConns :
             wire'[e][k] = IF e = d /\ k = c THEN Tail(wire[d][c]) ELSE wire[e][k]
      BY <1>1, <2>4 DEF Serve
    <3>4. Wires
      BY <3>1, <3>3, ToSetTail
    <3>5. \/ userMessages' = userMessages
          \/ /\ w \in IndexWrites
             /\ userMessages' = userMessages \cup {<<w.owner, w.partner, w.msg>>}
      BY <2>4, <3>2 DEF Serve, Apply, server, Writes, MessageWrites, IndexWrites
    <3>6. w \in IndexWrites => w = IndexWrite(w.owner, w.partner, w.msg)
      BY DEF IndexWrites, IndexWrite
    <3>7. Filed
      BY <3>2, <3>5, <3>6
    <3> QED
      BY <3>4, <3>7
  <2>5. CASE UNCHANGED vars
    BY <2>1, <2>5 DEF vars, server
  <2>6. ASSUME NEW d \in Devices, Connect(d)
        PROVE  Wires /\ Filed
    <3>1. connNo[d] + 1 \in 1..MaxConns /\ UNCHANGED userMessages
      BY <1>1, <2>6, BoundsAssumption DEF Connect, Scalars, server
    <3>2. RestoreState(d, connNo[d] + 1) \/ UNCHANGED wire
      BY <2>6 DEF Connect
    <3> HIDE DEF Wires, Filed
    <3> QED
      BY <2>1, <2>2, <3>1, <3>2
  <2>7. ASSUME NEW d \in Devices, Authenticated(d)
        PROVE  Wires /\ Filed
    <3>1. connNo[d] \in 1..MaxConns /\ UNCHANGED userMessages /\ RestoreState(d, connNo[d])
      BY <1>1, <2>7 DEF Authenticated, ConnectedHasWire, server
    <3> HIDE DEF Wires, Filed
    <3> QED
      BY <2>2, <3>1
  <2>8. ASSUME NEW d \in Devices, Disconnect(d) \/ Crash(d)
        PROVE  Wires /\ Filed
    <3>1. /\ UNCHANGED userMessages
          /\ \/ UNCHANGED wire
             \/ /\ connNo[d] \in 1..MaxConns
                /\ \E n \in 0..Len(wire[d][connNo[d]]) : CutWire(d, n)
      BY <1>1, <2>8 DEF Disconnect, Crash, Connected, ConnectedHasWire, server
    <3> HIDE DEF Wires, Filed
    <3> QED
      BY <2>1, <2>3, <3>1
  <2>9. ASSUME NEW d \in Devices, (\E m \in Messages, v \in Users : Send(d, m, v)) \/ FanOut(d)
        PROVE  FALSE
    <3>1. PICK ws : ws # <<>> /\ Put(d, ws) /\ ws \in Seq(Writes)
      <4>1. CASE FanOut(d)
        <5>1. PICK m \in Messages, p \in [from: Users, to: Users], ws \in Seq(Writes) :
                 /\ ws = <<IndexWrite(p.from, p.to, m), IndexWrite(p.to, p.from, m)>>
                 /\ Put(d, ws)
          BY <1>1, <4>1, FanOutHolds
        <5> QED
          BY <5>1
      <4>2. ASSUME NEW m \in Messages, NEW v \in Users, Send(d, m, v)
            PROVE  \E ws : ws # <<>> /\ Put(d, ws) /\ ws \in Seq(Writes)
        <5>1. <<MessageWrite(m)>> \in Seq(Writes) /\ <<MessageWrite(m)>> # <<>>
          BY DEF MessageWrite, Writes, MessageWrites
        <5> QED
          BY <4>2, <5>1 DEF Send
      <4> QED
        BY <2>9, <4>1, <4>2
    <3>2. outstanding \in [Devices -> Seq(Writes)] /\ outstanding[d] \in Seq(Writes)
      BY QueueTypes DEF FInv
    <3>3. outstanding[d] \o ws = outstanding[d]
      BY <3>1, <3>2 DEF Put
    <3> QED
      BY <3>1, <3>2, <3>3, ConcatEqualIffEmpty
  <2> HIDE DEF Wires, Filed
  <2> QED
    BY <2>1, <2>4, <2>5, <2>6, <2>7, <2>8, <2>9
    DEF Next, SignIn, SignOut, StartRead, EndRead, ReceiveAck, ReceiveListenReply,
        RevokeListen, server
<1>4. ASSUME NEW m \in Messages, FannedOut(m)'
      PROVE  FannedOut(m)
  BY <1>3, <1>4, FannedShrinks
<1>5. OncePlace'
  BY <1>2 DEF FInv, OncePlace
<1> QED
  BY <1>2, <1>4, <1>5, PlacesShrink DEF FInv, Ahead, Apart

LEMMA StepApart ==
  ASSUME FInv, [Next]_vars
  PROVE  Apart'
<1>1. CASE UNCHANGED <<outstanding, putsToAck, mainQueue>>
  BY <1>1, QuietApart
<1>2. CASE UNCHANGED vars
  BY <1>1, <1>2 DEF vars, client
<1> QED
  BY <1>1, <1>2, SendApart, FanOutApart, AckApart, ListenReplyApart, CrashApart
  DEF Next, SignIn, SignOut, StartRead, EndRead, Connect, Authenticated, Disconnect,
      RevokeListen, Serve, client

LEMMA InitFInv == Init => FInv
<1> SUFFICES ASSUME Init PROVE FInv
  OBVIOUS
<1>1. IInv
  BY InitInv
<1>2. \A d \in Devices, p \in Places : Place(p, d) = <<>>
  BY DEF Init, Places, Place, WritesOf
<1>3. ToSet(<<>>) = {} /\ MessageOnce(<<>>)
  BY DEF ToSet, MessageOnce
<1>4. OnePlace /\ OncePlace /\ NotBoth
  BY <1>2, <1>3 DEF OnePlace, OncePlace, NotBoth, Ahead
<1>5. Lines
  BY DEF Init, Lines, Line
<1> QED
  BY <1>1, <1>4, <1>5 DEF FInv

\* A message that is not fanned out yet is in one place of one phone, and
\* nothing of its fan-out exists anywhere, through every resend.
THEOREM InductiveOnce == Spec => []FInv
<1>1. FInv /\ [Next]_vars => FInv'
  BY StepScalars, StepQueues, StepFiles, StepLines, StepApart DEF FInv, IInv, Apart
<1> QED
  BY <1>1, InitFInv, PTL DEF Spec

\* The step of FanOutOnce.
PutsNothingFiled ==
  \A d \in Devices : \A w \in IndexWrites :
     /\ w \notin ToSet(outstanding[d])
     /\ w \in ToSet(outstanding'[d])
     => <<w.owner, w.partner, w.msg>> \notin userMessages

LEMMA StepOnce ==
  ASSUME FInv, [Next]_vars
  PROVE  PutsNothingFiled
<1>1. IInv /\ outstanding \in [Devices -> Seq(Writes)]
  BY QueueTypes DEF FInv
<1>2. CASE \A e \in Devices : \A w \in IndexWrites :
              w \in ToSet(outstanding'[e]) => w \in ToSet(outstanding[e])
  BY <1>2 DEF PutsNothingFiled
<1>3. ASSUME NEW d \in Devices, NEW m \in Messages, NEW v \in Users, Send(d, m, v)
      PROVE  PutsNothingFiled
  <2> DEFINE ws == <<MessageWrite(m)>>
  <2>1. ws \in Seq(Writes) /\ ToSet(ws) = {MessageWrite(m)}
    BY DEF MessageWrite, Writes, MessageWrites, ToSet
  <2>2. Put(d, ws)
    BY <1>3 DEF Send
  <2> HIDE DEF ws
  <2>3. /\ outstanding' = [outstanding EXCEPT ![d] = outstanding[d] \o ws]
        /\ ToSet(outstanding'[d]) = ToSet(outstanding[d]) \cup ToSet(ws)
    <3>1. ws \in Seq(Writes)
      BY <2>1
    <3> QED
      BY <1>1, <2>2, <3>1, PutHolds
  <2>4. \A w \in IndexWrites : w # MessageWrite(m)
    BY DEF IndexWrites, MessageWrite
  <2> QED
    BY <1>1, <1>2, <2>1, <2>3, <2>4
<1>4. ASSUME NEW d \in Devices, FanOut(d)
      PROVE  PutsNothingFiled
  <2>1. PICK k \in Messages, p \in [from: Users, to: Users], ws \in Seq(Writes) :
           /\ mainQueue[d] # <<>> /\ Head(mainQueue[d]).write = MessageWrite(k)
           /\ ToSet(ws) = {IndexWrite(p.from, p.to, k), IndexWrite(p.to, p.from, k)}
           /\ Put(d, ws)
    BY <1>1, <1>4, FanOutHolds
  <2>2. /\ outstanding' = [outstanding EXCEPT ![d] = outstanding[d] \o ws]
        /\ ToSet(outstanding'[d]) = ToSet(outstanding[d]) \cup ToSet(ws)
    BY <1>1, <2>1, PutHolds
  <2>3. Ahead("queue", d, k)
    <3>1. mainQueue[d] \in Seq(Acks)
      BY QueueTypes DEF FInv
    <3>2. /\ Place("queue", d) # <<>> /\ Head(Place("queue", d)) = MessageWrite(k)
          /\ Place("queue", d) \in Seq(Writes)
      BY <1>1, <2>1, <3>1, WritesOfTail, PlacesAre, WritesOfType
    <3> QED
      BY <3>2, ToSetTail DEF Ahead
  <2>4. \A u, v \in Users : <<u, v, k>> \notin userMessages
    BY <2>3 DEF FInv, NotBoth, FannedOut, Places
  <2>5. \A w \in IndexWrites : w.owner \in Users /\ w.partner \in Users
    BY DEF IndexWrites
  <2>6. \A w \in ToSet(ws) : w.msg = k
    BY <2>1 DEF IndexWrite
  <2> QED
    BY <1>1, <2>2, <2>4, <2>5, <2>6 DEF PutsNothingFiled
<1>5. ASSUME NEW d \in Devices, ReceiveAck(d)
      PROVE  PutsNothingFiled
  <2>1. PICK a \in SoundAcks :
           outstanding' = [outstanding EXCEPT ![d] = Without(outstanding[d], a.write)]
    BY <1>1, <1>5, AckHolds
  <2>2. outstanding[d] \in Seq(Writes)
    BY <1>1
  <2>3. ToSet(Without(outstanding[d], a.write)) \subseteq ToSet(outstanding[d])
    BY <2>2, ToSetWithout
  <2> QED
    BY <1>1, <1>2, <2>1, <2>3
<1>6. ASSUME NEW d \in Devices, Crash(d)
      PROVE  PutsNothingFiled
  <2>1. ToSet(<<>>) = {} /\ outstanding' = [outstanding EXCEPT ![d] = <<>>]
    BY <1>6 DEF Crash, ToSet
  <2> QED
    BY <1>1, <1>2, <2>1
<1>7. CASE UNCHANGED outstanding
  BY <1>2, <1>7
<1>8. CASE UNCHANGED vars
  BY <1>7, <1>8 DEF vars, client
<1> QED
  BY <1>3, <1>4, <1>5, <1>6, <1>7, <1>8
  DEF Next, SignIn, SignOut, StartRead, EndRead, Connect, Authenticated, Disconnect,
      ReceiveListenReply, RevokeListen, Serve, client

\* However often a message's write is resent, applied and answered, whatever
\* drops, crashes and refusals come between, it is fanned out once: no phone
\* puts an index write that is already filed on its table again.
THEOREM OneFanOut == Spec => FanOutOnce
<1>1. FInv /\ [Next]_vars => [PutsNothingFiled]_vars
  BY StepOnce
<1>2. Spec => [][PutsNothingFiled]_vars
  BY <1>1, InductiveOnce, PTL DEF Spec
<1> QED
  BY <1>2 DEF FanOutOnce, PutsNothingFiled
=============================================================================

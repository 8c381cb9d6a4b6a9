----------------------------- MODULE ChatDelivery -----------------------------
(***************************************************************************)
(* Sending a chat message: ChatClient.send together with the part of the   *)
(* vendored Firebase Database client its result depends on.                *)
(*                                                                         *)
(* send writes the message under "messages"; the completion of that write, *)
(* run later on the main queue and whatever its error says, writes the two *)
(* index entries of "user-messages".  In between stands the SDK: a table   *)
(* of outstanding puts that is resent, in order, whenever the connection   *)
(* comes back (FPersistentConnection.restoreState), and completions held   *)
(* back in putsToAck for as long as a listen request is unanswered.        *)
(* Nothing of this survives the process: disk persistence is never enabled.*)
(*                                                                         *)
(* A device is one running copy of the app.  The accounts that sign in on  *)
(* it share its puts, its listens and its connection.                      *)
(***************************************************************************)
EXTENDS Naturals, Sequences, FiniteSets, SequencesExt

CONSTANTS Devices,     \* the phones
          Users,       \* the accounts
          NoUser,      \* nobody signed in (Auth.currentUser is nil)
          Messages,    \* the ids childByAutoId may hand out, each at most once
          Unsent,      \* the value of composed for an id not yet handed out
          Refusable,   \* the nodes whose writes the server's rules may refuse
          ListensRefusable,  \* whether the rules may refuse or revoke a listen
          MaxConns,    \* bound: connections a device opens; the last one holds
          MaxReads,    \* bound: single reads (observeSingleEvent) a device starts
          MaxCrashes   \* bound: times a device's process dies

Nodes == {"messages", "user-messages"}

ASSUME BoundsAssumption ==
  /\ MaxConns \in Nat \ {0}
  /\ MaxReads \in Nat
  /\ MaxCrashes \in Nat
ASSUME NoUserAssumption == NoUser \notin Users
ASSUME UnsentAssumption == Unsent \notin [from: Users, to: Users]
ASSUME RefusableAssumption == Refusable \subseteq Nodes
ASSUME ListensAssumption == ListensRefusable \in BOOLEAN
ASSUME UsersAssumption == IsFiniteSet(Users)

VARIABLES
  session,      \* Auth.auth().currentUser, which outlives the process
  conn,         \* connectionState of FPersistentConnection
  connNo,       \* how many connections the device has opened
  outstanding,  \* outstandingPuts, in the order of their keys
  wire,         \* per connection, the puts sent and not yet read by the server
  replies,      \* the server's answers on their way back
  observed,     \* the users whose recents a home has observed; no home stops to
  listened,     \* those whose query is in listens: not refused or revoked
  reading,      \* the listens of single reads, removed at the first event
  reads,        \* how many single reads were started
  unacked,      \* unackedListensCount
  putsToAck,    \* completions held back until unackedListensCount is 0
  mainQueue,    \* completions dispatched to the main queue
  crashes,
  composed, stored, userMessages   \* see Mailbox

client == <<conn, outstanding, replies, observed, listened, reading, unacked,
            putsToAck, mainQueue>>
server == <<stored, userMessages>>
bounds == <<connNo, reads, crashes>>
vars == <<session, client, wire, bounds, composed, server>>

-----------------------------------------------------------------------------
(* Writes and their completions.                                           *)

MessageWrite(m) == [node |-> "messages", msg |-> m]
IndexWrite(u, v, m) ==
  [node |-> "user-messages", msg |-> m, owner |-> u, partner |-> v]

MessageWrites == [node: {"messages"}, msg: Messages]
IndexWrites == [node: {"user-messages"}, msg: Messages, owner: Users, partner: Users]
Writes == MessageWrites \cup IndexWrites

Statuses == {"ok", "permission_denied"}
Acks == [write: Writes, status: Statuses]

ConnStates == {"disconnected", "authenticating", "connected"}

TypeOK ==
  /\ session \in [Devices -> Users \cup {NoUser}]
  /\ conn \in [Devices -> ConnStates]
  /\ connNo \in [Devices -> 0..MaxConns]
  /\ outstanding \in [Devices -> Seq(Writes)]
  /\ wire \in [Devices -> [1..MaxConns -> Seq(Writes)]]
  /\ replies \in [Devices -> Seq(Acks)]
  /\ observed \in [Devices -> SUBSET Users]
  /\ listened \in [Devices -> SUBSET Users]
  /\ reading \in [Devices -> Nat]
  /\ reads \in [Devices -> 0..MaxReads]
  /\ unacked \in [Devices -> Nat]
  /\ putsToAck \in [Devices -> Seq(Acks)]
  /\ mainQueue \in [Devices -> Seq(Acks)]
  /\ crashes \in [Devices -> 0..MaxCrashes]
  /\ composed \in [Messages -> [from: Users, to: Users] \cup {Unsent}]
  /\ stored \subseteq Messages
  /\ userMessages \subseteq Users \X Users \X Messages

\* The server's database, as the users of the app see it.
Box == INSTANCE Mailbox WITH
  composed <- composed, stored <- stored, userMessages <- userMessages

Init ==
  /\ session = [d \in Devices |-> NoUser]
  /\ conn = [d \in Devices |-> "disconnected"]
  /\ connNo = [d \in Devices |-> 0]
  /\ outstanding = [d \in Devices |-> <<>>]
  /\ wire = [d \in Devices |-> [c \in 1..MaxConns |-> <<>>]]
  /\ replies = [d \in Devices |-> <<>>]
  /\ observed = [d \in Devices |-> {}]
  /\ listened = [d \in Devices |-> {}]
  /\ reading = [d \in Devices |-> 0]
  /\ reads = [d \in Devices |-> 0]
  /\ unacked = [d \in Devices |-> 0]
  /\ putsToAck = [d \in Devices |-> <<>>]
  /\ mainQueue = [d \in Devices |-> <<>>]
  /\ crashes = [d \in Devices |-> 0]
  /\ Box!Init

-----------------------------------------------------------------------------
(* FPersistentConnection, seen from the code that calls it.                *)

Connected(d)     == conn[d] \in {"authenticating", "connected"}
CanSendWrites(d) == conn[d] = "connected"

\* putInternal: the puts join the table, and the wire when writes can be sent.
Put(d, ws) ==
  /\ outstanding' = [outstanding EXCEPT ![d] = @ \o ws]
  /\ wire' = IF CanSendWrites(d)
             THEN [wire EXCEPT ![d][connNo[d]] = @ \o ws]
             ELSE wire

\* listen: a new query is sent when there is a connection, even before auth.
Listen(d) ==
  unacked' = IF Connected(d) THEN [unacked EXCEPT ![d] = @ + 1] ELSE unacked

Listens(d) == Cardinality(listened[d]) + reading[d]

\* Mutant: the puts are resent in no particular order.
RestoreStateUnsorted(d, c) ==
  /\ unacked' = [unacked EXCEPT ![d] = @ + Listens(d)]
  /\ wire' = [wire EXCEPT ![d][c] = Reverse(outstanding[d])]

\* restoreState: every listen is sent again, then every outstanding put, the
\* ones the last connection had already sent included.
RestoreState(d, c) ==
  /\ unacked' = [unacked EXCEPT ![d] = @ + Listens(d)]
  /\ wire' = [wire EXCEPT ![d][c] = outstanding[d]]

\* Mutant: the block hears "ok" whatever the server said.
CompletionsAllOk(w, status) ==
  IF w.node = "messages" THEN <<[write |-> w, status |-> "ok"]>> ELSE <<>>

\* callOnComplete: only a write that was given a block has one to run.
Completions(w, status) ==
  IF w.node = "messages" THEN <<[write |-> w, status |-> status]>> ELSE <<>>

\* The table without a put that was answered.
Without(puts, w) ==
  IF \E i \in DOMAIN puts : puts[i] = w
  THEN RemoveAt(puts, CHOOSE i \in DOMAIN puts : puts[i] = w)
  ELSE puts

-----------------------------------------------------------------------------
(* The app.                                                                *)

\* A process starts at the login screen, even with a session kept from the last
\* one; the home screen's observer tells the two apart.
HomeShown(d) == session[d] \in observed[d]

\* login succeeds: the new home screen observes the user's recents.  The SDK
\* sends no second listen for a query an earlier home still listens to, and no
\* home ever removes its observers.
SignIn(d, u) ==
  /\ ~ HomeShown(d)
  /\ session' = [session EXCEPT ![d] = u]
  /\ observed' = [observed EXCEPT ![d] = @ \cup {u}]
  /\ listened' = [listened EXCEPT ![d] = @ \cup {u}]
  /\ IF u \in listened[d] THEN UNCHANGED unacked ELSE Listen(d)
  /\ UNCHANGED <<conn, outstanding, replies, reading, putsToAck, mainQueue,
                 wire, bounds, composed, server>>

\* Mutant: logout removes the recents' observer, which the code never does.
SignOutUnlistens(d) ==
  /\ HomeShown(d)
  /\ session' = [session EXCEPT ![d] = NoUser]
  /\ observed' = [observed EXCEPT ![d] = @ \ {session[d]}]
  /\ listened' = [listened EXCEPT ![d] = @ \ {session[d]}]
  /\ UNCHANGED <<conn, outstanding, replies, reading, unacked, putsToAck,
                 mainQueue, wire, bounds, composed, server>>

\* logout leaves the puts, the listens and the connection as they are.
SignOut(d) ==
  /\ HomeShown(d)
  /\ session' = [session EXCEPT ![d] = NoUser]
  /\ UNCHANGED <<client, wire, bounds, composed, server>>

\* ChatClient.send, from a screen above home, to a user v.
Send(d, m, v) ==
  /\ HomeShown(d)
  /\ ~ Box!Sent(m)
  /\ composed' = [composed EXCEPT ![m] = [from |-> session[d], to |-> v]]
  /\ Put(d, <<MessageWrite(m)>>)
  /\ UNCHANGED <<session, conn, replies, observed, listened, reading, unacked,
                 putsToAck, mainQueue, bounds, server>>

\* Mutants: the author is whoever is signed in when the block runs; the two
\* index writes are issued in the other order.
FanOutBySession(d) ==
  /\ mainQueue[d] # <<>> /\ session[d] # NoUser
  /\ LET m == Head(mainQueue[d]).write.msg
         u == session[d]
         v == composed[m].to
     IN  Put(d, <<IndexWrite(u, v, m), IndexWrite(v, u, m)>>)
  /\ mainQueue' = [mainQueue EXCEPT ![d] = Tail(@)]
  /\ UNCHANGED <<session, conn, replies, observed, listened, reading, unacked,
                 putsToAck, bounds, composed, server>>
FanOutRecipientFirst(d) ==
  /\ mainQueue[d] # <<>>
  /\ LET m == Head(mainQueue[d]).write.msg
         p == composed[m]
     IN  Put(d, <<IndexWrite(p.to, p.from, m), IndexWrite(p.from, p.to, m)>>)
  /\ mainQueue' = [mainQueue EXCEPT ![d] = Tail(@)]
  /\ UNCHANGED <<session, conn, replies, observed, listened, reading, unacked,
                 putsToAck, bounds, composed, server>>

\* The completion of the message's write: error is ignored, and the parties are
\* the ones captured when send ran, whoever is signed in by now.
FanOut(d) ==
  /\ mainQueue[d] # <<>>
  /\ LET m == Head(mainQueue[d]).write.msg
         p == composed[m]
     IN  Put(d, <<IndexWrite(p.from, p.to, m), IndexWrite(p.to, p.from, m)>>)
  /\ mainQueue' = [mainQueue EXCEPT ![d] = Tail(@)]
  /\ UNCHANGED <<session, conn, replies, observed, listened, reading, unacked,
                 putsToAck, bounds, composed, server>>

\* observeSingleEvent: a screen reads a message or a profile once.  (A read of
\* a path that is being read already joins that listen and adds none.)
StartRead(d) ==
  /\ HomeShown(d)
  /\ reads[d] < MaxReads
  /\ reads' = [reads EXCEPT ![d] = @ + 1]
  /\ reading' = [reading EXCEPT ![d] = @ + 1]
  /\ Listen(d)
  /\ UNCHANGED <<session, conn, outstanding, replies, observed, listened,
                 putsToAck, mainQueue, wire, connNo, crashes, composed, server>>

\* Its first event, or its refusal, removes the listen; the answer to the request
\* may still be due.
EndRead(d) ==
  /\ reading[d] > 0
  /\ reading' = [reading EXCEPT ![d] = @ - 1]
  /\ UNCHANGED <<session, conn, outstanding, replies, observed, listened,
                 unacked, putsToAck, mainQueue, wire, bounds, composed, server>>

-----------------------------------------------------------------------------
(* The connection.                                                         *)

\* restoreAuth: with a token the state is restored after the server accepts it,
\* without one at once.
Connect(d) ==
  /\ conn[d] = "disconnected" /\ connNo[d] < MaxConns
  /\ connNo' = [connNo EXCEPT ![d] = @ + 1]
  /\ IF session[d] = NoUser
     THEN /\ conn' = [conn EXCEPT ![d] = "connected"]
          /\ RestoreState(d, connNo[d] + 1)
     ELSE /\ conn' = [conn EXCEPT ![d] = "authenticating"]
          /\ UNCHANGED <<unacked, wire>>
  /\ UNCHANGED <<session, outstanding, replies, observed, listened, reading,
                 putsToAck, mainQueue, reads, crashes, composed, server>>

Authenticated(d) ==
  /\ conn[d] = "authenticating"
  /\ conn' = [conn EXCEPT ![d] = "connected"]
  /\ RestoreState(d, connNo[d])
  /\ UNCHANGED <<session, outstanding, replies, observed, listened, reading,
                 putsToAck, mainQueue, bounds, composed, server>>

\* The server reads the n first puts the dead connection still carried, the
\* rest is lost with it.
CutWire(d, n) ==
  wire' = [wire EXCEPT ![d][connNo[d]] = SubSeq(@, 1, n)]

\* Mutant: the outstanding puts go down with the connection.
DisconnectDropsPuts(d) ==
  /\ Connected(d) /\ connNo[d] < MaxConns
  /\ conn' = [conn EXCEPT ![d] = "disconnected"]
  /\ \E n \in 0..Len(wire[d][connNo[d]]) : CutWire(d, n)
  /\ outstanding' = [outstanding EXCEPT ![d] = <<>>]
  /\ replies' = [replies EXCEPT ![d] = <<>>]
  /\ unacked' = [unacked EXCEPT ![d] = 0]
  /\ UNCHANGED <<session, observed, listened, reading, putsToAck, mainQueue,
                 bounds, composed, server>>

\* onDisconnect: the callbacks of requests in flight are forgotten, the puts and
\* the completions held back are kept.
Disconnect(d) ==
  /\ Connected(d) /\ connNo[d] < MaxConns
  /\ conn' = [conn EXCEPT ![d] = "disconnected"]
  /\ \E n \in 0..Len(wire[d][connNo[d]]) : CutWire(d, n)
  /\ replies' = [replies EXCEPT ![d] = <<>>]
  /\ unacked' = [unacked EXCEPT ![d] = 0]
  /\ UNCHANGED <<session, outstanding, observed, listened, reading, putsToAck,
                 mainQueue, bounds, composed, server>>

\* The answer to a put: it leaves the table, and its completion runs now or
\* waits for the listens.
ReceiveAck(d) ==
  /\ replies[d] # <<>>
  /\ LET ack  == Head(replies[d])
         done == Completions(ack.write, ack.status)
     IN  /\ outstanding' = [outstanding EXCEPT ![d] = Without(@, ack.write)]
         /\ IF unacked[d] = 0
            THEN /\ mainQueue' = [mainQueue EXCEPT ![d] = @ \o done]
                 /\ UNCHANGED putsToAck
            ELSE /\ putsToAck' = [putsToAck EXCEPT ![d] = @ \o done]
                 /\ UNCHANGED mainQueue
  /\ replies' = [replies EXCEPT ![d] = Tail(@)]
  /\ UNCHANGED <<session, conn, observed, listened, reading, unacked, wire,
                 bounds, composed, server>>

\* The rules allow some account's recents no longer.  Its observers are dropped
\* with the query, but its home stays on the screen.
Unlisten(d) ==
  /\ ListensRefusable
  /\ \E u \in listened[d] : listened' = [listened EXCEPT ![d] = @ \ {u}]

\* Mutants: ackPuts runs the blocks and keeps them; an answer nobody waits for
\* is counted.
ReceiveListenReplyKeepsHeld(d) ==
  /\ Connected(d) /\ unacked[d] > 0
  /\ unacked' = [unacked EXCEPT ![d] = @ - 1]
  /\ mainQueue' = IF unacked[d] = 1
                  THEN [mainQueue EXCEPT ![d] = @ \o putsToAck[d]]
                  ELSE mainQueue
  /\ UNCHANGED <<session, conn, outstanding, replies, observed, listened,
                 reading, putsToAck, wire, bounds, composed, server>>
ReceiveListenReplyUnguarded(d) ==
  /\ Connected(d)
  /\ unacked' = [unacked EXCEPT ![d] = @ - 1]
  /\ UNCHANGED <<session, conn, outstanding, replies, observed, listened,
                 reading, mainQueue, putsToAck, wire, bounds, composed, server>>

\* The answer to a listen may refuse it, and the query leaves listens; the last
\* answer due releases what was held back.
ReceiveListenReply(d) ==
  /\ Connected(d) /\ unacked[d] > 0
  /\ unacked' = [unacked EXCEPT ![d] = @ - 1]
  /\ IF unacked[d] = 1
     THEN /\ mainQueue' = [mainQueue EXCEPT ![d] = @ \o putsToAck[d]]
          /\ putsToAck' = [putsToAck EXCEPT ![d] = <<>>]
     ELSE UNCHANGED <<mainQueue, putsToAck>>
  /\ UNCHANGED listened \/ Unlisten(d)
  /\ UNCHANGED <<session, conn, outstanding, replies, observed, reading, wire,
                 bounds, composed, server>>

\* onListenRevoked: the server takes a listen back.
RevokeListen(d) ==
  /\ Connected(d)
  /\ Unlisten(d)
  /\ UNCHANGED <<session, conn, outstanding, replies, observed, reading, unacked,
                 putsToAck, mainQueue, wire, bounds, composed, server>>

\* The process dies, and a new one starts at the login screen: Firebase Auth
\* keeps the session, but SceneDelegate shows no home for it.
Crash(d) ==
  /\ crashes[d] < MaxCrashes /\ connNo[d] < MaxConns
  /\ crashes' = [crashes EXCEPT ![d] = @ + 1]
  /\ conn' = [conn EXCEPT ![d] = "disconnected"]
  /\ IF Connected(d)
     THEN \E n \in 0..Len(wire[d][connNo[d]]) : CutWire(d, n)
     ELSE UNCHANGED wire
  /\ outstanding' = [outstanding EXCEPT ![d] = <<>>]
  /\ replies' = [replies EXCEPT ![d] = <<>>]
  /\ observed' = [observed EXCEPT ![d] = {}]
  /\ listened' = [listened EXCEPT ![d] = {}]
  /\ reading' = [reading EXCEPT ![d] = 0]
  /\ unacked' = [unacked EXCEPT ![d] = 0]
  /\ putsToAck' = [putsToAck EXCEPT ![d] = <<>>]
  /\ mainQueue' = [mainQueue EXCEPT ![d] = <<>>]
  /\ UNCHANGED <<session, connNo, reads, composed, server>>

-----------------------------------------------------------------------------
(* The server (external): it executes the puts of a connection in the order *)
(* they were sent, and what a dead connection left behind at any time.      *)

Apply(w) ==
  IF w.node = "messages"
  THEN stored' = stored \cup {w.msg} /\ UNCHANGED userMessages
  ELSE userMessages' = userMessages \cup {<<w.owner, w.partner, w.msg>>}
       /\ UNCHANGED stored

Verdicts(w) == IF w.node \in Refusable THEN Statuses ELSE {"ok"}

Serve(d, c) ==
  /\ wire[d][c] # <<>>
  /\ LET w == Head(wire[d][c])
     IN  \E status \in Verdicts(w) :
            /\ IF status = "ok" THEN Apply(w) ELSE UNCHANGED server
            /\ replies' = IF c = connNo[d] /\ Connected(d)
                          THEN [replies EXCEPT ![d] =
                                  Append(@, [write |-> w, status |-> status])]
                          ELSE replies
  /\ wire' = [wire EXCEPT ![d][c] = Tail(@)]
  /\ UNCHANGED <<session, conn, outstanding, observed, listened, reading,
                 unacked, putsToAck, mainQueue, bounds, composed>>

-----------------------------------------------------------------------------
Next ==
  \E d \in Devices :
     \/ \E u \in Users : SignIn(d, u)
     \/ SignOut(d)
     \/ \E m \in Messages, v \in Users : Send(d, m, v)
     \/ FanOut(d)
     \/ StartRead(d)
     \/ EndRead(d)
     \/ Connect(d)
     \/ Authenticated(d)
     \/ Disconnect(d)
     \/ ReceiveAck(d)
     \/ ReceiveListenReply(d)
     \/ RevokeListen(d)
     \/ Crash(d)
     \/ \E c \in 1..MaxConns : Serve(d, c)

Spec == Init /\ [][Next]_vars

\* The run loop drains the queues, the SDK reconnects, the server answers.
Fairness ==
  \A d \in Devices :
     /\ WF_vars(FanOut(d))
     /\ WF_vars(Connect(d))
     /\ WF_vars(Authenticated(d))
     /\ WF_vars(ReceiveAck(d))
     /\ WF_vars(ReceiveListenReply(d))
     /\ \A c \in 1..MaxConns : WF_vars(Serve(d, c))

FairSpec == Spec /\ Fairness

-----------------------------------------------------------------------------
(* Properties.                                                             *)

\* Under rules that refuse nothing the database only moves as Mailbox allows,
\* whatever the connection and the processes do.
BoxSpec == Box!Spec

\* No index entry dangles or sits in a stranger's box (ChatClient.swift:51-76
\* reads the message behind each entry and skips the ones that lead nowhere).
IndexedIsStored == Box!IndexedIsStored

\* The recipient's copy never precedes the author's, through every resend.
RecipientAfterSender == Box!RecipientAfterSender

\* An "ok" handed to send's completion block is never premature: the message is
\* in the database by then, also under rules that refuse writes.
OkIsStored ==
  \A d \in Devices : \A ack \in ToSet(mainQueue[d]) \cup ToSet(putsToAck[d]) :
     ack.status = "ok" => ack.write.msg \in stored

\* FIRDatabaseReference.h:205: the block is triggered "after the update has been
\* written on the Firebase Database servers".  send relies on it and ignores the
\* block's error (ChatClient.swift:84).
CompletionMeansWritten ==
  \A d \in Devices : \A ack \in ToSet(mainQueue[d]) : ack.write.msg \in stored

\* The rules have taken every listen of the process away.
AllRefused(d) == observed[d] # {} /\ Listens(d) = 0

\* A completion held back always has a listen's answer to wait for once the
\* connection is up again: onDisconnect zeroes unackedListensCount and keeps
\* putsToAck, so only listens that are still registered can release it.  Rules
\* that refuse or revoke every one of them leave it held.
HeldHasListen ==
  \A d \in Devices :
     conn[d] = "connected" /\ putsToAck[d] # <<>> => unacked[d] > 0 \/ AllRefused(d)

\* Where the copy <<owner, partner, m>> is on its way or has arrived.
Underway(d, u, v, m) ==
  \/ <<u, v, m>> \in userMessages
  \/ IndexWrite(u, v, m) \in ToSet(outstanding[d])

\* As long as no process dies, a message that was composed is still on its way:
\* its write is outstanding, its completion is waiting, or both of its index
\* entries are outstanding or filed.
NothingForgotten ==
  \A m \in Messages :
     Box!Sent(m) /\ (\A d \in Devices : crashes[d] = 0) =>
       \E d \in Devices :
          \/ MessageWrite(m) \in ToSet(outstanding[d])
          \/ \E ack \in ToSet(mainQueue[d]) \cup ToSet(putsToAck[d]) :
                ack.write.msg = m
          \/ /\ Underway(d, composed[m].from, composed[m].to, m)
             /\ Underway(d, composed[m].to, composed[m].from, m)

\* However often its write is resent and answered, a message is fanned out once:
\* no step puts an index write that is already filed on the table again.
FanOutOnce ==
  [][\A d \in Devices : \A w \in IndexWrites :
        /\ w \notin ToSet(outstanding[d])
        /\ w \in ToSet(outstanding'[d])
        => <<w.owner, w.partner, w.msg>> \notin userMessages]_vars

\* With a process that stays alive and a connection that comes back for good,
\* every message ends up in both boxes.
EveryMessageDelivered ==
  \A m \in Messages :
     Box!Sent(m) ~> Box!Delivered(m) \/ (\E d \in Devices : crashes[d] > 0)

=============================================================================

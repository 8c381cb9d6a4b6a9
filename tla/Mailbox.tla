------------------------------- MODULE Mailbox -------------------------------
(***************************************************************************)
(* What sending a chat message promises, seen from the server's database.  *)
(*                                                                         *)
(* A message is composed once (ChatClient.send), stored once under         *)
(* "messages", and then filed in two indexes of "user-messages": first in  *)
(* its author's box under the recipient, then in the recipient's box under *)
(* the author.  Every screen of the app reads the indexes and follows them *)
(* to the message, so the order of the three writes is what keeps a reader *)
(* from meeting a dangling index, and a recipient from holding a message   *)
(* that its author's own conversation does not show.                       *)
(*                                                                         *)
(* The module says nothing about phones, connections or callbacks;         *)
(* ChatDelivery models those and implements this specification.            *)
(***************************************************************************)
CONSTANTS Users,      \* the accounts, nodes of "users"
          Messages,   \* the ids childByAutoId may hand out
          Unsent      \* the value of composed for an id not yet handed out

VARIABLES composed,      \* who sent each message to whom
          stored,        \* the messages under the node "messages"
          userMessages   \* the triples <<owner, partner, message>> of "user-messages"

vars == <<composed, stored, userMessages>>

TypeOK ==
  /\ composed \in [Messages -> [from: Users, to: Users] \cup {Unsent}]
  /\ stored \subseteq Messages
  /\ userMessages \subseteq Users \X Users \X Messages

Sent(m) == composed[m] # Unsent

SenderEntry(m)    == <<composed[m].from, composed[m].to, m>>
RecipientEntry(m) == <<composed[m].to, composed[m].from, m>>

Delivered(m) == Sent(m) /\ {SenderEntry(m), RecipientEntry(m)} \subseteq userMessages

-----------------------------------------------------------------------------
Init ==
  /\ composed = [m \in Messages |-> Unsent]
  /\ stored = {}
  /\ userMessages = {}

Compose(m, u, v) ==
  /\ ~ Sent(m)
  /\ composed' = [composed EXCEPT ![m] = [from |-> u, to |-> v]]
  /\ UNCHANGED <<stored, userMessages>>

Store(m) ==
  /\ Sent(m)
  /\ stored' = stored \cup {m}
  /\ UNCHANGED <<composed, userMessages>>

FileForSender(m) ==
  /\ m \in stored /\ Sent(m)
  /\ userMessages' = userMessages \cup {SenderEntry(m)}
  /\ UNCHANGED <<composed, stored>>

FileForRecipient(m) ==
  /\ Sent(m) /\ SenderEntry(m) \in userMessages
  /\ userMessages' = userMessages \cup {RecipientEntry(m)}
  /\ UNCHANGED <<composed, stored>>

Next ==
  \E m \in Messages :
     \/ \E u, v \in Users : Compose(m, u, v)
     \/ Store(m)
     \/ FileForSender(m)
     \/ FileForRecipient(m)

Spec == Init /\ [][Next]_vars

\* A message that was composed makes its way into both boxes.
FairSpec ==
  /\ Spec
  /\ \A m \in Messages : WF_vars(Store(m)) /\ WF_vars(FileForSender(m))
                                           /\ WF_vars(FileForRecipient(m))

-----------------------------------------------------------------------------
\* An index entry never dangles and never sits in a stranger's box: its message
\* is stored, and its owner and partner are the message's two parties.  The
\* observers (ChatClient.swift:51-76) silently skip an entry that dangles.
IndexedIsStored ==
  \A m \in Messages, u, v \in Users :
     <<u, v, m>> \in userMessages =>
        m \in stored /\ Sent(m) /\ <<u, v, m>> \in {SenderEntry(m), RecipientEntry(m)}

\* A recipient never holds a message its author's own conversation lacks
\* (the order of the two setValue calls, ChatClient.swift:88-93).
RecipientAfterSender ==
  \A m \in Messages : Sent(m) /\ RecipientEntry(m) \in userMessages
                         => SenderEntry(m) \in userMessages

=============================================================================

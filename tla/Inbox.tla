--------------------------------- MODULE Inbox ---------------------------------
(***************************************************************************)
(* From the contacts sheet to a conversation: ContactVC lists the users    *)
(* the database raises, a tap dismisses it and pushes a ContactInboxVC,    *)
(* which observes its branch of the index, reads every message it is told  *)
(* of and appends the answers as they come.                                *)
(*                                                                         *)
(* As in RecentMessages, requests are answered in any order: a read of a   *)
(* message that home, or an inbox left before, still listens to is         *)
(* answered with theirs, a reconnect asks again in the order of a          *)
(* dictionary.  The main queue runs one block after the other; what the    *)
(* blocks of an inbox that was left do, nobody sees.                       *)
(***************************************************************************)
EXTENDS Naturals, Sequences, FiniteSets, SequencesExt

CONSTANTS Contacts,      \* the users with a profile, the current one aside
          Me,            \* Auth.auth().currentUser
          NoPartner,
          Texts,         \* [with, key]: the other user and the key under messages
          Missing,       \* those with index entries and no message: it was refused
          MaxOpens       \* bound: sheets and inboxes opened

ASSUME InboxAssumption ==
  /\ IsFiniteSet(Contacts) /\ IsFiniteSet(Texts)
  /\ Texts \subseteq [with: Contacts, key: Nat] /\ Missing \subseteq Texts
  /\ NoPartner \notin Contacts \cup {Me} /\ Me \notin Contacts /\ "users" \notin Contacts

VARIABLES
  sheet,      \* a ContactVC is presented
  contacts,   \* ContactVC.contacts, in the order of the table
  user,       \* ContactInboxVC.user, or NoPartner: no inbox is pushed
  inboxMessages,  \* ContactInboxVC.messages
  rows,       \* what its collection view loaded last
  inboxAsked, \* requests sent and not answered
  inboxQueue, \* blocks waiting for the main thread
  loaded,     \* "users", and the branches of the index the process holds
  joined,     \* users with a profile on the server
  inboxFiled, \* index entries on the server
  raised,     \* index entries raised to this inbox's observer, in order
  straight,   \* nobody else read its messages when the inbox was opened, and the
              \* connection has stood since: its reads are answered in order
  opens

inboxVars == <<sheet, contacts, user, inboxMessages, rows, inboxAsked, inboxQueue, loaded,
               joined, inboxFiled, raised, straight, opens>>

Task(kind, of) == [kind |-> kind, of |-> of]

\* Those of some kinds, in their order, and what those of one kind are about.
Those(tasks, kinds) ==
  LET among[n \in 0..Len(tasks)] ==
        IF n = 0 THEN <<>>
        ELSE IF tasks[n].kind \in kinds THEN Append(among[n - 1], tasks[n]) ELSE among[n - 1]
  IN among[Len(tasks)]
Of(tasks, kind) == [i \in DOMAIN Those(tasks, {kind}) |-> Those(tasks, {kind})[i].of]

\* Initial events come in the order of the keys.
ByKey(S) ==
  CHOOSE s \in [1..Cardinality(S) -> S]: \A i, j \in DOMAIN s: i < j => s[i].key < s[j].key
Branch(p) == {t \in inboxFiled: t.with = p}
Raise(kind, list) == [i \in DOMAIN list |-> Task(kind, list[i])]

InboxTypeOK ==
  /\ sheet \in BOOLEAN
  /\ user \in Contacts \cup {NoPartner}
  /\ sheet => user = NoPartner
  /\ contacts \in Seq(Contacts \cup {Me})
  /\ {inboxMessages, rows, raised} \subseteq Seq(Texts)
  /\ \A i \in DOMAIN inboxAsked: inboxAsked[i].kind \in {"users", "index", "message"}
  /\ \A i \in DOMAIN inboxQueue:
       inboxQueue[i].kind \in {"user", "dismissed", "childAdded", "message", "reload"}
  /\ loaded \subseteq Contacts \cup {"users"}
  /\ straight \in BOOLEAN
  /\ joined \subseteq Contacts \cup {Me} /\ inboxFiled \subseteq Texts

InboxInit ==
  /\ sheet = FALSE /\ contacts = <<>>
  /\ user = NoPartner /\ inboxMessages = <<>> /\ rows = <<>>
  /\ inboxAsked = <<>> /\ inboxQueue = <<>>
  /\ loaded \in SUBSET Contacts       \* the home screen observes the whole index
  /\ joined \in {{Me}, {Me} \cup Contacts}
  /\ inboxFiled = {} /\ raised = <<>>
  /\ straight = FALSE /\ opens = 0

-----------------------------------------------------------------------------
(* The server and the SDK.                                                 *)

\* A profile is written, here or on another phone.
Join(u) ==
  /\ u \notin joined
  /\ joined' = joined \cup {u}
  /\ inboxQueue' = inboxQueue \o IF sheet /\ "users" \in loaded THEN <<Task("user", u)>> ELSE <<>>
  /\ UNCHANGED <<sheet, contacts, user, inboxMessages, rows, inboxAsked, loaded, inboxFiled, raised,
                 straight, opens>>

\* An index entry is written; it may well have an earlier key than others.
FileText(t) ==
  /\ t \notin inboxFiled /\ t.with \in joined
  /\ inboxFiled' = inboxFiled \cup {t}
  /\ IF user = t.with /\ user \in loaded
     THEN /\ raised' = Append(raised, t)
          /\ inboxQueue' = Append(inboxQueue, Task("childAdded", t))
     ELSE UNCHANGED <<raised, inboxQueue>>
  /\ UNCHANGED <<sheet, contacts, user, inboxMessages, rows, inboxAsked, loaded, joined, straight, opens>>

\* A request is answered, reads of messages in their order only while straight:
\* initial events, or a message for its block.
AnswerRequest(i) ==
  /\ straight => \A j \in 1..(i - 1): inboxAsked[j].kind # "message"
  /\ inboxAsked' = RemoveAt(inboxAsked, i)
  /\ LET r == inboxAsked[i] IN
     CASE r.kind = "users" ->
            /\ loaded' = loaded \cup {"users"}
            /\ inboxQueue' = inboxQueue \o IF sheet THEN Raise("user", SetToSeq(joined)) ELSE <<>>
            /\ UNCHANGED raised
       [] r.kind = "index" ->
            /\ loaded' = loaded \cup {r.of}
            /\ raised' = IF r.of = user THEN ByKey(Branch(user)) ELSE raised
            /\ inboxQueue' = inboxQueue \o
                 IF r.of = user THEN Raise("childAdded", ByKey(Branch(user))) ELSE <<>>
       [] r.kind = "message" ->
            /\ inboxQueue' = Append(inboxQueue, r)
            /\ UNCHANGED <<loaded, raised>>
  /\ UNCHANGED <<sheet, contacts, user, inboxMessages, rows, joined, inboxFiled, straight, opens>>

\* The connection breaks: what is unanswered is asked again, in any order.
Resume ==
  /\ straight
  /\ straight' = FALSE
  /\ UNCHANGED <<sheet, contacts, user, inboxMessages, rows, inboxAsked, inboxQueue, loaded,
                 joined, inboxFiled, raised, opens>>

-----------------------------------------------------------------------------
(* The user.                                                               *)

\* A listen that waits for its answer is not sent twice.
AskOnce(kind, of) ==
  IF Task(kind, of) \in ToSet(inboxAsked) THEN inboxAsked ELSE Append(inboxAsked, Task(kind, of))

\* viewDidLoad of a new ContactVC observes the users; it is told at once of
\* those the process holds.
ShowContacts ==
  /\ ~sheet /\ user = NoPartner /\ Of(inboxQueue, "dismissed") = <<>>
  /\ opens < MaxOpens
  /\ sheet' = TRUE /\ contacts' = <<>>
  /\ opens' = opens + 1
  /\ IF "users" \in loaded
     THEN /\ inboxQueue' = Raise("user", SetToSeq(joined))
          /\ UNCHANGED inboxAsked
     ELSE /\ inboxAsked' = AskOnce("users", Me)
          /\ inboxQueue' = <<>>
  /\ UNCHANGED <<user, inboxMessages, rows, loaded, joined, inboxFiled, raised, straight>>

\* A tap on a row: showInbox dismisses the sheet, its completion pushes the inbox.
SelectContact(i) ==
  /\ sheet /\ i \in DOMAIN contacts /\ contacts[i] \in Contacts
  /\ sheet' = FALSE
  /\ inboxQueue' = <<Task("dismissed", contacts[i])>>
  /\ UNCHANGED <<contacts, user, inboxMessages, rows, inboxAsked, loaded, joined, inboxFiled, raised,
                 straight, opens>>

\* The sheet is swiped away.
Dismiss ==
  /\ sheet
  /\ sheet' = FALSE
  /\ inboxQueue' = <<>>
  /\ UNCHANGED <<contacts, user, inboxMessages, rows, inboxAsked, loaded, joined, inboxFiled, raised,
                 straight, opens>>

\* The inbox goes, and with it what its blocks would have shown.
LeaveInbox ==
  /\ user # NoPartner
  /\ user' = NoPartner
  /\ inboxMessages' = <<>> /\ rows' = <<>> /\ raised' = <<>>
  /\ inboxQueue' = <<>>
  /\ inboxAsked' = Those(inboxAsked, {"users", "index"})
  /\ straight' = FALSE
  /\ UNCHANGED <<sheet, contacts, loaded, joined, inboxFiled, opens>>

\* handleSend hands the text to ChatClient (module ChatDelivery) and reloads.
Send ==
  /\ user # NoPartner
  /\ rows' = inboxMessages
  /\ UNCHANGED <<sheet, contacts, user, inboxMessages, inboxAsked, inboxQueue, loaded, joined,
                 inboxFiled, raised, straight, opens>>

-----------------------------------------------------------------------------
(* The main queue.                                                         *)

RunTask(kind, dispatched) ==
  /\ inboxQueue # <<>> /\ Head(inboxQueue).kind = kind
  /\ inboxQueue' = Tail(inboxQueue) \o dispatched
  /\ UNCHANGED <<sheet, joined, inboxFiled, straight, opens>>

Turn == Head(inboxQueue)

\* contactObserver: everybody but the current user, appended and shown at once.
ContactBlock ==
  /\ RunTask("user", <<>>)
  /\ contacts' = IF Turn.of = Me THEN contacts ELSE Append(contacts, Turn.of)
  /\ UNCHANGED <<user, inboxMessages, rows, inboxAsked, loaded, raised>>

\* Setting user calls observeMessages, which is told of what the process holds.
ObserveMessages(p) ==
  IF p \in loaded
  THEN /\ raised' = ByKey(Branch(p))
       /\ inboxQueue' = Tail(inboxQueue) \o Raise("childAdded", ByKey(Branch(p)))
       /\ UNCHANGED inboxAsked
  ELSE /\ inboxAsked' = AskOnce("index", p)
       /\ inboxQueue' = Tail(inboxQueue)
       /\ raised' = <<>>

\* Whether home, or the listens of an inbox that was left, read its messages as
\* well is not seen here.
DismissedBlock ==
  /\ inboxQueue # <<>> /\ Turn.kind = "dismissed"
  /\ user' = Turn.of
  /\ inboxMessages' = <<>> /\ rows' = <<>>
  /\ ObserveMessages(Turn.of)
  /\ straight' \in BOOLEAN
  /\ UNCHANGED <<sheet, contacts, loaded, joined, inboxFiled, opens>>

\* The read of the entry's message, on its own or as one more registration of a
\* listen that others have on it.
EntryBlock ==
  /\ RunTask("childAdded", <<>>)
  /\ inboxAsked' = Append(inboxAsked, Task("message", Turn.of))
  /\ UNCHANGED <<contacts, user, inboxMessages, rows, loaded, raised>>

\* Mutant: the newest message goes first, as on the home screen.
ShowTextPrepends ==
  /\ RunTask("message", <<Task("reload", Me)>>)
  /\ inboxMessages' = <<Turn.of>> \o inboxMessages
\* Mutant: the view is reloaded by the first message only.
ShowTextReloadsOnce ==
  /\ RunTask("message", IF inboxMessages = <<>> THEN <<Task("reload", Me)>> ELSE <<>>)
  /\ inboxMessages' = Append(inboxMessages, Turn.of)

ShowText ==
  /\ RunTask("message", <<Task("reload", Me)>>)
  /\ inboxMessages' = Append(inboxMessages, Turn.of)

\* The answer is appended and a reload dispatched, unless there is no message.
TextBlock ==
  /\ inboxQueue # <<>>
  /\ IF Turn.of \in Missing THEN RunTask("message", <<>>) /\ UNCHANGED inboxMessages
     ELSE ShowText
  /\ UNCHANGED <<contacts, user, rows, inboxAsked, loaded, raised>>

ReloadRowsBlock ==
  /\ RunTask("reload", <<>>)
  /\ rows' = inboxMessages
  /\ UNCHANGED <<contacts, user, inboxMessages, inboxAsked, loaded, raised>>

InboxRuns ==
  \/ ContactBlock \/ DismissedBlock \/ EntryBlock \/ TextBlock \/ ReloadRowsBlock

InboxNext ==
  \/ \E u \in Contacts: Join(u)
  \/ \E t \in Texts: FileText(t)
  \/ \E i \in DOMAIN inboxAsked: AnswerRequest(i)
  \/ Resume
  \/ ShowContacts \/ Dismiss \/ LeaveInbox \/ Send
  \/ \E i \in DOMAIN contacts: SelectContact(i)
  \/ InboxRuns

InboxSpec == InboxInit /\ [][InboxNext]_inboxVars

-----------------------------------------------------------------------------
(* Properties.                                                             *)

\* What the conversation has, then what is to come: blocks, requests, entries.
Reading == Of(inboxQueue, "message") \o Of(inboxAsked, "message") \o Of(inboxQueue, "childAdded")
Chat == inboxMessages \o Reading

\* In whatever order its reads are answered, every entry of the inbox's branch
\* that leads to a message, once the branch is loaded, is on its way or in the
\* conversation, and only once; what leads nowhere is never in it.
EachOnce ==
  /\ ToSet(raised) = IF user \in loaded THEN Branch(user) ELSE {}
  /\ IsInjective(Chat)
  /\ ToSet(raised) \ Missing \subseteq ToSet(Chat) /\ ToSet(Chat) \subseteq ToSet(raised)
  /\ ToSet(inboxMessages) \cap Missing = {}

\* The members of s come in the order they have in r.
Follows(s, r) ==
  \A i, j \in DOMAIN s: i < j => \E k, l \in DOMAIN r: k < l /\ r[k] = s[i] /\ r[l] = s[j]

\* A conversation nobody else was reading when it was opened is in the order of
\* the events while the connection holds, although nothing sorts it.  Any other
\* may be shown out of order.
InOrder == straight => Follows(Chat, raised)

\* The view shows a beginning of the conversation, so that an index path it
\* asks for is in bounds, and never stays behind without a reload to come.
RowsFollow ==
  /\ IsPrefix(rows, inboxMessages)
  /\ rows # inboxMessages => Of(inboxQueue, "reload") # <<>>

\* Nobody is listed twice, and not the user of the phone.
ListedOnce == IsInjective(contacts) /\ \A i \in DOMAIN contacts: contacts[i] # Me

\* What an inbox and the sheet it was opened from show, between the events of
\* the index, the answers of single reads, reloads and reconnects
\* (ContactInboxVC.swift:213, 247-261, ChatClient.swift:22-30).
Conversation == InboxTypeOK /\ EachOnce /\ InOrder /\ RowsFollow /\ ListedOnce

\* A message filed for an open inbox is shown, or the inbox is left.
EveryMessageShown ==
  \A t \in Texts \ Missing: user = t.with /\ t \in inboxFiled ~> user # t.with \/ t \in ToSet(rows)
=================================================================================

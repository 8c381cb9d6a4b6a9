---------------------------- MODULE RecentMessages ----------------------------
(***************************************************************************)
(* The home screen, RecentMessagesVC: one row per chat partner, filled by  *)
(* the observers of ChatClient, wiped once when the user's profile is      *)
(* read, redrawn by a timer; a tap opens the partner's inbox; logout pops  *)
(* the screen, which LoginVC.home keeps alive until the next login tap.    *)
(*                                                                         *)
(* Requests are answered in any order: those that wait for a connection    *)
(* are sent in the order of a dictionary (FPersistentConnection            *)
(* restoreState), and a read of what another screen already listens to is  *)
(* answered with that listen, or at once (FSyncTree addEventRegistration). *)
(* Only what a standing connection was asked first, it answers first.      *)
(* Blocks run one at a time on the main queue.  The blocks of a released   *)
(* screen do nothing (weak self), so they are dropped with it.             *)
(***************************************************************************)
EXTENDS Naturals, Sequences, FiniteSets, SequencesExt

CONSTANTS Users,
          NoUser,        \* nobody signed in
          Profiled,      \* the users with a profile: a registration may leave none
          Messages,      \* [from, to, date] records
          NoMessage,     \* a partner without a row
          MaxLogins,     \* bound: sign-ins; the last one stays
          MaxTaps        \* bound: taps on a row

ASSUME UsersAssumption ==
  IsFiniteSet(Users) /\ NoUser \notin Users /\ Profiled \subseteq Users
ASSUME MessagesAssumption ==
  /\ Messages \subseteq [from: Users, to: Users, date: Nat]
  /\ NoMessage \notin Messages
ASSUME BoundsAssumption ==
  MaxLogins \in Nat /\ MaxTaps \in Nat

VARIABLES
  session,            \* Auth.auth().currentUser
  screen,             \* "login", "shown", or "popped": off screen, still alive
  owner,              \* the uid the screen's observers were registered with
  inboxes,            \* ContactInboxVCs pushed above the screen
  trap,               \* the forced unwrapping that stopped the process
  messagesDictionary, messages,
  table,              \* the rows the table view last loaded
  timer,              \* a reload is scheduled
  asked,              \* requests sent and not answered
  mainQueue,          \* blocks waiting for the main thread
  indexed,            \* users whose index this process observes and has loaded
  noticed,            \* index entries raised to this screen's observer
  filed,              \* messages with their index entries, on the server
  ordered,            \* home was opened over a connection that stood and still does
  logins, taps

vc     == <<messagesDictionary, messages, table, timer, noticed>>
sdk    == <<asked, mainQueue, indexed>>
place  == <<session, screen, owner, inboxes>>
past   == <<ordered, logins, taps>>
vars   == <<place, trap, vc, sdk, filed, past>>

Job(kind, of) == [kind |-> kind, of |-> of]
Requests == [kind: {"profile", "index", "user"}, of: Users]
            \cup [kind: {"message"}, of: Messages]
Blocks == [kind: {"profile", "wipe", "reload", "user"}, of: Users]
          \cup [kind: {"childAdded", "message"}, of: Messages]

TypeOK ==
  /\ session \in Users \cup {NoUser}
  /\ screen \in {"login", "shown", "popped"}
  /\ owner \in Users \cup {NoUser}
  /\ inboxes \in Nat
  /\ trap \in {"none", "currentUser", "navigationController"}
  /\ messagesDictionary \in [Users -> Messages \cup {NoMessage}]
  /\ messages \in Seq(Messages)
  /\ table \in Seq(Messages)
  /\ timer \in BOOLEAN
  /\ asked \in Seq(Requests)
  /\ mainQueue \in Seq(Blocks)
  /\ indexed \subseteq Users
  /\ noticed \subseteq Messages
  /\ filed \subseteq Messages
  /\ ordered \in BOOLEAN
  /\ logins \in 0..MaxLogins /\ taps \in 0..MaxTaps
  /\ session = IF screen = "shown" THEN owner ELSE NoUser

NoRows == [p \in Users |-> NoMessage]

Init ==
  /\ session = NoUser /\ screen = "login" /\ owner = NoUser /\ inboxes = 0
  /\ trap = "none"
  /\ messagesDictionary = NoRows /\ messages = <<>> /\ table = <<>>
  /\ timer = FALSE
  /\ asked = <<>> /\ mainQueue = <<>> /\ indexed = {}
  /\ noticed = {} /\ filed = {}
  /\ ordered = FALSE /\ logins = 0 /\ taps = 0

Running == trap = "none"

-----------------------------------------------------------------------------
(* Coming and going.                                                       *)

\* A new screen: empty, nothing shown, nothing scheduled.
FreshScreen ==
  /\ messagesDictionary' = NoRows
  /\ messages' = <<>>
  /\ table' = <<>>
  /\ timer' = FALSE
  /\ noticed' = {}

\* Mutant: the observers are registered before the profile is asked for.
ViewDidLoadSwapped(u) ==
  /\ asked' = IF u \in indexed THEN <<Job("profile", u)>>
              ELSE <<Job("index", u), Job("profile", u)>>
  /\ mainQueue' = <<>>

\* The profile is asked for, then the index is observed; an index this process
\* already observes, for an earlier login, is not asked for again.
ViewDidLoad(u) ==
  /\ asked' = IF u \in indexed THEN <<Job("profile", u)>>
              ELSE <<Job("profile", u), Job("index", u)>>
  /\ mainQueue' = <<>>

\* A sign-in succeeds and home is pushed (module LoginFlow).
PushHome(u) ==
  /\ Running
  /\ screen = "login" /\ logins < MaxLogins
  /\ session' = u /\ owner' = u
  /\ screen' = "shown"
  /\ logins' = logins + 1
  /\ ViewDidLoad(u)
  /\ UNCHANGED <<inboxes, trap, vc, indexed, filed, taps>>

\* By login: the first one makes the database client in viewDidLoad, so its
\* requests wait for the connection; a later one may share those of old homes.
Login(u) == PushHome(u) /\ ordered' = FALSE

\* By registration, the first thing the process does with the database: the
\* profile's write was answered, so a connection stands.  (A registration
\* whose connection broke since then, or a later one, is as a Login.)
Register(u) ==
  /\ logins = 0 /\ u \in Profiled
  /\ PushHome(u)
  /\ ordered' = TRUE

\* Mutant: logout pops the screen and keeps the session.
LogoutPopsOnly ==
  /\ Running
  /\ screen = "shown" /\ inboxes = 0 /\ logins < MaxLogins
  /\ screen' = "popped"
  /\ UNCHANGED <<session, owner, inboxes, trap, vc, sdk, filed, past>>

\* No observer is removed; the server may cancel those its rules now refuse.
Logout ==
  /\ Running
  /\ screen = "shown" /\ inboxes = 0 /\ logins < MaxLogins
  /\ session' = NoUser
  /\ screen' = "popped"
  /\ indexed' \in SUBSET indexed
  /\ UNCHANGED <<owner, inboxes, trap, vc, asked, mainQueue, filed, past>>

\* Mutant: the old home is kept and pushed again, loaded as it is.
LoginTapReusesHome ==
  /\ Running
  /\ screen = "popped"
  /\ screen' = "login"
  /\ UNCHANGED <<session, owner, inboxes, trap, vc, sdk, filed, past>>

\* loginOrRegister replaces home, and so releases the popped screen.
LoginTap ==
  /\ Running
  /\ screen = "popped"
  /\ screen' = "login"
  /\ FreshScreen
  /\ asked' = <<>> /\ mainQueue' = <<>>
  /\ UNCHANGED <<session, owner, inboxes, trap, indexed, filed, past>>

\* A trap ends the process; the next one starts at the login screen.
Relaunch ==
  /\ ~Running
  /\ trap' = "none"
  /\ session' = NoUser /\ screen' = "login" /\ owner' = NoUser /\ inboxes' = 0
  /\ FreshScreen
  /\ asked' = <<>> /\ mainQueue' = <<>> /\ indexed' = {}
  /\ UNCHANGED <<filed, past>>

-----------------------------------------------------------------------------
(* The server and the SDK.                                                 *)

File(m) ==
  /\ m \notin filed
  /\ filed' = filed \cup {m}
  /\ UNCHANGED <<place, trap, vc, sdk, past>>

\* A request is answered: the index is loaded, or a block is queued.  Over a
\* connection that stands nothing overtakes the profile, asked for first.
Answer ==
  /\ Running
  /\ \E i \in DOMAIN asked:
       /\ ordered => \A j \in 1..(i - 1): asked[j].kind # "profile"
       /\ asked' = RemoveAt(asked, i)
       /\ IF asked[i].kind = "index"
          THEN indexed' = indexed \cup {asked[i].of} /\ UNCHANGED mainQueue
          ELSE mainQueue' = Append(mainQueue, asked[i]) /\ UNCHANGED indexed
  /\ UNCHANGED <<place, trap, vc, filed, past>>

\* The connection breaks: what is unanswered is sent again, in any order.
Reconnect ==
  /\ Running /\ ordered
  /\ ordered' = FALSE
  /\ UNCHANGED <<place, trap, vc, sdk, filed, logins, taps>>

\* An entry of a loaded index is raised to the observers, each message once.
\* The partner nodes below it are loaded with it.
Notice(m) ==
  /\ Running /\ screen # "login" /\ owner \in indexed
  /\ owner \in {m.from, m.to}
  /\ m \in filed \ noticed
  /\ noticed' = noticed \cup {m}
  /\ mainQueue' = Append(mainQueue, Job("childAdded", m))
  /\ UNCHANGED <<place, trap, messagesDictionary, messages, table, timer,
                 asked, indexed, filed, past>>

-----------------------------------------------------------------------------
(* The main queue.                                                         *)

\* The block at the head of the queue runs, and dispatches others behind it.
Run(kind, dispatched) ==
  /\ Running /\ mainQueue # <<>>
  /\ Head(mainQueue).kind = kind
  /\ mainQueue' = Tail(mainQueue) \o dispatched
  /\ UNCHANGED <<session, screen, owner, indexed, filed, past>>

Block == Head(mainQueue)

\* fetchUserProfile answers setupNavBar, which wipes in a later turn.
ProfileBlock ==
  /\ mainQueue # <<>>
  /\ Run("profile", IF Block.of \in Profiled THEN <<Job("wipe", Block.of)>> ELSE <<>>)
  /\ UNCHANGED <<inboxes, trap, vc, asked>>

\* Mutant: the rows go and the table is not reloaded.
WipeBlockNoReload ==
  /\ Run("wipe", <<>>)
  /\ messagesDictionary' = NoRows
  /\ messages' = <<>>
  /\ UNCHANGED <<inboxes, trap, table, timer, noticed, asked>>

WipeBlock ==
  /\ Run("wipe", <<>>)
  /\ messagesDictionary' = NoRows
  /\ messages' = <<>>
  /\ table' = <<>>
  /\ UNCHANGED <<inboxes, trap, timer, noticed, asked>>

ChildAddedBlock ==
  /\ Run("childAdded", <<>>)
  /\ asked' = Append(asked, Job("message", Block.of))
  /\ UNCHANGED <<inboxes, trap, vc>>

ChatPartnerId(m) == IF m.from = session THEN m.to ELSE m.from

\* The values of the dictionary, latest date first; ties in any order.
Sorted(dictionary) ==
  {s \in SetToSeqs({dictionary[p] : p \in Users} \ {NoMessage}) :
     \A i, j \in DOMAIN s: i < j => s[i].date >= s[j].date}

\* A message takes its partner's row, whatever the dates of the two.
Show(m) ==
  /\ messagesDictionary' = [messagesDictionary EXCEPT ![ChatPartnerId(m)] = m]
  /\ messages' \in Sorted(messagesDictionary')
  /\ UNCHANGED <<trap, table, noticed>>

\* Mutant: a message of a listed partner cancels the timer and sets no new one.
MessageBlockNoTimer ==
  /\ Run("message", <<>>)
  /\ IF session = NoUser
     THEN trap' = "currentUser" /\ UNCHANGED vc
     ELSE /\ Show(Block.of)
          /\ timer' = (messagesDictionary[ChatPartnerId(Block.of)] = NoMessage)
  /\ UNCHANGED <<inboxes, asked>>

\* The block of messagesForUserObserver unwraps the current user in
\* chatPartnerId; otherwise the reload is put off by a new timer.
MessageBlock ==
  /\ Run("message", <<>>)
  /\ IF session = NoUser
     THEN trap' = "currentUser" /\ UNCHANGED vc
     ELSE Show(Block.of) /\ timer' = TRUE
  /\ UNCHANGED <<inboxes, asked>>

\* The timer fires: handleReload dispatches the reload.
HandleReload ==
  /\ Running /\ timer
  /\ timer' = FALSE
  /\ mainQueue' = Append(mainQueue, Job("reload", owner))
  /\ UNCHANGED <<place, trap, messagesDictionary, messages, table, noticed,
                 asked, indexed, filed, past>>

ReloadBlock ==
  /\ Run("reload", <<>>)
  /\ table' = messages
  /\ UNCHANGED <<inboxes, trap, messagesDictionary, messages, timer, noticed, asked>>

\* The partner's profile is read: its inbox is pushed on the navigation
\* controller, which a popped screen no longer has.
UserBlock ==
  /\ mainQueue # <<>>
  /\ Run("user", <<>>)
  /\ \/ Block.of \notin Profiled /\ UNCHANGED <<inboxes, trap>>
     \/ /\ Block.of \in Profiled /\ screen = "shown"
        /\ inboxes' = inboxes + 1
        /\ UNCHANGED trap
     \/ /\ Block.of \in Profiled /\ screen = "popped"
        /\ trap' = "navigationController"
        /\ UNCHANGED inboxes
  /\ UNCHANGED <<vc, asked>>

\* A tap on row i of the table reads messages[i].
DidSelectRow(i) ==
  /\ Running /\ screen = "shown" /\ inboxes = 0 /\ taps < MaxTaps
  /\ i \in DOMAIN messages
  /\ taps' = taps + 1
  /\ asked' = Append(asked, Job("user", ChatPartnerId(messages[i])))
  /\ UNCHANGED <<place, trap, vc, mainQueue, indexed, filed, ordered, logins>>

Back ==
  /\ Running /\ inboxes > 0
  /\ inboxes' = inboxes - 1
  /\ UNCHANGED <<session, screen, owner, trap, vc, sdk, filed, past>>

Next ==
  \/ \E u \in Users: Login(u) \/ Register(u)
  \/ Logout
  \/ LoginTap
  \/ Relaunch
  \/ \E m \in Messages: File(m)
  \/ Answer
  \/ Reconnect
  \/ \E m \in Messages: Notice(m)
  \/ ProfileBlock
  \/ WipeBlock
  \/ ChildAddedBlock
  \/ MessageBlock
  \/ HandleReload
  \/ ReloadBlock
  \/ UserBlock
  \/ \E i \in DOMAIN table: DidSelectRow(i)
  \/ Back

Spec == Init /\ [][Next]_vars

\* The server answers, the SDK raises its events, the main queue runs and the
\* timer fires.  Users owe nothing.
MainQueueRuns ==
  \/ ProfileBlock \/ WipeBlock \/ ChildAddedBlock \/ MessageBlock
  \/ ReloadBlock \/ UserBlock

FairSpec ==
  /\ Spec
  /\ WF_vars(Answer) /\ WF_vars(MainQueueRuns) /\ WF_vars(HandleReload)
  /\ \A m \in Messages: WF_vars(Notice(m))

-----------------------------------------------------------------------------
(* Properties.                                                             *)

\* Rows are those of the user signed in: the screen left by a logout is never
\* seen by the next user, although its observers are never removed
\* (LoginClient+LoginVC.swift:16, RecentMessagesVC.swift:57-67).
RowsAreOwn ==
  screen = "shown" =>
    \A i \in DOMAIN table: session \in {table[i].from, table[i].to}

\* A table that lags behind the messages has a reload on its way, however
\* often the timer was put off (RecentMessagesVC.swift:64-76).
ReloadPending ==
  screen # "login" /\ table # messages =>
    timer \/ \E i \in DOMAIN mainQueue: mainQueue[i].kind = "reload"

\* A tap on a row the table shows finds a message at that index, between the
\* wipe, the arrivals and the reloads (RecentMessagesVC.swift:82-84, 120).
TapInBounds == Len(table) <= Len(messages)

InFlight(m) ==
  \/ \E i \in DOMAIN asked: asked[i] = Job("message", m)
  \/ \E i \in DOMAIN mainQueue:
       mainQueue[i] \in {Job("message", m), Job("childAdded", m)}

\* In a home opened by a registration, on a connection that holds, the wipe
\* comes before every message: each one that was read has a row for its
\* partner.  It holds because viewDidLoad asks for the profile before it
\* observes the index (RecentMessagesVC.swift:55-57); a home opened by a login
\* has no such order, and may wipe rows.
NothingWiped ==
  screen = "shown" /\ ordered =>
    \A m \in noticed: ~InFlight(m) => messagesDictionary[ChatPartnerId(m)] # NoMessage

FiledFor(m) == screen = "shown" /\ session \in {m.from, m.to} /\ m \in filed
Listed(m) == \E i \in DOMAIN table: ChatPartnerId(table[i]) = ChatPartnerId(m)

\* Read too early: the wipe took its partner's row, and nothing brings it back.
Wiped(m) ==
  m \in noticed /\ ~InFlight(m) /\ messagesDictionary[ChatPartnerId(m)] = NoMessage

\* A message filed for the user of a home ends up as a row of the table, its
\* own or a later one of the same partner, if the user stays.  Only a home
\* without an order of its answers may lose it to the wipe.
EveryPartnerListed ==
  \A m \in Messages:
    FiledFor(m) ~> screen # "shown" \/ Listed(m) \/ (~ordered /\ Wiped(m))

\* What two unwrappings assert: somebody is signed in when a message is asked
\* for its chat partner (Message.swift:21), and the screen is on a navigation
\* controller when an inbox is pushed (RecentMessagesVC.swift:133).
UnwrapsHold == trap = "none"

=============================================================================

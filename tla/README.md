# AniChat in TLA+

AniChat is an iOS chat application: accounts, a home screen with one row per
chat partner, an inbox per partner, all of it backed by Firebase (Auth, Storage
and the Realtime Database, whose client is vendored under `Pods`).  It has no
tests.  This directory holds TLA+ models of its logic and of the concurrent
parts of the storage engine that is compiled in with the Firebase client, the
TLC configurations that check them, and proofs that TLAPS checks.  Paths below
are relative to `src/AniChat/AniChat/` unless they start with `Pods`
(`src/AniChat/Pods`); those of the storage engine are relative to
`Pods/leveldb-library`.

## 1. The system

Everything in the app runs on one thread, the main queue; the concurrency is
that of callbacks.  Each call to Firebase returns at once and its result comes
back later, as a block on the main queue, when the screen, the signed-in user
and the connection may all have changed.

leveldb is linked into the app as the Firebase database's store on disk.  The
app never sets `isPersistenceEnabled`, so its own data does not go through it;
it is modelled because it is the one part of the program with threads, locks,
files and crashes of its own, and because whoever turns persistence on depends
on it.

| Component | State | Operations | Talks to |
|---|---|---|---|
| Message delivery: `ChatClient.send`, and `FPersistentConnection`, `FRepo` under it | outstanding puts, held completions, listens, the database's `messages` and `user-messages` | send, the fan-out in its completion, connect, resend, acknowledge, disconnect, process death | the database, every screen that listens |
| Login: `LoginVC`, `LoginClient` | form, button, `home`, pending call, Auth session, accounts, `users` | log in, register (four chained calls), log out, relaunch | Auth, Storage, the database; creates the home screen |
| Home: `RecentMessagesVC`, `messagesForUserObserver` | dictionary, sorted array, drawn table, timer, observers | load, message block, wipe, timer, reload, tap, logout | `user-messages`, `messages`, `users`; pushes inboxes |
| Contacts and inbox: `ContactVC`, `contactObserver`, `ContactInboxVC` | the sheet, its list, the messages in answer order, what the view loaded | present, list, tap, dismiss and push, observe, append, reload, leave | `users`, `user-messages`, `messages`, `ChatClient.send` |
| Cells and image cache: `RecentMessageCell`, `Ext+UIImageView` | what a reused cell shows, the shared cache, one global `dataTask` | set message, profile read, download, cancel | `users`, URLSession |
| Firebase server (external) | accounts, database | executes the requests of a connection in order; may refuse by rule | all of the above |
| Storage engine: `db/db_impl.cc`, `db/version_set.cc`, `db/builder.cc` | writers' queue, memtables, logs, tables, manifest, versions, pending outputs, background error | write, iterate, flush, compact, compact by hand, close, die, recover | the file system, one background thread |
| Levels: `db/version_set.cc`, `db/db_impl.cc` | files per level, compaction pointers, snapshots, the merge under way | write, read, flush, pick, merge, move, snapshot | the storage engine |
| Iterators: `table/block.cc`, `table/two_level_iterator.cc`, `table/merger.cc`, `db/db_iter.cc` | positions, directions, saved key | seek, first, last, next, previous | blocks, memtables |
| Log format: `db/log_writer.cc`, `db/log_reader.cc` | block offset; scratch record | add a record, read a record | the write-ahead log and the manifest |
| Skip list: `db/skiplist.h` | nodes, their links, the height | insert, search, iterate | memtables; lock-free readers |
| Tables and filters: `table/table_builder.cc`, `table/block_builder.cc`, `table/filter_block.cc`, `table/table.cc` | the block being built, pending index entry, filter keys, file offset | add, flush, finish, abandon, look up | flushes and merges build tables, lookups read them |
| Caches: `util/cache.cc`, `db/table_cache.cc` | hash table, LRU and in-use lists, reference counts, usage | look up, insert, release, erase, prune | open tables and blocks, on every thread |
| Not of interest | `AppDelegate`'s Core Data template, `MessageCell` and `messageObserver` (unused), `ContactCell` and the avatar cells, `Ext+Date`, `Ext+UIView`, layout, `vtest` (a scratch app) | | |

What makes the components correct, and what is hard about each:

* Delivery.  A message that was sent ends up in both boxes, once, and no index
  entry leads nowhere.  Hard: a put is resent when its answer was lost, requests
  of a dead connection are still executed, a completion is held back while any
  listen is unanswered, rules may refuse a listen or take it back, nothing
  survives the process.
* Login.  One attempt at a time, a profile only at its own uid, home only for
  somebody signed in.  Hard: each of four calls may fail, be lost, or be
  executed after the app gave up; the session outlives the process, the screen
  does not.
* Home.  The table shows the rows of whoever is signed in and catches up with
  what arrived; taps find their row.  Hard: wipe, message, timer and reload are
  separate turns of the main queue, and the profile that wipes may be answered
  after the index; observers are never removed; a popped screen stays alive until
  the next login tap.
* Contacts and inbox.  Nobody is listed twice; a conversation holds each message
  once and in order, and is shown.  Hard: the index event and the read of the
  message are separate round trips, a read shares the listen that home or an
  earlier inbox still has on the message, a reconnect reorders the rest, nothing
  sorts the answers, and a screen that was left may still be answered.
* Cells.  A row shows its own partner's name and picture.  Hard: the cell is
  reused while its read and its download are under way, reads of one profile
  share an answer, and the handle that a reuse cancels is shared by all cells.
* Storage engine.  What was acknowledged is found again, with the durability
  that was asked for; no file is removed that somebody still needs; every caller
  returns.  Hard: groups of writers, a flush in the middle of a compaction,
  failures of any file operation, and a death between any two of them.
* Levels.  A read finds the newest entry at its snapshot.  Hard: files that
  divide the entries of a key, deletions dropped by a merge, flushes placed
  below level 0, and merges under snapshots.
* Iterators, log format, skip list.  Turning round in the middle of a key; a
  file that ends or is damaged anywhere; a search beside an insertion.
* Tables and caches.  A table gives back what was added, through separators that
  are no keys and filters that follow stretches of the file rather than blocks.
  A cached entry is deleted once, after its last user, whatever two threads that
  missed it insert.

`PROJECT.json` lists the hazards line by line, each with the properties that
cover it or the reason why none does.

## 2. The modules

| Module | What it is |
|---|---|
| `Mailbox` | abstract: what delivery promises of the database |
| `ChatDelivery`, `ChatDeliveryProofs` | `ChatClient.send` on the SDK's connection, several phones; proofs |
| `LoginFlow`, `LoginFlowProofs` | login, registration, logout, relaunch on one phone; proofs |
| `RecentMessages`, `RecentMessagesProofs` | the home screen of one phone; proofs |
| `Inbox`, `InboxProofs` | the contacts sheet and the inboxes opened from it; proofs |
| `Cells`, `CellsProofs` | the home screen's reused cells and the image cache; proofs |
| `DurableStore` | abstract: what the storage engine promises its callers |
| `DBImpl`, `DBReadsProofs` | writers, memtables, logs, manifest, background thread, recovery; proofs |
| `Compaction`, `CompactionProofs` | the levels: what a merge takes, drops and writes, and what reads find; proofs |
| `Iterators` | blocks, two levels, merging, the user's view |
| `LogFormat` | the writer and the reader of a log file |
| `SkipList` | one insertion beside lock-free searches |
| `TableFile` | a table file, from the builder to a lookup |
| `TableCache` | the LRU cache under the tables and blocks |
| `MemoryProofs` | proofs about `SkipList` and `TableCache` |
| `MCChatDelivery`, `MCLoginFlow`, `MCRecentMessages`, `MCDBImpl`, `MCCompaction` | instances for TLC |
| `MCScreens` | `RecentMessages`, `Inbox` and `Cells` side by side in one run |
| `MCStorage` | `Compaction`, `Iterators`, `LogFormat`, `SkipList`, `TableFile` and `TableCache` side by side |

`MCScreens` and `MCStorage` are sums, not compositions.  A variable `part`
chooses one module at the start of a behaviour, and the others stay where they
start.  The parts of `MCStorage` meet only through files that no longer change.
Home, cells and inbox share more: the signed-in user, who is constant while they
run, and the SDK's listens.  A read of what somebody already listens to sends
nothing; it is answered with that listen, or at once (`FSyncTree.m:474-506`).
What a screen sees of the others is thus when, and in which order, its requests
are answered, and each of the three modules leaves that open: any request may be
answered next.  An order is assumed only where the app guarantees it, and the
variable that says so (`ordered`, `straight`) is part of the properties.
The pairs that do interact are composed inside a module: app and SDK in
`ChatDelivery`, contacts and inbox in `Inbox`, cells and cache in `Cells`, the
writers, the background thread and the files in `DBImpl`.

### Mailbox

Four steps per message: `Compose`, `Store` (the record under `messages`),
`FileForSender` and `FileForRecipient` (the entries of `user-messages`), in this
order.  `stored` and `userMessages` are the two nodes of the database as the
other screens read them.

### ChatDelivery

One device is one process.  Its variables are the SDK's: `outstanding` is
`outstandingPuts` in key order, `unacked` is `unackedListensCount`, `putsToAck`
the completions held back, `conn` the connection state, `mainQueue` the
completions dispatched to the app.  `wire` holds, for each connection, the puts
the server has not read; `replies` its answers on the way back.  `observed` are
the users whose recents a home has observed, which no home stops doing;
`listened` those of them whose query is still in `listens`; `reading` counts the
listens of single reads.

`Send` is `ChatClient.send` (`Client/ChatClient.swift:78-85`); `FanOut` its
completion block (`85-95`), which ignores its error.  `Connect`,
`Authenticated`, `Disconnect`, `ReceiveAck` and `ReceiveListenReply` are
`restoreAuth`, the auth answer, `onDisconnect`, and the answers to a put and a
listen in `FPersistentConnection.m`.  The rules may refuse a listen in its answer
(`800-803`) or take it back later (`638-643`, `RevokeListen`); either way
`Unlisten` drops the query, which no reconnect asks for again.  `ListensRefusable`
says whether they do.  `Serve` is the server, executing the puts
of one connection in order, those of a dead connection at any time.  `Crash` is
the death of the process and the next launch: the Auth session is kept, and the
root is the login screen again, whoever is signed in.

Left out: transactions, onDisconnect writes, write timeouts and disk
persistence, which the app never uses; the contents of messages; the local
cache's events (the home screen's are in `RecentMessages`).

### LoginFlow

A call is a record (which step, for which form, at which uid), in `pending`
while its callback has not run and in `wire` while a server may execute it; the
two are apart so that a call the client gave up on can still be executed
(`TimeOut`, then `Serve`).  `answers` are results on their way.  `Adopt` is the
Auth client storing the user before it dispatches the callback: the session
changes before `CreateUserDone` reads it.  One action per callback
(`PutDataDone`, `DownloadURLDone`, `CreateUserDone`, `ProfileDone`,
`SignInDone`) and per control (`HandleToggle`, `ShowAvatar`, `SelectAvatar`,
`LoginOrRegister`, `Logout`).  An email stands for its uid; a name is `short` or
`full` by the three characters `forceUserToFullyRegister` asks for.  The other
fields' checks behave as the name's and are left out; a wrong password is a
refusal.

### RecentMessages

`asked` is the sequence of unanswered requests, `mainQueue` the blocks waiting
for the main thread.  `Answer` serves any of the requests.  The first login of a
process makes the database client in `viewDidLoad`, so the profile's read and the
index's listen wait for the connection and `restoreState` sends them in the order
of a dictionary (`FPersistentConnection.m:199-202`, `993-998`); a reconnect does
the same, and a later home may share listens of an earlier one.  There is one case
in which the profile is answered first: a registration has had the write of its
profile acknowledged, so a connection stands when `viewDidLoad` asks.  `Register`
sets `ordered`, and as long as it is set nothing overtakes the profile; `Login`
and `Reconnect` clear it.
One action per block: `ProfileBlock` (which only dispatches
`WipeBlock`), `ChildAddedBlock`, `MessageBlock`, `ReloadBlock`, `UserBlock`.
`table` is what the table view last loaded, apart from `messages`.
`screen = "popped"` is the time between a logout and the next login tap, when
`LoginVC.home` keeps the screen alive.  `indexed` are the users whose index the
process still observes from earlier logins; their entries are raised again
without a round trip.  `trap` is the forced unwrapping of nil that ended the
process, after which nothing happens.

Simplifications: the inner listens per partner are answered from the outer one
that covers them, so `Notice` raises a message directly; a profile is always
read from the server; an armed timer, which keeps a released screen alive for
0.1 s, does not.

### Inbox

`ShowContacts` presents a sheet, `ContactBlock` appends what `contactObserver`
raises, `SelectContact` dismisses the sheet (`didSelectRowAt`), and
`DismissedBlock`, the completion of the dismissal, pushes an inbox and calls
`observeMessages`.  There `EntryBlock` reads one message by its key (the block of
`childAdded`), `TextBlock` appends the answer to `inboxMessages` and dispatches
`ReloadRowsBlock`; `rows` is what the view loaded, apart from `inboxMessages`.
`loaded` says which listens the process already holds, whose events
come without a round trip; `AskOnce` keeps a listen that waits for its answer from
being sent twice.  `Send` reloads the view; what it sends is the business of
`ChatDelivery`, and the message returns as an index entry that `FileText` adds at
any moment.  `AnswerRequest` answers any request, because a message may be read
by somebody else as well: home reads those it is told of, and the reads of an inbox
that was left remain listens, which a reopened inbox shares.  `straight` says that
nobody else read the inbox's messages when it was opened (`DismissedBlock` leaves
open whether that is so) and that the connection has stood since (`Resume` is a
reconnect); then the reads are answered in their order.  `Missing` are index
entries that lead to no message, as a refused write leaves them (`delivery_refused`):
`TextBlock` skips them by its guard (`ContactInboxVC.swift:253`).  Home needs no such
constant, since its observer does nothing with a message that is not there
(`if let`, in `ChatClient`).
Blocks of a controller that was released do nothing: `LeaveInbox` and `Dismiss`
empty the queue, and `RunTask` is the turn of a block of a living one.  Names differ
from those of `RecentMessages` so that `MCScreens` can extend both.

### Cells

`ShowRow` is `cellForRowAt` with the `didSet` of `message`, `prepareForReuse`
included: it cancels the last task started, whichever cell's it is, and asks
for a profile.  `AnswerProfile` answers any of the reads, since those of one
profile share an answer whenever they were made; it fills the labels and takes the
picture from the cache or starts a download.  `Respond` and `ImageBlock` are the
session's answer and the block on the main queue.  `hurried` records the cells that were reused with
something of their own under way, and those that lost a download to another
cell's reuse, so that the properties can speak of the rest.

### DurableStore and DBImpl

`DurableStore` is the interface of `db.h` and `options.h`: a group of writes
becomes visible as a whole, a crash may take back only what was not promised,
and what a synchronous write was answered `ok` for is promised.

`DBImpl` is the engine behind it.  A step is a stretch of code that holds
`mutex_`, or one that runs without it and touches a file, so that every place
where the code unlocks is a place where other threads come in.

* `Enqueue`, `Refuse`, `SlowDown`, `WaitForRoom`, `SwitchMemTable`, `WriteToMem`
  are `DBImpl::Write` and the loop of `MakeRoomForWrite`; `AddRecord`,
  `SyncLog`, `InsertInto`, `FinishWrite` what the leader of a group does.
* `StartFlush`, `LogFlush`, `EndFlush` are `CompactMemTable`; `StartCompaction`,
  `OpenCompactionOutputFile`, `FinishCompactionOutputFile`, `LogCompaction`,
  `InstallCompaction` are `BackgroundCompaction` and `DoCompactionWork`.  A
  flush runs in the middle of a compaction.  `LogEdit` writes the manifest
  without the mutex, `InstallEdit` switches versions with it.
* `DeleteObsoleteFiles` keeps what a version, an iterator or `pending_outputs_`
  names, and is part of each action whose code calls it.
* Each file operation may fail: `AddRecordFails` (a record cut short),
  `SyncFails`, `SwitchFails`, `BuildTableFails`, `FlushEditFails`,
  `CompactionEditFails`, `CompactionFails`.
* `Kill` keeps every byte that was written, `PowerCut` any number of the records
  that were not synced; `BeginClose` and `EndClose` are the destructor; `Open`
  is `DB::Open` with its recovery, `OpenDies` its interruption.

Abstractions: every call writes a key of its own, so a database is a set of
entries and what hides an older entry is left to `Compaction`; level 0 and all
the others are two levels.  Compactions begin in level 0, automatic ones when it
holds enough files; those that begin in a deeper level or with a file charged with
seeks take the same steps and are left out here (`Compaction` has them).  A lone
file of level 0 is moved or merged, as its overlap with the grandparents, which is
not seen, decides.  `reuse_logs` is off, as it is by default; fsync and
renames keep their order, and a log fits into one of its blocks.

### Compaction

A file is a set of entries with its bounds.  `Flush` places a memtable by
`PickLevelForMemTableOutput`; `PickCompaction`, `SetupOtherInputs`
(`AddBoundaryInputs`, the growth of the inputs, the grandparents) and
`IsTrivialMove` choose; `Outputs` is the loop of `DoCompactionWork` with the rules by
which it drops entries and ends files.  `Get` is `Version::Get`, level by level,
`Scan` the merged view.  `contents` and `held` are what `db.h` promises a reader
now and a reader of each snapshot.  A merge begins in one step and is installed
in another, and writes, snapshots and the flush of a memtable come in between.
Sizes are counted in entries; `allowed_seeks` is abstracted: the first of two files
that a lookup looked into, or that may hold the key an iterator passes, may be
charged at any time.  Snapshots of the same sequence number are one.

### Iterators, LogFormat, SkipList, TableFile, TableCache

`Iterators` has positions for state: `BlockSeek`, `BlockNext` and `BlockPrev`
over restart points, the two-level iterator that skips blocks it cannot read and
keeps their error, the merging iterator with its direction, and `DBIter`'s
`FindNextUserEntry` and `FindPrevUserEntry`.  A behaviour is any sequence of
calls on contents chosen at the start.

`LogFormat` writes record after record, fragment by fragment, and may stop in
the middle of any of them; then the file is cut at any byte, or one byte goes
bad, and the reader reads it all.  Every caller in the engine passes
`initial_offset` 0, so the resynchronising of a reader that starts elsewhere is
left out, and every record has at least one byte.

`SkipList` keeps the stores of the writer in order; a reader has a view, and a
load returns any store that is not older than the view, an acquire load of a
release store extending it.  `max_height_` is read without ordering.  With one
writer this is what the C++ memory model allows.

`TableFile` keeps `TableBuilder::Rep` as one record: the block being filled with
its shared prefixes and restart points, the index block, the filter block, the
pending index entry, the offset.  Keys are sequences of bytes with a tag, since
separators and prefixes are about bytes; the size of a written block is chosen.
`InternalGet` reads the finished file, with or without filters, and with a block
that cannot be read.

`TableCache` is one shard of `ShardedLRUCache`: `handles` are the entries ever
made, with their reference counts and how often their deleter was called, `list`
the chains of `HandleTable`, `lru` and `inUse` the two lists.  A chain is the set
of its entries, since a lookup stops at the only entry of its key wherever that
stands; `Resize` doubles the table, which is what its loop comes to when `elems_`
has just passed `length_`.  A thread looks a key up, opens what it stands for
without the mutex, and inserts it (`FindTable`, `BlockReader`); `Erase` and
`Prune` may come at any time, and the cache is destroyed when nobody uses it.

## 3. The runs

| Run | Question | Bounds | Shows |
|---|---|---|---|
| `delivery_safety` (`ChatDelivery.cfg`) | do writes and fan-out stay consistent? | 1 phone with 2 accounts, 2 messages, 2 connections, 1 crash; or 2 phones; no single reads; rules refuse nothing | `TypeOK`, `IndexedIsStored`, `RecipientAfterSender`, `NothingForgotten`, `FanOutOnce` |
| `delivery_live` (`ChatDeliveryLive.cfg`) | do stale requests break the order, and is every message delivered? | 1 message, 3 connections, 1 read, 1 crash; rules refuse nothing | refinement of `Mailbox` (`BoxSpec`), `EveryMessageDelivered` |
| `delivery_refused` | what holds when rules refuse writes and listens? | 1 message, 3 connections, 1 read, 1 crash; any write refusable, any listen refused or revoked; at most 3 listens unanswered | `OkIsStored`, `HeldHasListen` |
| `delivery_refused_completion` | does a completion mean the message is written, as the SDK's header says? | messages refusable | violated |
| `login_flow` (`LoginFlow.cfg`) | can attempts overlap, cross accounts, or repair a lost one? | 2 emails, 3 taps, any failure, any number of relaunches | `TypeOK`, `OneAttempt`, `HomeIsSignedIn`, `ProfileIsOwn`, `HomeHasProfile`, `OrphanForever` |
| `login_short_name` | is the user forced to register fully? | 1 email, 1 tap | violated |
| `recents` (`Screens.cfg`) | do the turns of home, inbox and cells interleave safely, and is everything finally shown? | home: 3 users, one without profile, 3 messages, 2 sign-ins, the first of which may be a registration, 1 tap; inbox: 2 partners, 3 index entries, one without a message, 2 opens; cells: 2 cells, 3 partners, one without profile and one whose url leads to no picture, 3 rows shown, 1 failure; requests answered in any order | `TypeOK`, `RowsAreOwn`, `ReloadPending`, `TapInBounds`, `NothingWiped`, `EveryPartnerListed`; `Conversation`, `EveryMessageShown`; `CellsRight` |
| `recents_late` (`RecentMessagesLate.cfg`) | is somebody signed in, and the screen on its stack, whenever a block runs? | 2 sign-ins, 1 tap | violated |
| `storage_engine` (`DBImpl.cfg`) | does the engine keep what it promises under any interleaving, failure and stop? | nine instances, see below | refinement of `DurableStore` (`StoreSpec`), `TypeOK`, `FilesPresent`, `ReadsStable`, `SequencesFresh`, `NobodySleepsAlone`, `KillKeepsAcknowledged`, `CallsReturn` |
| `storage_torn_record` | is an acknowledged write found after the process died? | 3 calls, records may be cut short, 1 stop | violated |
| `storage_compaction` (`Storage.cfg`) | do reads find what was promised, whatever is merged, iterated, torn or searched meanwhile? | seven instances of the levels, see below; the other five parts | `TypeOK`, `ReadsPromised`, `LevelsOrdered`, `Settles`; `IteratorRight`; `FilesReadBack` (logs and tables); `ReadsBesideInserts`; `CacheRight` |
| `storage_resurrect` (`CompactionSplitKey.cfg`) | does a deleted key stay deleted? | 2 keys, 4 writes, 1 snapshot, files of 2 entries | violated |

### Bounds, and why they are interesting

* Delivery: the second connection resends what the first one sent, the third
  runs with two dead ones behind it; completions are held back by the listens of
  homes, and where there is a single read by one that comes at any moment; two
  messages of two accounts on one phone are the smallest case in which a fan-out
  could pick the wrong author.  Where listens are refused,
  a held completion needs a connection that broke, one whose listens were all taken
  away, and one more to show that nothing is asked for there.  The last connection
  opened stays up, and the last process lives: the bound ends the disturbances,
  not the service.
* Login: three taps are a lost registration, a second one for the taken email or
  another, and a login.
* Home: two messages of one partner overwrite each other's row, a third makes
  the order of rows matter, and the second sign-in is of the same or another user,
  with or without the first one's listens.
* Inbox: two openings are of one partner or of two, so a conversation is opened
  with its listen already held; two texts of one partner can change places.
* Cells: three rows in two cells force a reuse, and p, q, p in one cell leave two
  reads of p beside one of q.
* Engine: at most three calls, one iterator and one manual compaction.  Memtables
  hold one entry, groups two batches, and one file in level 0 slows a writer
  down and two stop it: the second call waits for a flush, the third for a
  compaction.  Each instance has at most one kind of failing operation and at
  most two stops; one has two stops without failures (recovery of a recovery).
* Levels: at most three keys, five writes, four levels of which memtables may go
  to two; two files in level 0 start a merge, level 1 holds one entry, level 2
  three.  Instances differ in the size of output files, in the overlap with
  grandparents allowed, and in snapshots, charged seeks, manual ranges, and
  flushes in the middle of merges.
* Iterators: all histories of three entries over two keys, and of four for
  contents that can be read, spread over two children in every way; the latter
  have blocks of three entries, with two restart points.
* Log: blocks of eight bytes with headers of three, so a record of four fills
  a block's rest, one of twelve takes three blocks, and trailers of one and two
  bytes occur; three records, one bad byte or a cut.
* Skip list: three keys, towers of two levels, one reader.
* Table: three entries of five user keys (one a prefix of another, one that is
  another's shortest separator, one that cannot be incremented) at two tags;
  restarts every two entries; filters for two bytes of the file, so that blocks
  of one byte share a filter and blocks of three skip one.
* Cache: two threads, three keys of which two share a chain of a table with two
  buckets, three insertions, a capacity of two or none; a table that starts with
  one bucket and doubles twice.

Each instance of the storage runs is an element of `Scenarios`, a record of
bounds that the initial state chooses and that never changes.

`CHECK_DEADLOCK FALSE` is set where the model comes to rest: once every message
is filed and shown and the taps are spent, once the calls and the stops of the
engine are used up, or once the trapped process has ended.

### Fairness

* `delivery_live`: weak fairness of the main queue (`FanOut`), of the SDK
  (`Connect`, which retries with a back-off for ever, `Authenticated`, the
  handlers of answers) and of the server (`Serve`); users owe nothing, and
  disconnects stop only because the last connection holds.  The run presumes rules
  that refuse nothing, listens included: with every listen of a process revoked, a
  held completion waits until somebody signs in.
* `recents`: for home and inbox, of the server's answers (of some request, in
  whatever order), of the events and of
  the main queue; for home also of the timer.  No fairness for cells.
* `storage_engine`: `WF_vars(Work)`, the scheduler runs some thread that can
  run.  Callers, failures and stops are not fair.
* `storage_compaction`: `BackgroundRuns`, which is weak fairness of
  `Background` written out, since TLC is too slow at choosing a compaction
  inside `ENABLED`.  Nothing makes writes stop but their bound.

### What the violated properties say

* `CompletionMeansWritten`: the header of the SDK says the block runs after the
  update was written; it also runs after a refusal, and `send` files both index
  entries of a message that does not exist.
* `FullyRegistered`: `forceUserToFullyRegister` alerts and returns to a caller
  that registers all the same.
* `UnwrapsHold`: a message or a tap answered after a logout reaches a forced
  unwrapping of nil, and the app stops.  The case needs only a request in flight
  when the user logs out.
* `KillKeepsAcknowledged`, with records that may be cut short: `Write` notes a
  background error when the sync of the log fails, not when the append does
  (`db/db_impl.cc:1215-1232`).  The next write is acknowledged and lies behind
  the torn record, where recovery does not look.  `options.h:174-176` says no
  writes are lost if just the process crashes.  Without torn records the
  property holds (`storage_engine`).
* `ReadsPromised`, with a snapshot and short files: `SetupOtherInputs` applies
  `AddBoundaryInputs` to the files of the level compacted but not to those of
  the next (`db/version_set.cc:1410`).  If a file there ends with a deletion and
  the next one begins with the value it deletes, a merge that takes only the
  first drops the deletion, and the key is back.

More that the models show and no text in the repository denies:

* A home opened by a login may lose rows.  If the index and a message are answered
  before the profile, the wipe takes the message's row away, and the partner is
  listed again only with a new message or a new login.  The code asks for the profile
  first, but at the first login of a process, after a reconnect and beside the listens
  of an earlier home the order of the answers is not that of the requests.
  `NothingWiped` speaks of the one case where it is, a home opened by a registration;
  `EveryPartnerListed` promises every message of any home, but for those that the
  wipe of a home without that order took.
* After a refused login the button is never enabled again, so that only a
  relaunch leads on.
* An inbox may show its messages out of order: after a reconnect, and when one of
  them is answered with a listen that home or the inbox opened before still has on it.
  `InOrder` speaks of inboxes without either; `EachOnce` of all.
* A cell that is reused too soon may show a stranger's name or picture for good, or
  trap: given p, q and p again, both reads of p may be answered with the first, and
  that of q last.  `CellsRight` speaks of cells that were not hurried.
* When the rules refuse or revoke every listen of a process, completions that were
  held back stay so on a connection that waits for nothing (`AllRefused` in
  `HeldHasListen`), and their messages are not filed unless somebody signs in.
* A manual compaction whose caller leaves on a background error is unregistered
  under the background thread, which then follows a null pointer (`NullManual`);
  the model counts it as a death of the process.
* A memtable flushed in the middle of a manual compaction whose inputs leave a
  gap can land where the outputs go: with both in one instance (three keys, five
  writes) `LevelsOrdered` fails, and the assertion at `db/version_set.cc:747`
  would stop a debug build.  The instances keep the two apart.

The TODO in `ContactVC.swift:45`, that a second login shows the first user's
data, does not describe the home screen: `RowsAreOwn` holds, because each
attempt makes a new `home`.

Each property of a passing run has a mutant in `PROJECT.json`, a plausible slip
in the code (a dropped guard, two calls swapped, a forgotten reload) that the
run rejects.

## 4. The proofs

The proof modules hold for every value of the constants: any number of devices,
accounts, messages, addresses, attempts, connections, logins, reads and crashes; any
number of cells, rows and failing downloads; any number of contacts, texts and
inboxes; any number of threads, keys and entries of the cache; any number of calls,
readers, memtable sizes, triggers, faults and stops of the engine; any number of
keys, levels, writes and options of compactions; any number of keys and levels of a
memtable. They use only the assumptions named in `ChatDelivery`, `LoginFlow`,
`RecentMessages`, `Inbox`, `Cells`, `DBImpl`, `Compaction`, `SkipList` and
`TableCache`: bounds are natural numbers, rules may or may not refuse listens, there is at least one
connection and one attempt, `NoUser`, `NoProfile`, `NoMessage`, `Unsent` and `None`
are no ordinary values (`Nobody` no partner, `NoPartner` no contact), accounts,
users, contacts and texts are finitely many, those with a profile are partners, texts
that are missing are texts, the
current user is no contact of himself, towers have at least one level, the cache is
used by finitely many threads, its hashes and charges are natural numbers and
`NoHandle` is none, its table has at least one bucket, levels hold at least one
entry and output files too (`SanitizeOptions` clips `max_file_size`), the last
level is not compacted by hand (the assertion in `TEST_CompactRange`), and the number of level-0
files that starts a compaction is not above the one that stops writers
(`config::kL0_CompactionTrigger` is 4, `kL0_StopWritesTrigger` 12,
`db/dbformat.h:26` and `32`). Were it above, a writer could wait for a compaction
that nothing starts: `SleepersHaveWork` needs the assumption.

| Theorem | Property | Under the further assumption |
|---|---|---|
| `ChatDeliveryProofs!TypeCorrect` | `TypeOK` | |
| `ChatDeliveryProofs!EntriesSound` | `IndexedIsStored` | rules accept `messages` |
| `ChatDeliveryProofs!OkSound` | `OkIsStored` | |
| `ChatDeliveryProofs!AuthorFirst` | `RecipientAfterSender` | rules accept `user-messages` |
| `ChatDeliveryProofs!Refinement` | `BoxSpec`, the safety of `Mailbox` | rules refuse nothing |
| `ChatDeliveryProofs!HeldReleasable` | `HeldHasListen`, which excepts a process all of whose listens were refused | |
| `ChatDeliveryProofs!HeldAwaitsAnswer` | the same without the exception | rules refuse and revoke no listen |
| `ChatDeliveryProofs!NeverForgotten` | `NothingForgotten` | rules accept `user-messages` |
| `ChatDeliveryProofs!InductiveOnce` | the invariant `FInv` | |
| `ChatDeliveryProofs!OneFanOut` | `FanOutOnce` | |
| `LoginFlowProofs!TypeCorrect` | `TypeOK` | |
| `LoginFlowProofs!AttemptsAreSingle` | `OneAttempt` | |
| `LoginFlowProofs!HomeSignedIn` | `HomeIsSignedIn` | |
| `LoginFlowProofs!ProfilesAreOwn` | `ProfileIsOwn` | |
| `LoginFlowProofs!RegisteredHasProfile` | `HomeHasProfile` | |
| `LoginFlowProofs!OrphansRemain` | `OrphanForever` | |
| `RecentMessagesProofs!TypeCorrect` | `TypeOK` | |
| `RecentMessagesProofs!RowsOwn` | `RowsAreOwn` | |
| `RecentMessagesProofs!ReloadComes` | `ReloadPending` | |
| `RecentMessagesProofs!TapFindsMessage` | `TapInBounds` | |
| `RecentMessagesProofs!WipeComesFirst` | `NothingWiped` | |
| `InboxProofs!ConversationInvariant` | the invariant `InboxInv` | |
| `InboxProofs!ConversationsKept` | `Conversation` | |
| `CellsProofs!CellsInvariant` | the invariant `CellsInv` | |
| `CellsProofs!RowsShowTheirOwn` | `CellsRight` | |
| `DBReadsProofs!FilesInvariant` | the invariant `FileInv` | |
| `DBReadsProofs!EveryTypeRight` | `TypeOK` | |
| `DBReadsProofs!NothingNeededDeleted` | `FilesPresent` | |
| `DBReadsProofs!SleepersHaveWork` | `NobodySleepsAlone` | |
| `DBReadsProofs!NumbersNeverShared` | `SequencesFresh` | |
| `DBReadsProofs!IteratorsRead` | `ReadsStable` | |
| `DBReadsProofs!StoreImplemented` | `StoreSpec`, the safety of `DurableStore` | no write to a log is cut short (`NothingTorn`) |
| `DBReadsProofs!ProcessDeathLosesNothing` | `KillKeepsAcknowledged` | the same |
| `CompactionProofs!LevelsTyping` | `TypeOK` | |
| `CompactionProofs!WholeKeysSuffice` | `LevelsOrdered` and `ReadsPromised` | while no merge splits a key (`KeysWhole`); `ManualAlone` |
| `CompactionProofs!NoSnapshotsWhole` | `KeysWhole` | `NoSnapshots` |
| `CompactionProofs!LevelsStayOrdered` | `LevelsOrdered` | `NoSnapshots`, `ManualAlone` |
| `CompactionProofs!ReadsAsPromised` | `ReadsPromised` | the same |
| `MemoryProofs!StoresInvariant` | the invariant `ListInv` | |
| `MemoryProofs!LockFreeReads` | `ReadsBesideInserts` | |
| `MemoryProofs!CacheInvariant` | the invariant `CacheInv` | |
| `MemoryProofs!CacheCounts` | `CacheRight` | |

### The argument for delivery

`TypeOK` is not inductive: `FanOut` looks up the parties of the message its
completion names, so every write and every completion on its way must be known
to belong to a message that was composed.  The invariant `IInv` therefore types
the queues by sets that depend on the state: `SoundWrites` (the message was
composed; an index write sits in one of its two places, and its message is
stored if rules accept messages), `SoundAcks` (a status `ok` means the write was
applied) and `SoundCompletions`.  No step takes back a message or a write of the
server, so these sets only grow (`StepGrows`, `SoundGrows`), and every queue of
the present state is typed by the sets of the next one (`QueuesGrow`).  What is
left for each action is that it adds only sound writes (`StepQueues`,
`StepFiles`).

For the order of the two index entries, `Order` adds that in the table of puts
and on every wire a recipient's entry is preceded by the author's, unless the
author's is already filed.  Taking the head of a queue, a prefix, or one
answered put out of it keeps that order (`OrderedTail`, `OrderedPrefix`,
`OrderedWithout`), and so does resending the whole table.  `Refinement` then
maps `Send` to `Compose`, and `Serve` to `Store`, one of the two filings or a
stutter.

That a held completion can still be released is not inductive either: after a
disconnect only the next connection's listens release it.  `HeldWhileListened` says
that while the process has any listen left, a connection with held completions waits
for an answer; `restoreState` establishes it, for it sends every listen again, and
the last answer releases what is held.  `HeldObserved` adds that whatever holds
completions back, or is held back, leaves an observer registered; this is where the
app's habit of never removing an observer is used.  So a held completion that waits
for nothing belongs to a process which observes and whose listens are all gone, and
only the rules take one away (`AllRefused`).  Where they do not, `listened` is
`observed`, and the exception is empty (`NoneRefused`, `HeldAwaitsAnswer`).

The last part of `ChatDeliveryProofs` follows a message until its fan-out.  `NeverForgotten` needs no
more than `IInv`: each step that takes a message off a phone's table or queues
puts it where `Kept` still finds it.  `OneFanOut` says more than that no entry is
filed twice, which a set of entries could not tell: no index write is put again
after the server filed it.  For that a message ahead of its fan-out must be in
one place only (`OnePlace`, `OncePlace`), with nothing of its fan-out anywhere,
dead connections included (`NotBoth`); and since an answer moves the message from
the table to the queues, it must not be answered twice, so what the live
connection carries in either direction holds each message's write once, and on
the table (`Lines`).

### The argument for login

That a profile lands at its own uid rests on the session which `CreateUserDone`
reads being that of its own call.  `Single` says there is at most one call and
one answer, behind a login screen whose button is disabled, so nobody else can
change the session; `Owned` follows the uid through the chain: before the
profile write a call carries none, an answer `signedIn` means the session is its
account, a profile write carries the uid of its form's account.  `Owned` speaks
of `wire` too, since a call that the process which made it no longer waits for
may still be executed.  The callbacks all either drop their call or replace it
by the next (`StepDrop`, `StepContinue`).

### The argument for the home screen

`IInv` is `TypeOK` and five parts, one per hazard.

`Released`: without a screen nothing of it is left, no request, no block, no
timer, no row; a logged-out process may still observe old indexes, but raises
nothing to a screen that is gone.  `OwnMessages` and `OwnRows` follow the owner
of a screen: every request and block that carries a message, every entry of the
dictionary and every row is of the owner's chats, and while the screen is shown
the owner is the user of the session.  That is `RowsAreOwn`, and it needs the
popped screen, whose owner is no longer signed in.

`Reloads` is `ReloadPending`.  `TapInBounds` comes with `OwnRows`: the table is
never longer than the array.  The array is the sorted set of the dictionary's rows, so
its length is a cardinality; a message adds a row or replaces its partner's, and
the number of rows does not fall.
Only the wipe shrinks it, and the wipe reloads in the same turn.

`NothingWiped` needs the order of four phases of a home that is `ordered`: the
profile is asked before the index (`AskedFirst`), its answer is queued before any
entry (`Answered`), the wipe it dispatches is queued before any message's block
(`Wiping`), and afterwards every noticed message is in flight or has a row
(`Settled`).  A turn of the main queue, an answer or an event moves from one to
the next.  Only a registration enters the first, with no index loaded and an empty
queue; a login or a reconnect ends the claim, since without the order the index may
be answered in `AskedFirst`.

### The argument for the inbox

What is true of a conversation is said of one sequence: what the inbox has, then
the answers in the main queue, the reads not answered, and the events whose read
is still to come (`inboxMessages \o Reading`).  A message moves along it from the
right to the left: `EntryBlock` and `TextBlock` take the first of one part to the end
of the part before, an answer takes any of the reads.  So what is in the sequence
changes only in five steps: a new entry (`FileText`) is appended; a loaded branch is
put in its place at once, by `ObserveMessages` or when the index is answered
(`IndexAnswered`), where the sequence was empty; an entry without a message drops
out of it (`TextMissing`); and leaving empties it.  That gives `EachOnce`, in
whatever order the answers come.  `InOrder` says that the sequence follows the events
raised (`Follows`, which allows for the entries that dropped out), and it is claimed
while `straight`: then an answer takes the first read (`ReadReturns`), and the steps
that append add to the events as well (`FollowsGrows`).

The parts of `InboxInv` that no property mentions are what these steps rest on.
`ByScreen`: the queue holds blocks of one screen only, so that releasing a
controller may drop the whole queue, and `DismissedBlock`, which is alone in it,
starts from an empty sequence.  `AskedOnce`: an index is asked for once, and not
while its branch is loaded; a second answer would raise every entry again.
`EachOnce` says itself that nothing is raised before that answer, so nothing precedes
what it brings.
`ListingOnce` does for the sheet what `EachOnce` does for the conversation: a user
is listed or on his way once, and none before the listen on `users` is answered.

`Of` filters by a recursive function over a sequence; `ThoseConcat`, `OfConcat` and
`OfElements` say what it makes of a concatenation and which elements it keeps, by
the induction over numbers stated with sets (`SequenceInduction`).  `ByKeyRight`
shows that the `CHOOSE` of `ByKey` has something to choose: every finite branch
can be put in the order of its keys, each entry once (`SortedExists`).

### The argument for the cells

`CellsRight` says what a row shows; the invariant has to say what is on its way
to it.  `OwnUnderWay`: a read or a download for a cell that was not hurried is for
the message the cell has now, since a reuse with something under way is what
hurries it.  So in whatever order reads are answered, what such a cell is given is its
own.  `NameSettles` and `ShowsOwn` are the two halves of `NeverAnothers`, what is left
when the reads, or all that was under way, have come to an end.
`Fresh`: a cell that was never given a message has nothing under way, so the first
message hurries nobody.  `NoneExplained`: a download holds no data only after a
failure or a cancellation, and whoever is cancelled is hurried.  `DataRight` ties
what a download brought to its url, so that the cache holds pictures only.

### The argument for the storage engine

`FileInv` has one part per kind of state.  `QueueOK`: the queue holds exactly the
calls inside `Write`, each once, and the writing one is in front.  `MemoryOK`:
file numbers in use are below `nextFile`, the memtables in memory are the ones
referred to, and every log from `logNumber` on belongs to one of them.
`ManifestOK` speaks of all the states in which the manifest may be read back,
since a failed edit leaves more than one: all their tables exist.  `FlushOK` and
`CompOK` say that a table under construction is pending and known to nobody else,
and that a finished one is in the edit.  `EditsOK`: as long as there is no
background error, the manifest says what the version says and at most one edit
more.  That is why a file which `DeleteObsoleteFiles` removes is in no state of
the manifest either: after an error it removes nothing.  `RecoveredEffect` is the
lemma on `Recover`: the numbers given to recovered logs are new and below the next
one, whatever attempts at opening died before.  It rests on `NumberAt`, a
recursion over the log numbers; the library's induction over numbers has an
operator for a parameter, so `Induction` and `Recursion` state it with sets and
functions, and `MaxFinite` gives `Max` its meaning.

`SleepersHaveWork` adds to `FileInv` that work to do is scheduled, as is whatever
is under way (`Sched`): each step that makes work possible schedules it, and each
end of background work wakes everybody.

The second part divides what is stored: `Settled` (the tables of the directory and
the memtables but the one in use), the memtable in use, the logs still needed.
`Sequences` says that whatever is settled is not beyond the last sequence, that
the rest may only be the group in flight, numbered without gaps behind it, that
no number is stored twice, that every state of the manifest ends where its files
do, and that the entries a compaction has still to write are some of its inputs'.
It is inductive because nearly every step is a `Frame`, which stores nothing that
was not stored (`FrameStep`), and the others are those of the group in flight
(`WritingEntries`).  When a process stops, what is found is part of what was
stored (`FoundStored`, `FoundLess`); when it opens again, the last sequence is
past all that (`OpenedTables`).  For `IteratorsRead`, the tables which an iterator
holds are not written (`TableStep`), and its memtables get only entries beyond its
snapshot (`MemsStep`).

The last part maps the engine to `DurableStore`: a call that enters the queue is
issued, a group that is done without an error commits, a stop, a power cut or an
`Open` that dies is a crash, and everything else is a stutter.  `StoreInv` says
what that takes.  A memtable's entries are in its log (`LogRight`), the table of a
flush holds what the memtable held (`FlushRight`), the outputs of a compaction and
what it has still to merge hold what its inputs held (`CompRight`), so a new
version holds what the old one did and, after a flush, the memtable besides
(`VersionEntries`).  Hence `Held` changes only when a group enters the memtable
(`HeldStep`), beyond the last sequence, where reads do not look yet, and what they
find only when the group is done (`FoundByReads`).  `ManifestRight` says of every
state the manifest may be read back in that its tables hold all that the version
holds, and that the memtable being flushed is in its tables or in a log from the
one it names on: a crash in the middle of an edit, or after a failed one, loses
nothing (`HeldRecoverable`).  For the synchronous writes, `Lasting` is what the
disk is sure to keep, the tables of the version and the synced records of the
memtables; it never shrinks while the database runs (`LastingKept`), a stop leaves
it in `Safe` of whatever state is read back (`LastingSafe`), and a recovery reads
all of that (`SafeRecoverable`).  The mapping also needs that a write is committed
once: `CallsRight` says that the call of a stored entry has returned unless its
group is in flight.

All this is under `NothingTorn`, that appending to a log is not among the faults.
The assumption is needed: with it dropped both properties are false, which is the
counterexample of `storage_torn_record`.  Syncs, creations of files, table builds
and writes of the manifest may fail at any time.

### The argument for the levels

`Typed` is what files are: every number is given once, every entry lies in one file
or in the memtable, no two have a sequence number in common, the bounds of a file
are its least and its greatest entry, and the merge under way is of files that
still stand in their levels, its outputs a division of what it keeps.  It is
inductive without further assumptions, and `LevelsTyping` comes from it.  The
definitions that recurse over a level or a merge (`AddBoundaryInputs`, the files
ended in `Outputs`, the growing range of level 0) are recursive functions over sets
or numbers; `Recursion`, `Induction` and their counterparts for finite sets say
that they exist and what each step is.

`Ordered` says why reads are right.  `KeysDisjoint` is stronger than
`LevelsDisjoint`: below level 0 two files have no user key in common, not only no
entry.  That is what `Version::Get` wants, which searches one file of a level, and
it fails when a merge ends a file between two entries of a key.  `NewestAbove` and
`MemNewest` let a lookup stop at the first level that knows the key (`ReadsFind`).
`CompRight` says of the merge under way what memtables flushed beside it must not
disturb: what is left in its own level is newer (`Older`), nothing else of the next
one lies in its range (`Clear`), and what it leaves out is hidden from every reader
by an entry it has, or is a deletion with nothing of its key below (`LeftOut`).  A
memtable may be placed in the level the outputs will go to, if it overlaps nothing
there; that it does not overlap the outputs either follows only if each key of the
range of the inputs lies in one of them (`Gapless`).  Automatic inputs begin with
one file and grow by files that overlap them, which leaves no gap.  `ScanRight` is
the scan's half of `ReadsPromised`: a flush and a move store nothing new, and a
merge leaves out what no reader sees (`SameScan`).

The proof needs that outputs keep the entries of a key together, `KeysWhole`, and
nothing else about snapshots.  `WholeKeysSuffice` states this: the split key is
not one way among others to bring a deleted key back, as `storage_resurrect` does,
but the only one, and a change to `DoCompactionWork` that never ends a file inside
a key would mend it.  Without snapshots, every entry of a key but the newest is
hidden, so outputs never split one (`NoSnapshotsWhole`), and `LevelsStayOrdered` and
`ReadsAsPromised` follow.  `ManualAlone` keeps flushes in the middle of merges and
compactions of ranges by hand apart: with both, inputs may have a gap, and the
property is false (section 3).  Firebase meets both hypotheses: `APLevelDB`, its
wrapper of the engine, takes no snapshots and compacts no ranges, and its iterators
hold the version they read.

### The argument for the skip list

What a load of a reader may return depends on all stores since its view, not on
the list as it stands, so the invariant speaks of the history `stores`.
`Forward`: every link ever stored leads to a greater key.  `SetBefore`: a link to
a node is preceded by the node's own links at this level and below, which is why
a reader that was led to a node finds its links set, whatever it loads.
`OwnFirst`: only a node's first store may be plain, so the reader's view covers it
once the node was published.  `HeadLinked` and `Adjacent` are what searches need:
when a key between two neighbours is linked, the first one has by then been given
a link that does not skip it; a reader whose view holds that store cannot load an
older one.  `ReaderSafe` says the same of where a reader stands: each link it may
follow is set within its view, and its view is no smaller than when its call
began.  From these a search returns a node that is not beyond the first known
key it should find (`SearchRight`), at every level and for any choice of stores
its loads make.  `max_height_` needs nothing but its range: a search may start at
any level.

### The argument for the cache

`CacheRight` is nearly inductive; what it lacks is a form that the helpers of the
code keep one by one, since a call such as `Insert` is a chain of them whose
intermediate states are no states of the cache.  So the invariant is about a
shard `c`, a record, and `held`, the references that callers have to each entry:
`References` counts them, `Lists` says on which list an entry is, `Table` that
the hash table holds exactly a given set of entries, one of a key, and `Sound` is
all of these with the set of the entries that are cached.  Each helper has a lemma
about the parts it changes: `TableInsertRight` takes the set from `S` to `S`
without what had the key and with the new entry, through `Resize` (`GrownRight`);
`FinishEraseRight` restores the references and lists of an entry that the table has
already let go; in between, table and lists disagree, which is why `Table` has a
set of its own.  `UnrefRight` is where an entry dies: with its last reference, and
then only if the cache has let go of it before.  `ShrunkRight` iterates
`EraseOldest` by induction over its calls.

Over the threads, `HeldBy` counts the users of each entry, and `CacheInv` adds that
a thread has an entry from lookup or insertion to release, and that what is cached
under a key is the entry inserted last (`LastCached`).  `UsersChange` ties a
thread's step to one reference more or less.  After `Close` only the references
matter: nobody uses the cache any more, and all entries have been deleted once.
`Charged` is a sum over a sequence, so `ChargedChange` and `ChargedAppend` prove by
induction what one entry contributes to it.

### Only model-checked

Liveness (`EveryMessageDelivered`, `EveryPartnerListed`, `EveryMessageShown`,
`CallsReturn`, `Settles`), which the prover does not reach; and what is computed by
induction over data: `IteratorRight`, since `Iterators` has recursive operators, in
whose module nothing can be proved, and `FilesReadBack`, which says that the
readers of `LogFormat` and `TableFile` undo what the writers do, record for record
and entry for entry.
Reads under snapshots while a merge does split a key are checked in instances
where they hold, and refuted in the one where they do not.

## 5. Not modelled, and why

* Contact and avatar cells, message cells, extensions, models: they fill views
  or hold fields, and keep no state over which anything could go wrong.
  `messageObserver` and `MessageCell` are used by nobody.
* App delegate, Core Data: template code around an empty store.
* The Firebase client beyond puts, listens, single reads and reconnects:
  transactions, onDisconnect writes, write timeouts and disk persistence are not
  used by the app.
* Arena, coding, checksums, the Bloom filter's hashing and the environment of
  leveldb: encodings and system calls.  What the file system keeps is in `DBImpl`.
* `RepairDB`, `DestroyDB`, properties and approximate sizes: the Firebase client
  wraps approximate sizes without using them, and calls none of the others.
* nanopb, GTMSessionFetcher, Auth and Storage: vendored; the app sees them as
  calls that succeed, fail, are lost or come late, which is how `LoginFlow` and
  `Cells` have them.

The repository holds far more code than the app: of the lines written in C,
C++ or Objective-C nearly all are vendored, and more than half of these are public
headers of Firebase, generated protocol buffers, codecs and system wrappers.
The models cover the app's own logic and the stateful core of the storage
engine, and only a small share of all lines.

## 6. What could come next

1. `App`: `LoginFlow` and `RecentMessages` composed, the navigation stack being
   what they share.

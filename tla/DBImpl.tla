-------------------------------- MODULE DBImpl --------------------------------
(***************************************************************************)
(* leveldb's DBImpl: the write queue, the write-ahead log, the memtables,  *)
(* the one background thread that turns them into table files and merges   *)
(* table files, the manifest that says which files make up the database,   *)
(* and the recovery that reads it all back.                                *)
(*                                                                         *)
(* Every call writes a key of its own, so a database is a set of entries   *)
(* <<call, sequence number>>; what hides or drops an entry of the same key *)
(* is in Compaction.  Levels are two: level 0, and deep for all the others.*)
(* A step is a stretch of code that runs under mutex_, or one that runs    *)
(* without it and touches a file.                                          *)
(***************************************************************************)
EXTENDS Naturals, Sequences, FiniteSets, SequencesExt

CONSTANTS
  MaxCalls,       \* bound: the calls of Write, numbered as they are made
  Readers,        \* the iterators open at the same time
  Manuals,        \* the calls of TEST_CompactRange, each made at most once
  None,           \* a null pointer
  MemCapacity,    \* the entries that fill a memtable (write_buffer_size)
  MaxGroup,       \* the batches that fill a group
  L0Compaction, L0Slowdown, L0Stop,   \* the triggers of config
  Scenarios       \* bounds, see limits

Calls == 1..MaxCalls
Kinds == {"async", "sync", "flush"}
Faults == {"append", "sync", "create", "build", "manifest"}

ASSUME ScenariosAssumption ==
  Scenarios \subseteq [calls: Nat, kinds: SUBSET Kinds, readers: SUBSET Readers, manuals: SUBSET Manuals,
                       faults: SUBSET Faults, stops: Nat]
ASSUME LimitsAssumption ==
  /\ MaxCalls \in Nat
  /\ MemCapacity \in Nat \ {0}
  /\ MaxGroup \in Nat \ {0}
  /\ L0Compaction \in Nat \ {0}
  /\ L0Slowdown \in Nat \ {0}
  /\ L0Stop \in Nat /\ L0Compaction <= L0Stop
VARIABLES
  kind,       \* what each call asks for: WriteOptions.sync, or a null batch
  st,         \* where each call is
  delayed,    \* the calls whose allow_delay is used up
  writers,    \* writers_
  group,      \* the group its leader is writing, mutex_ released
  mst,        \* where each manual compaction is
  mdone,      \* the manual compactions marked done
  manual,     \* manual_compaction_
  mem, imm,   \* mem_ and imm_, named by the number of the log that covers them
  mems,       \* the memtables somebody holds, by that number
  lastSeq, nextFile, logNumber, version,    \* of VersionSet
  scheduled,  \* background_compaction_scheduled_
  flush,      \* CompactMemTable under way
  comp,       \* the compaction under way
  pending,    \* pending_outputs_
  bgError,    \* bg_error_ is not ok
  view,       \* what each open iterator holds
  up,         \* "open", "closing" (shutting_down_ is set) or "down"
  kills, cuts,  \* how often the process ended, and the power failed
  limits,     \* bounds of a behaviour: how many calls are made and of which
              \* kinds, who reads, which manual compactions run, what may fail,
              \* how often it all stops
  logs,       \* log files: records in order, and how many of them are on the disk
  tables,     \* table files
  manifest    \* the states the manifest may be read back in, the surest first

clients == <<kind, st, delayed, mst, mdone>>
memory == <<mem, imm, mems>>
numbers == <<lastSeq, nextFile, logNumber>>
background == <<scheduled, flush, comp, pending, bgError, manual>>
bounds == <<kills, cuts, limits>>
disk == <<logs, tables, manifest>>
vars == <<clients, writers, group, memory, numbers, version, background,
          view, up, bounds, disk>>

-----------------------------------------------------------------------------
CallStates == {"idle", "queued", "waiting", "writing", "flushcheck", "flushwait",
               "ok", "error", "lost"}
ManualStates == {"idle", "running", "waiting", "done"}
Entries == Calls \X Nat
Versions == [l0: SUBSET Nat, deep: SUBSET Nat]
Manifests == [l0: SUBSET Nat, deep: SUBSET Nat, log: Nat, next: Nat, seq: Nat]

Edits == [l0: SUBSET Nat, deep: SUBSET Nat, del: SUBSET Nat]
Records == [entries: SUBSET Entries, whole: BOOLEAN]
Groups == [phase: {"append", "sync", "insert", "finish"},
           status: {"ok", "error", "syncerror"}, size: Nat, entries: SUBSET Entries]
Flushes == [out: Nat, installing: BOOLEAN, edit: {None} \cup Edits, log: Nat]
Compactions ==
  [state: {"merging", "writing", "installing"}, manual: Manuals \cup {None},
   moves: BOOLEAN, base: SUBSET Nat, inputs: SUBSET Nat, left: SUBSET Entries,
   out: Nat \cup {None}, outs: SUBSET Nat, tried: BOOLEAN, edit: {None} \cup Edits]
Views == [snapshot: Nat, mems: SUBSET Nat, files: SUBSET Nat, seen: SUBSET Entries]

ASSUME NoneAssumption ==
  None \notin Nat \cup Manuals \cup Groups \cup Flushes \cup Compactions \cup Views

\* The files of a version or of a state of the manifest.
Files(v) == v.l0 \cup v.deep

\* A directory, or the memory, after file n was made anew, and after all those
\* of f were.
Put(f, n, x) == [k \in DOMAIN f \cup {n} |-> IF k = n THEN x ELSE f[k]]
Over(f, g) == [k \in DOMAIN f \cup DOMAIN g |-> IF k \in DOMAIN f THEN f[k] ELSE g[k]]
EmptyLog == [recs |-> <<>>, synced |-> 0]

Apply(edit, v) == [v EXCEPT !.l0 = (@ \ edit.del) \cup edit.l0,
                            !.deep = (@ \ edit.del) \cup edit.deep]

\* What the open iterators hold, and the memtables held by anybody.
Viewed == {view[r] : r \in {q \in Readers: view[q] # None}}
HeldMems == ({mem, imm} \ {None}) \cup UNION {v.mems : v \in Viewed}

TypeOK ==
  /\ kind \in [Calls -> Kinds]
  /\ st \in [Calls -> CallStates]
  /\ delayed \subseteq Calls
  /\ writers \in Seq(Calls)
  /\ group # None => group \in Groups /\ group.size \in 1..Len(writers)
  /\ mst \in [Manuals -> ManualStates]
  /\ mdone \subseteq Manuals
  /\ manual \in Manuals \cup {None}
  /\ mem \in Nat
  /\ imm \in Nat \cup {None}
  /\ DOMAIN mems \subseteq Nat
  /\ \A n \in DOMAIN mems: mems[n] \subseteq Entries
  /\ up # "down" => DOMAIN mems = HeldMems
  /\ <<lastSeq, nextFile, logNumber>> \in Nat \X Nat \X Nat
  /\ version \in Versions
  /\ scheduled \in BOOLEAN
  /\ bgError \in BOOLEAN
  /\ flush \in Flushes \cup {None}
  /\ comp \in Compactions \cup {None}
  /\ comp # None => comp.inputs \subseteq comp.base
  /\ pending \subseteq Nat
  /\ view \in [Readers -> Views \cup {None}]
  /\ up \in {"open", "closing", "down"}
  /\ kills \in Nat
  /\ cuts \in Nat
  /\ limits \in Scenarios
  /\ DOMAIN logs \subseteq Nat
  /\ \A n \in DOMAIN logs: logs[n] \in [recs: Seq(Records), synced: Nat]
  /\ DOMAIN tables \subseteq Nat
  /\ \A n \in DOMAIN tables: tables[n] \subseteq Entries
  /\ manifest \in Seq(Manifests) /\ manifest # <<>>

-----------------------------------------------------------------------------
(* What is stored where.                                                   *)

\* RecoverLogFile: the records up to the first one that is not whole.
ReadLog(recs) ==
  UNION {recs[i].entries : i \in
    {j \in DOMAIN recs: \A k \in 1..j: recs[k].whole}}

\* Mutant: the log the manifest names is taken for an older one.
LogsFromNext(n) == {l \in DOMAIN logs: l > n}

LogsFrom(n) == {l \in DOMAIN logs: l >= n}

\* What a recovery from state m of the manifest would read.
Recoverable(m) ==
  UNION ({tables[n] : n \in Files(m) \cap DOMAIN tables}
         \cup {ReadLog(logs[l].recs) : l \in LogsFrom(m.log)})

\* The entries of the open database, the ones of a group in flight included.
Held ==
  mems[mem] \cup (IF imm = None THEN {} ELSE mems[imm])
  \cup UNION {tables[n] : n \in Files(version) \cap DOMAIN tables}

CallsOf(entries) == {e[1] : e \in entries}
UpTo(entries, snapshot) == {e \in entries: e[2] <= snapshot}

NoVersion == [l0 |-> {}, deep |-> {}]

\* A process that does not run: nothing in memory, nobody waiting.
Down ==
  /\ writers = <<>> /\ group = None
  /\ manual = None /\ mem = 0 /\ imm = None /\ mems = <<>>
  /\ lastSeq = 0 /\ nextFile = 0 /\ logNumber = 0 /\ version = NoVersion
  /\ scheduled = FALSE /\ flush = None /\ comp = None /\ pending = {} /\ bgError = FALSE
  /\ view = [r \in Readers |-> None]
  /\ up = "down"

\* NewDB: an empty manifest; the first Open does the rest.
Init ==
  /\ kind = [c \in Calls |-> "async"]
  /\ st = [c \in Calls |-> "idle"]
  /\ delayed = {}
  /\ mst = [m \in Manuals |-> "idle"]
  /\ mdone = {}
  /\ kills = 0 /\ cuts = 0
  /\ limits \in Scenarios
  /\ logs = <<>> /\ tables = <<>>
  /\ manifest = <<[l0 |-> {}, deep |-> {}, log |-> 0, next |-> 2, seq |-> 0]>>
  /\ Down

\* SignalAll of background_work_finished_signal_.
WokenCalls(s) ==
  [c \in Calls |-> CASE s[c] = "waiting" -> "queued"
                     [] s[c] = "flushwait" -> "flushcheck"
                     [] OTHER -> s[c]]
WokenManuals(s) ==
  [m \in Manuals |-> IF s[m] = "waiting" THEN "running" ELSE s[m]]

SignalAll == st' = WokenCalls(st) /\ mst' = WokenManuals(mst)

\* Mutant: an immutable memtable is not reason enough to schedule work.
WorkToDoTablesOnly ==
  /\ up = "open"
  /\ ~bgError
  /\ manual # None \/ Cardinality(version.l0) >= L0Compaction

\* MaybeScheduleCompaction.
WorkToDo ==
  /\ up = "open"
  /\ ~bgError
  /\ imm # None \/ manual # None \/ Cardinality(version.l0) >= L0Compaction

MaybeScheduleCompaction == scheduled' = (scheduled \/ WorkToDo')

-----------------------------------------------------------------------------
(* Write.                                                                  *)

Enqueue(c, k) ==
  /\ up = "open"
  /\ st[c] = "idle" /\ \A d \in 1..(c - 1): st[d] # "idle"
  /\ c <= limits.calls /\ k \in limits.kinds
  /\ kind' = [kind EXCEPT ![c] = k]
  /\ st' = [st EXCEPT ![c] = "queued"]
  /\ writers' = Append(writers, c)
  /\ UNCHANGED <<delayed, mst, mdone, group, memory, numbers, version,
                 background, view, up, bounds, disk>>

\* The calls at the front of the queue return; a flush then looks at imm_.
Return(n, ok, s) ==
  /\ writers' = SubSeq(writers, n + 1, Len(writers))
  /\ st' = [c \in Calls |->
             IF \A i \in 1..n: writers[i] # c THEN s[c]
             ELSE IF ~ok THEN "error"
             ELSE IF kind[c] = "flush" THEN "flushcheck" ELSE "ok"]

\* BuildBatchGroup: how many calls of the queue the leader writes.
Joins(i) ==
  /\ ~(kind[writers[i]] = "sync" /\ kind[writers[1]] # "sync")
  /\ \/ kind[writers[i]] = "flush"
     \/ Cardinality({j \in 1..i: kind[writers[j]] # "flush"}) <= MaxGroup
GroupSize ==
  Max({n \in 1..Len(writers): \A i \in 2..n: Joins(i)})

\* The batches of the group, numbered from the last sequence on.
Numbered(n) ==
  LET data == {i \in 1..n: kind[writers[i]] # "flush"} IN
  {<<writers[i], lastSeq + Cardinality({j \in data: j <= i})>> : i \in data}

BuildBatchGroup ==
  /\ group' = [phase |-> "append", size |-> GroupSize,
               entries |-> Numbered(GroupSize), status |-> "ok"]
  /\ st' = [st EXCEPT ![Head(writers)] = "writing"]
  /\ UNCHANGED writers

\* The writer at the front, awake, with nobody writing.
Leads(c) ==
  /\ writers # <<>> /\ c = Head(writers)
  /\ st[c] = "queued"
  /\ up = "open"

MustSlowDown(c) ==
  /\ kind[c] # "flush" /\ c \notin delayed
  /\ Cardinality(version.l0) >= L0Slowdown
HasRoom(c) == kind[c] # "flush" /\ Cardinality(mems[mem]) < MemCapacity
\* Mutant: the memtable is switched although the last one is not flushed yet.
MustWaitForLevel0 == Cardinality(version.l0) >= L0Stop
MustWait == imm # None \/ Cardinality(version.l0) >= L0Stop

\* MakeRoomForWrite yields the background error.
Refuse(c) ==
  /\ Leads(c)
  /\ bgError
  /\ Return(1, FALSE, st)
  /\ UNCHANGED <<kind, delayed, mst, mdone, group, memory, numbers, version,
                 background, view, up, bounds, disk>>

\* One millisecond without mutex_, once per call.
SlowDown(c) ==
  /\ Leads(c)
  /\ ~bgError
  /\ MustSlowDown(c)
  /\ delayed' = delayed \cup {c}
  /\ UNCHANGED <<kind, st, mst, mdone, writers, group, memory, numbers, version,
                 background, view, up, bounds, disk>>

WaitForRoom(c) ==
  /\ Leads(c)
  /\ ~bgError /\ ~MustSlowDown(c) /\ ~HasRoom(c)
  /\ MustWait
  /\ st' = [st EXCEPT ![c] = "waiting"]
  /\ UNCHANGED <<kind, delayed, mst, mdone, writers, group, memory, numbers,
                 version, background, view, up, bounds, disk>>

WriteToMem(c) ==
  /\ Leads(c)
  /\ ~bgError /\ ~MustSlowDown(c)
  /\ HasRoom(c)
  /\ BuildBatchGroup
  /\ UNCHANGED <<kind, delayed, mst, mdone, memory, numbers, version,
                 background, view, up, bounds, disk>>

\* A new log and a new memtable; the old memtable becomes imm_.  A null batch
\* returns at once, any other write goes on with its group.
SwitchMemTable(c) ==
  /\ Leads(c)
  /\ ~bgError /\ ~MustSlowDown(c) /\ ~HasRoom(c) /\ ~MustWait
  /\ logs' = Put(logs, nextFile, EmptyLog)
  /\ imm' = mem
  /\ mem' = nextFile
  /\ mems' = Put(mems, nextFile, {})
  /\ nextFile' = nextFile + 1
  /\ UNCHANGED <<up, bgError, manual, version>>
  /\ MaybeScheduleCompaction
  /\ IF kind[c] = "flush"
     THEN Return(1, TRUE, st) /\ UNCHANGED group
     ELSE BuildBatchGroup
  /\ UNCHANGED <<kind, delayed, mst, mdone, lastSeq, logNumber,
                 flush, comp, pending, view, bounds, tables, manifest>>

\* The new log file cannot be created; its number is given back.
SwitchFails(c) ==
  /\ "create" \in limits.faults
  /\ Leads(c)
  /\ ~bgError /\ ~MustSlowDown(c) /\ ~HasRoom(c) /\ ~MustWait
  /\ Return(1, FALSE, st)
  /\ UNCHANGED <<kind, delayed, mst, mdone, group, memory, numbers, version,
                 background, view, up, bounds, disk>>

Leader == Head(writers)

Phase(from, to) ==
  /\ group # None /\ group.phase = from
  /\ group' = [group EXCEPT !.phase = to]
  /\ UNCHANGED <<clients, writers, numbers, version, background, view, up,
                 bounds, tables, manifest>>

AddRecord ==
  /\ Phase("append", IF kind[Leader] = "sync" THEN "sync" ELSE "insert")
  /\ logs' = [logs EXCEPT ![mem].recs =
                Append(@, [entries |-> group.entries, whole |-> TRUE])]
  /\ UNCHANGED memory

SyncLog ==
  /\ Phase("sync", "insert")
  /\ logs' = [logs EXCEPT ![mem].synced = Len(logs[mem].recs)]
  /\ UNCHANGED memory

InsertInto ==
  /\ Phase("insert", "finish")
  /\ mems' = [mems EXCEPT ![mem] = @ \cup group.entries]
  /\ UNCHANGED <<mem, imm, logs>>

PhaseFails(from, status) ==
  /\ group # None /\ group.phase = from
  /\ group' = [group EXCEPT !.phase = "finish", !.status = status]
  /\ UNCHANGED <<clients, writers, memory, numbers, version, background, view,
                 up, bounds, tables, manifest>>

\* A part of the record may have reached the file.
AddRecordFails ==
  /\ "append" \in limits.faults
  /\ PhaseFails("append", "error")
  /\ \/ logs' = [logs EXCEPT ![mem].recs =
                   Append(@, [entries |-> group.entries, whole |-> FALSE])]
     \/ UNCHANGED logs

SyncFails ==
  /\ "sync" \in limits.faults
  /\ PhaseFails("sync", "syncerror")
  /\ UNCHANGED logs

\* mutex_ is taken again: the sequence advances, the calls of the group return.
FinishWrite ==
  /\ group # None /\ group.phase = "finish"
  /\ lastSeq' = lastSeq + Cardinality(group.entries)
  /\ IF group.status = "syncerror" /\ ~bgError
     THEN /\ Return(group.size, FALSE, WokenCalls(st))
          /\ mst' = WokenManuals(mst)
          /\ bgError' = TRUE
     ELSE /\ Return(group.size, group.status = "ok", st)
          /\ UNCHANGED <<mst, bgError>>
  /\ group' = None
  /\ UNCHANGED <<kind, delayed, mdone, memory, nextFile, logNumber, version,
                 scheduled, flush, comp, pending, manual, view, up, bounds,
                 disk>>

\* TEST_CompactMemTable, after its null batch was written.
AwaitFlush(c) ==
  /\ up = "open"
  /\ st[c] = "flushcheck"
  /\ st' = [st EXCEPT ![c] = CASE imm = None -> "ok"
                               [] imm # None /\ bgError -> "error"
                               [] OTHER -> "flushwait"]
  /\ UNCHANGED <<kind, delayed, mst, mdone, writers, group, memory, numbers,
                 version, background, view, up, bounds, disk>>

-----------------------------------------------------------------------------
(* Iterators, and Get, which is one that lives for a single read.          *)

Seen(v) ==
  UpTo(UNION ({mems[n] : n \in v.mems \cap DOMAIN mems}
              \cup {tables[n] : n \in v.files \cap DOMAIN tables}), v.snapshot)

Capture == [snapshot |-> lastSeq, mems |-> {mem, imm} \ {None},
            files |-> Files(version)]

\* NewInternalIterator; what it must go on seeing is remembered with it.
NewIterator(r) ==
  /\ up = "open"
  /\ r \in limits.readers
  /\ view[r] = None
  /\ view' = [view EXCEPT ![r] =
                [snapshot |-> Capture.snapshot, mems |-> Capture.mems,
                 files |-> Capture.files, seen |-> UpTo(Held, lastSeq)]]
  /\ UNCHANGED <<clients, writers, group, memory, numbers, version, background,
                 up, bounds, disk>>

\* Mutant: the reference of the flushed memtable is kept for good.
UnrefForgotten(f) == f

\* Unref: a memtable nobody holds is freed.
Unref(f) == Restrict(f, DOMAIN f \cap HeldMems')

\* CleanupIteratorState.
CloseIterator(r) ==
  /\ view[r] # None
  /\ view' = [view EXCEPT ![r] = None]
  /\ UNCHANGED <<mem, imm>>
  /\ mems' = Unref(mems)
  /\ UNCHANGED <<clients, writers, group, numbers, version, background,
                 up, bounds, disk>>

-----------------------------------------------------------------------------
(* The background thread.                                                  *)

\* Mutant: the versions that iterators hold are not counted.
LiveTablesCurrent ==
  pending \cup Files(version) \cup (IF comp = None THEN {} ELSE comp.base)

\* AddLiveFiles, with the outputs under construction.
LiveTables ==
  pending \cup Files(version) \cup (UNION {v.files : v \in Viewed})
  \cup (IF comp = None THEN {} ELSE comp.base)
\* f and l are the files before it runs.
DeleteObsoleteFiles(f, l) ==
  IF bgError'
  THEN tables' = f /\ logs' = l
  ELSE /\ tables' = Restrict(f, DOMAIN f \cap LiveTables')
       /\ logs' = Restrict(l, {n \in DOMAIN l: n >= logNumber'})

\* LogAndApply, up to the unlock: the edit goes to the manifest.
LogEdit(edit, log) ==
  manifest' = Append(manifest,
    [Apply(edit, Last(manifest)) EXCEPT !.log = log, !.next = nextFile', !.seq = lastSeq])

\* LogAndApply, after the manifest was synced.
InstallEdit(edit, log) ==
  /\ manifest' = <<Last(manifest)>>
  /\ version' = Apply(edit, version)
  /\ logNumber' = log

\* LogAndApply, when the manifest could not be written or synced: the edit may
\* be read back or not.
EditFails ==
  /\ "manifest" \in limits.faults
  /\ manifest' \in {manifest, Front(manifest)}
  /\ UNCHANGED <<version, logNumber>>

\* Mutant: nobody is told that background work has finished.
EndBackgroundCallSilent ==
  /\ scheduled' = WorkToDo'
  /\ UNCHANGED <<st, mst>>

\* The end of BackgroundCall.
EndBackgroundCall ==
  /\ scheduled' = WorkToDo'
  /\ st' = WokenCalls(st)
  /\ mst' = WokenManuals(mst)

Running == scheduled /\ flush = None /\ comp = None

\* BackgroundCall while shutting down or after an error, or with nothing to do.
BackgroundCallIdle ==
  /\ Running
  /\ \/ up = "closing"
     \/ bgError
     \/ imm = None /\ manual = None /\ Cardinality(version.l0) < L0Compaction
  /\ UNCHANGED <<up, bgError, imm, manual, version>>
  /\ EndBackgroundCall
  /\ UNCHANGED <<kind, delayed, mdone, writers, group, mem, mems, numbers,
                 flush, comp, pending, view, bounds, disk>>

\* CompactMemTable and WriteLevel0Table up to the unlock, from the background
\* call or from inside the loop of DoCompactionWork, once for a key there.
StartFlush ==
  /\ flush = None
  /\ imm # None
  /\ \/ Running /\ up = "open" /\ ~bgError
     \/ comp # None /\ comp.state \in {"merging", "writing"} /\ comp.left # {} /\ ~comp.tried
  /\ flush' = [out |-> nextFile, installing |-> FALSE, edit |-> None, log |-> 0]
  /\ nextFile' = nextFile + 1
  /\ pending' = pending \cup {nextFile}
  /\ tables' = Put(tables, nextFile, {})
  /\ comp' = IF comp = None THEN None ELSE [comp EXCEPT !.tried = TRUE]
  /\ UNCHANGED <<clients, writers, group, memory, lastSeq, logNumber, version,
                 scheduled, bgError, manual, view, up, bounds, logs, manifest>>

\* CompactMemTable failed; the background call ends unless it was nested.
FlushFails ==
  /\ flush' = None
  /\ UNCHANGED <<up, imm, manual>>
  /\ IF comp = None
     THEN /\ bgError' = TRUE
          /\ EndBackgroundCall
     ELSE /\ bgError' = TRUE
          /\ SignalAll
          /\ UNCHANGED scheduled

Building == flush # None /\ ~flush.installing

\* BuildTable: an empty memtable leaves no file.
BuildTable ==
  tables' = IF mems[imm] = {} THEN Restrict(tables, DOMAIN tables \ {flush.out})
            ELSE [tables EXCEPT ![flush.out] = mems[imm]]

\* BuildTable failed and deleted its file.
BuildTableFails ==
  /\ "build" \in limits.faults
  /\ Building
  /\ tables' = Restrict(tables, DOMAIN tables \ {flush.out})
  /\ pending' = pending \ {flush.out}
  /\ UNCHANGED version
  /\ FlushFails
  /\ UNCHANGED <<kind, delayed, mdone, writers, group, mem, mems, numbers,
                 comp, view, bounds, logs, manifest>>

\* The table is built while the database closes.
FlushAborted ==
  /\ Building
  /\ up = "closing"
  /\ BuildTable
  /\ pending' = pending \ {flush.out}
  /\ UNCHANGED version
  /\ FlushFails
  /\ UNCHANGED <<kind, delayed, mdone, writers, group, mem, mems, numbers,
                 comp, view, bounds, logs, manifest>>

\* The table is built and its edit logged, at level 0 or, where nothing
\* overlaps it, deeper.
LogFlush(level) ==
  /\ Building
  /\ up = "open"
  /\ LET new == IF mems[imm] = {} THEN {} ELSE {flush.out}
         edit == [l0 |-> IF level = 0 THEN new ELSE {},
                  deep |-> IF level = 0 THEN {} ELSE new, del |-> {}]
     IN /\ flush' = [flush EXCEPT !.installing = TRUE, !.edit = edit, !.log = mem]
        /\ UNCHANGED nextFile
        /\ LogEdit(edit, mem)
        /\ BuildTable
  /\ pending' = pending \ {flush.out}
  /\ UNCHANGED <<clients, writers, group, memory, lastSeq, logNumber, version,
                 scheduled, comp, bgError, manual, view, up, bounds, logs>>

EndFlush ==
  /\ flush # None /\ flush.installing
  /\ InstallEdit(flush.edit, flush.log)
  /\ imm' = None
  /\ UNCHANGED <<mem, up, view, manual, bgError, pending, comp>>
  /\ mems' = Unref(mems)
  /\ DeleteObsoleteFiles(tables, logs)
  /\ flush' = None
  /\ IF comp = None
     THEN EndBackgroundCall
     ELSE SignalAll /\ UNCHANGED scheduled
  /\ UNCHANGED <<kind, delayed, mdone, writers, group, lastSeq, nextFile,
                 bounds>>

FlushEditFails ==
  /\ flush # None /\ flush.installing
  /\ EditFails
  /\ FlushFails
  /\ UNCHANGED <<kind, delayed, mdone, writers, group, mem, mems, lastSeq,
                 nextFile, comp, pending, view, bounds, logs, tables>>

\* The level-0 files of a compaction and the deeper ones they overlap.
Inputs == {in0 \cup in1 : in0 \in (SUBSET version.l0) \ {{}}, in1 \in SUBSET version.deep}

\* BackgroundCompaction without an immutable memtable: a manual compaction
\* that was asked for comes first.
ManualHasNothing ==
  /\ Running /\ up = "open" /\ ~bgError /\ imm = None
  /\ manual # None
  /\ mdone' = mdone \cup {manual}
  /\ manual' = None
  /\ UNCHANGED <<up, bgError, imm, version>>
  /\ EndBackgroundCall
  /\ UNCHANGED <<kind, delayed, writers, group, mem, mems, numbers, flush, comp,
                 pending, view, bounds, disk>>

\* IsTrivialMove: a lone file of level 0 is moved, if it does not overlap too
\* much of the grandparents, which is not seen here.
MayMove(inputs) == manual = None /\ Cardinality(inputs) = 1

StartCompaction(inputs) ==
  /\ Running /\ up = "open" /\ ~bgError /\ imm = None
  /\ manual # None \/ Cardinality(version.l0) >= L0Compaction
  /\ \E moves \in {FALSE, MayMove(inputs)}:
     LET edit == [l0 |-> {}, deep |-> inputs, del |-> inputs]
     IN /\ comp' = [state |-> IF moves THEN "installing" ELSE "merging",
                    manual |-> manual, moves |-> moves,
                    base |-> Files(version), inputs |-> inputs,
                    left |-> UNION {tables[n] : n \in inputs},
                    out |-> None, outs |-> {}, tried |-> FALSE,
                    edit |-> IF moves THEN edit ELSE None]
        /\ UNCHANGED nextFile
        /\ IF moves THEN LogEdit(edit, logNumber) ELSE UNCHANGED manifest
  /\ UNCHANGED <<clients, writers, group, memory, lastSeq, logNumber, version,
                 scheduled, flush, pending, bgError, manual, view, up, bounds, logs, tables>>

Merging(state) == comp # None /\ comp.state = state /\ flush = None

\* Mutant: an output under construction is not protected from deletion.
OpenCompactionOutputFileUnprotected ==
  /\ Merging("merging")
  /\ comp.left # {}
  /\ comp' = [comp EXCEPT !.state = "writing", !.out = nextFile, !.tried = FALSE]
  /\ nextFile' = nextFile + 1
  /\ tables' = Put(tables, nextFile, {})
  /\ UNCHANGED <<clients, writers, group, memory, lastSeq, logNumber, version,
                 scheduled, flush, pending, bgError, manual, view, up, bounds,
                 logs, manifest>>

OpenCompactionOutputFile ==
  /\ Merging("merging")
  /\ comp.left # {}
  /\ comp' = [comp EXCEPT !.state = "writing", !.out = nextFile, !.tried = FALSE]
  /\ nextFile' = nextFile + 1
  /\ pending' = pending \cup {nextFile}
  /\ tables' = Put(tables, nextFile, {})
  /\ UNCHANGED <<clients, writers, group, memory, lastSeq, logNumber, version,
                 scheduled, flush, bgError, manual, view, up, bounds, logs,
                 manifest>>

\* The output holds as many of the entries left as fit.
FinishCompactionOutputFile(part) ==
  /\ Merging("writing")
  /\ part # {} /\ part \subseteq comp.left
  /\ tables' = [n \in DOMAIN tables |-> IF n = comp.out THEN part ELSE tables[n]]
  /\ comp' = [comp EXCEPT !.state = "merging", !.left = @ \ part,
                          !.outs = @ \cup {comp.out}, !.out = None, !.tried = FALSE]
  /\ UNCHANGED <<clients, writers, group, memory, numbers, version, scheduled,
                 flush, pending, bgError, manual, view, up, bounds, logs,
                 manifest>>

\* InstallCompactionResults.
LogCompaction ==
  /\ Merging("merging")
  /\ comp.left = {}
  /\ LET edit == [l0 |-> {}, deep |-> comp.outs, del |-> comp.inputs]
     IN /\ comp' = [comp EXCEPT !.state = "installing", !.edit = edit]
        /\ UNCHANGED nextFile
        /\ LogEdit(edit, logNumber)
  /\ UNCHANGED <<clients, writers, group, memory, lastSeq, logNumber, version,
                 scheduled, flush, pending, bgError, manual, view, up, bounds, logs, tables>>

\* The end of BackgroundCompaction and of BackgroundCall.  A manual compaction
\* is unregistered, and done only if it failed; its caller asks again.  A move
\* deletes nothing and leaves CleanupCompaction out.
EndCompaction(ok) ==
  /\ comp.manual # None => manual # None
  /\ comp' = None
  /\ pending' = pending \ (comp.outs \cup {comp.out})
  /\ manual' = IF comp.manual = None THEN manual ELSE None
  /\ mdone' = IF comp.manual = None \/ ok THEN mdone ELSE mdone \cup {manual}
  /\ UNCHANGED <<up, imm, view>>
  /\ EndBackgroundCall
  /\ IF comp.moves
     THEN UNCHANGED <<tables, logs>>
     ELSE DeleteObsoleteFiles(tables, logs)
  /\ UNCHANGED <<kind, delayed, writers, group, mem, mems, lastSeq, nextFile,
                 flush, bounds>>

InstallCompaction ==
  /\ comp # None /\ comp.state = "installing"
  /\ InstallEdit(comp.edit, logNumber)
  /\ UNCHANGED bgError
  /\ EndCompaction(TRUE)

CompactionEditFails ==
  /\ comp # None /\ comp.state = "installing"
  /\ EditFails
  /\ bgError' = TRUE
  /\ EndCompaction(FALSE)

\* An output cannot be created or finished, or the database closes.
CompactionBreaks ==
  \/ Merging("merging") /\ comp.left # {} /\ "create" \in limits.faults
  \/ Merging("writing") /\ "build" \in limits.faults
  \/ Merging("merging") /\ up = "closing"
  \/ Merging("writing") /\ up = "closing"

CompactionFails ==
  /\ CompactionBreaks
  /\ UNCHANGED <<version, logNumber, manifest>>
  /\ bgError' = TRUE
  /\ EndCompaction(FALSE)

-----------------------------------------------------------------------------
(* Manual compactions: TEST_CompactRange of level 0.                       *)

BeginManual(m) ==
  /\ up = "open"
  /\ m \in limits.manuals
  /\ mst[m] = "idle"
  /\ mst' = [mst EXCEPT ![m] = "running"]
  /\ UNCHANGED <<kind, st, delayed, mdone, writers, group, memory, numbers,
                 version, background, view, up, bounds, disk>>

\* The loop ends; a manual compaction still registered is cancelled.
EndManual(m) ==
  /\ mst[m] = "running"
  /\ m \in mdone \/ bgError
  /\ mst' = [mst EXCEPT ![m] = "done"]
  /\ manual' = IF manual = m THEN None ELSE manual
  /\ UNCHANGED <<kind, st, delayed, mdone, writers, group, memory, numbers,
                 version, scheduled, flush, comp, pending, bgError, view, up,
                 bounds, disk>>

\* The loop registers the compaction if none is, and waits.
AwaitManual(m) ==
  /\ mst[m] = "running"
  /\ m \notin mdone /\ ~bgError
  /\ mst' = [mst EXCEPT ![m] = "waiting"]
  /\ manual' = IF manual = None THEN m ELSE manual
  /\ UNCHANGED <<up, bgError, imm, version>>
  /\ MaybeScheduleCompaction
  /\ UNCHANGED <<kind, st, delayed, mdone, writers, group, mem, mems, numbers,
                 flush, comp, pending, view, bounds, disk>>

-----------------------------------------------------------------------------
(* Closing, dying, and opening again.                                      *)

\* The memory of the process is gone; the files stay as l and m leave them.
Stop(l, m) ==
  /\ st' = [c \in Calls |-> IF st[c] \in {"idle", "ok", "error"} THEN st[c] ELSE "lost"]
  /\ mst' = [n \in Manuals |-> IF mst[n] = "idle" THEN "idle" ELSE "done"]
  /\ UNCHANGED <<kind, tables>>
  /\ logs' = l
  /\ manifest' = <<m>>
  /\ delayed' = {} /\ mdone' = {}
  /\ writers' = <<>> /\ group' = None
  /\ manual' = None /\ mem' = 0 /\ imm' = None /\ mems' = <<>>
  /\ lastSeq' = 0 /\ nextFile' = 0 /\ logNumber' = 0 /\ version' = NoVersion
  /\ scheduled' = FALSE /\ flush' = None /\ comp' = None /\ pending' = {}
  /\ bgError' = FALSE
  /\ view' = [r \in Readers |-> None]
  /\ up' = "down"

\* ~DBImpl: nobody uses the database any more, shutting_down_ is set.
BeginClose ==
  /\ up = "open"
  /\ \A c \in Calls: st[c] \in {"idle", "ok", "error", "lost"}
  /\ \A m \in Manuals: mst[m] \in {"idle", "done"}
  /\ \A r \in Readers: view[r] = None
  /\ kills + cuts < limits.stops
  /\ up' = "closing"
  /\ UNCHANGED <<clients, writers, group, memory, numbers, version, background,
                 view, bounds, disk>>

\* ~DBImpl has waited for the background thread.
EndClose ==
  /\ up = "closing"
  /\ ~scheduled
  /\ \E m \in ToSet(manifest): Stop(logs, m)
  /\ kills' = kills + 1
  /\ UNCHANGED <<cuts, limits>>

\* The process dies; what it wrote is in the files, or on the way out of a
\* failed edit.
Kill ==
  /\ up # "down"
  /\ kills + cuts < limits.stops
  /\ \E m \in ToSet(manifest): Stop(logs, m)
  /\ kills' = kills + 1
  /\ UNCHANGED <<cuts, limits>>

\* The background thread follows manual_compaction_, which is null.
NullManual ==
  /\ comp # None /\ comp.manual # None /\ manual = None
  /\ comp.state = "installing" \/ CompactionBreaks
  /\ \E m \in ToSet(manifest): Stop(logs, m)
  /\ kills' = kills + 1
  /\ UNCHANGED <<cuts, limits>>

\* The machine dies: of each log, what was not synced is kept or cut off.
PowerCut ==
  /\ kills + cuts < limits.stops
  /\ \E kept \in [DOMAIN logs -> 0..Max({0} \cup {Len(logs[n].recs) : n \in DOMAIN logs})]:
       /\ \A n \in DOMAIN logs: kept[n] \in logs[n].synced..Len(logs[n].recs)
       /\ \E m \in ToSet(manifest):
            Stop([n \in DOMAIN logs |-> [recs |-> SubSeq(logs[n].recs, 1, kept[n]),
                                         synced |-> kept[n]]], m)
  /\ cuts' = cuts + 1
  /\ UNCHANGED <<kills, limits>>

\* The logs the manifest does not know the end of, and those of them that
\* have something to read.
OpenLogs == LogsFrom(manifest[1].log)
FullLogs == {l \in OpenLogs: ReadLog(logs[l].recs) # {}}

\* Recover: the next file number once the logs before n are read, oldest
\* first.  One that is not empty takes a number for its table, and all of them
\* have theirs marked as used.
NumberAt[n \in Nat] ==
  IF n = 0 THEN Max({manifest[1].next, manifest[1].log}) + 1
  ELSE LET after == NumberAt[n - 1] + IF n - 1 \in FullLogs THEN 1 ELSE 0
       IN IF n - 1 \in OpenLogs THEN Max({after, n}) ELSE after

\* RecoverLogFile: each log is written to a level-0 table.
Recovered ==
  [tables |-> [t \in {NumberAt[l] : l \in FullLogs} |->
                 ReadLog(logs[CHOOSE l \in FullLogs: NumberAt[l] = t].recs)],
   next |-> NumberAt[Max({0} \cup DOMAIN logs) + 1]]

\* Mutant: the sequence numbers of the logs are not looked at.
RecoveredSequenceManifest == manifest[1].seq

RecoveredSequence ==
  Max({manifest[1].seq} \cup
      {e[2] : e \in UNION {ReadLog(logs[n].recs) : n \in LogsFrom(manifest[1].log)}})

\* Open: recover, start a new log, write a new manifest and point CURRENT to it.
Open ==
  /\ up = "down"
  /\ LET r == Recovered
         edit == [l0 |-> DOMAIN r.tables, deep |-> {}, del |-> {}]
     IN /\ nextFile' = r.next + 1
        /\ lastSeq' = RecoveredSequence
        /\ logNumber' = r.next
        /\ mem' = r.next
        /\ mems' = Put(mems, r.next, {})
        /\ version' = Apply(edit, [l0 |-> manifest[1].l0, deep |-> manifest[1].deep])
        /\ manifest' = <<[l0 |-> version'.l0, deep |-> version'.deep,
                          log |-> logNumber', next |-> nextFile', seq |-> lastSeq']>>
        /\ up' = "open"
        /\ UNCHANGED <<imm, manual, bgError, pending, comp, view>>
        /\ DeleteObsoleteFiles(Over(r.tables, tables), Put(logs, r.next, EmptyLog))
        /\ MaybeScheduleCompaction
  /\ UNCHANGED <<clients, writers, group, flush, bounds>>

\* The process dies in the middle of Open: the files it made stay behind.
OpenDies ==
  /\ up = "down"
  /\ kills + cuts < limits.stops
  /\ kills' = kills + 1
  /\ LET r == Recovered IN
       /\ tables' = Over(r.tables, tables)
       /\ logs' \in {logs, Put(logs, r.next, EmptyLog)}
  /\ UNCHANGED <<clients, writers, group, memory, numbers, version, background,
                 view, up, cuts, limits, manifest>>

-----------------------------------------------------------------------------
CallStep(c) ==
  \/ Refuse(c) \/ SlowDown(c) \/ WaitForRoom(c) \/ WriteToMem(c)
  \/ SwitchMemTable(c) \/ SwitchFails(c) \/ AwaitFlush(c)

LogGroup ==
  \/ AddRecord \/ AddRecordFails \/ SyncLog \/ SyncFails
  \/ InsertInto \/ FinishWrite

BackgroundWork ==
  \/ BackgroundCallIdle
  \/ StartFlush \/ BuildTableFails \/ FlushAborted
  \/ LogFlush(0) \/ LogFlush(1) \/ EndFlush \/ FlushEditFails
  \/ ManualHasNothing
  \/ \E inputs \in Inputs: StartCompaction(inputs)
  \/ OpenCompactionOutputFile
  \/ \E part \in SUBSET (IF comp = None THEN {} ELSE comp.left):
       FinishCompactionOutputFile(part)
  \/ LogCompaction \/ InstallCompaction \/ CompactionEditFails \/ CompactionFails
  \/ NullManual

\* The threads of the engine, once they have something to do.
Work ==
  \/ \E c \in Calls: CallStep(c)
  \/ LogGroup
  \/ BackgroundWork
  \/ \E m \in Manuals: EndManual(m) \/ AwaitManual(m)
  \/ Open \/ EndClose

\* What its clients, the process and the machine do to it.
Environment ==
  \/ \E c \in Calls, k \in Kinds: Enqueue(c, k)
  \/ \E r \in Readers: NewIterator(r) \/ CloseIterator(r)
  \/ \E m \in Manuals: BeginManual(m)
  \/ BeginClose \/ Kill \/ PowerCut \/ OpenDies

Next == Work \/ Environment

Spec == Init /\ [][Next]_vars

\* The threads are scheduled: while one of them can run, one eventually does.
FairSpec == Spec /\ WF_vars(Work)

-----------------------------------------------------------------------------
\* While the process is down a read finds what a recovery would.
Visible ==
  CallsOf(IF up = "down" THEN Recoverable(manifest[1]) ELSE UpTo(Held, lastSeq))

Store == INSTANCE DurableStore WITH
  issued <- {c \in Calls: st[c] # "idle"},
  visible <- Visible,
  promised <- {c \in Calls: st[c] = "ok" /\ kind[c] = "sync"},
  restarts <- kills + cuts

\* Refinement: the engine is the store its documentation promises.  No flush,
\* compaction, deletion of files or recovery changes what reads find, groups
\* appear as a whole, and a synchronous write that returned without an error
\* survives every crash.
StoreSpec == Store!Spec

\* Every file that the current version, an open iterator, a compaction or a
\* table under construction needs is in the directory; so are the tables of
\* every state in which the manifest may be read back, and the logs from the
\* one it names.
FilesPresent ==
  /\ \A m \in ToSet(manifest): Files(m) \subseteq DOMAIN tables
  /\ up # "down" =>
       /\ Files(version) \subseteq DOMAIN tables
       /\ \A r \in Readers: view[r] # None => view[r].files \subseteq DOMAIN tables
       /\ comp # None => comp.base \cup comp.outs \subseteq DOMAIN tables
       /\ comp # None /\ comp.out # None => comp.out \in DOMAIN tables
       /\ flush # None /\ ~flush.installing => flush.out \in DOMAIN tables
       /\ {mem, imm} \ {None} \subseteq DOMAIN logs

\* An iterator goes on seeing exactly what was committed when it was made,
\* whatever is written, flushed, merged and deleted meanwhile.
ReadsStable ==
  \A r \in Readers: view[r] # None => Seen(view[r]) = view[r].seen

\* No two writes share a sequence number, and a committed one is not beyond the
\* last sequence, where reads would miss it.
SequencesFresh ==
  LET all == Held \cup Recoverable(manifest[1]) IN
  up # "down" =>
    /\ \A a, b \in all: a[2] = b[2] => a[1] = b[1]
    /\ \A e \in all: e[2] <= lastSeq \/ (group # None /\ e \in group.entries)

\* "if it is just the process that crashes [...] no writes will be lost even if
\* sync==false": an acknowledged write is found after the process died.
KillKeepsAcknowledged ==
  [][cuts' = cuts =>
       {c \in Visible: st[c] = "ok"} \subseteq Visible']_vars

\* Whoever sleeps until background work is finished has background work to
\* wait for.
NobodySleepsAlone ==
  (\E c \in Calls: st[c] \in {"waiting", "flushwait"}) \/ (\E m \in Manuals: mst[m] = "waiting")
    => scheduled

\* Every call of Write and every manual compaction returns, or dies with the
\* process: there are finitely many, and again and again none is under way.
CallsReturn ==
  []<>(/\ \A c \in Calls: st[c] \in {"idle", "ok", "error", "lost"}
       /\ \A m \in Manuals: mst[m] \in {"idle", "done"})

=================================================================================

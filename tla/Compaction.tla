------------------------------- MODULE Compaction -------------------------------
(***************************************************************************)
(* leveldb's VersionSet and the merging half of DBImpl: which table files  *)
(* make up which level, where a flushed memtable goes, which files a       *)
(* compaction merges, which entries it drops, and how a read finds its way *)
(* through the levels.                                                     *)
(*                                                                         *)
(* An entry is <<user key, sequence number, type>>; the value of a Put is  *)
(* its sequence number.  Sizes are counted in entries.  A step holds       *)
(* mutex_: a merge begins in one and is installed in another, and writes,  *)
(* snapshots and the flush of a memtable come in between.  Files, crashes  *)
(* and failures are in DBImpl.                                             *)
(***************************************************************************)
EXTENDS Naturals, Sequences, FiniteSets, SequencesExt

CONSTANTS
  MaxKey,               \* bound: the user keys are 1..MaxKey, in their order
  None,                 \* a null pointer, or no value
  NumLevels,            \* config::kNumLevels
  MaxMemCompactLevel,   \* config::kMaxMemCompactLevel
  L0Trigger,            \* config::kL0_CompactionTrigger
  LevelCapacity,        \* MaxBytesForLevel: what each level holds
  Scenarios             \* bounds, see limits

Keys == 1..MaxKey
Levels == 0..(NumLevels - 1)

ASSUME LevelsAssumption ==
  /\ MaxKey \in Nat
  /\ NumLevels \in Nat /\ NumLevels > 1
  /\ MaxMemCompactLevel \in 0..(NumLevels - 1)
  /\ L0Trigger \in Nat \ {0}
  /\ LevelCapacity \in [1..(NumLevels - 1) -> Nat \ {0}]
ASSUME ScenariosAssumption ==
  Scenarios \subseteq
    [keys: SUBSET Keys, types: SUBSET {"put", "delete"}, writes: Nat, memory: Nat,
     snapshots: Nat, seeks: Nat, nested: BOOLEAN, fileSize: Nat \ {0},
     grandparents: Nat, expanded: Nat, ranges: SUBSET ((0..(NumLevels - 2)) \X Nat \X Nat)]

VARIABLES
  mem,          \* the entries no table holds yet: mem_ and imm_
  levels,       \* files_ of the current version
  lastSeq, nextFile,
  snapshots,    \* snapshots_, as the set of their sequence numbers
  pointer,      \* compact_pointer_
  seekFile,     \* file_to_compact_ with its level, or None
  manual,       \* manual_compaction_: [level, begin, end], or None
  comp,         \* the merge under way and whether it is of a manual range, or None
  contents,     \* what db.h promises: the last value put of each key, None if
                \* it was deleted since
  held,         \* and what each snapshot held goes on showing
  asked,        \* the ranges TEST_CompactRange was asked for
  seeks,        \* how many files were found to be read too often
  limits        \* bounds of a behaviour: keys, types and number of the writes,
                \* entries of a memtable, snapshots, files charged with seeks, whether
                \* a memtable is flushed during a merge, manual compactions; and
                \* the sizes of its Options

promised == <<contents, held>>
bounds == <<asked, seeks, limits>>
version == <<levels, nextFile, seekFile>>
vars == <<mem, version, lastSeq, snapshots, pointer, manual, comp, promised, bounds>>

-----------------------------------------------------------------------------
(* Internal keys and files.                                                *)

\* A finite set in the order of a strict total order: the element with n before
\* it comes after n (SetToSortSeq, which TLC evaluates far more slowly).
Ranked(S, Less(_, _)) ==
  [i \in 1..Cardinality(S) |-> CHOOSE x \in S: Cardinality({y \in S: Less(y, x)}) = i - 1]

\* InternalKeyComparator: keys ascending, of one key the newest first.
Before(a, b) == a[1] < b[1] \/ (a[1] = b[1] /\ a[2] > b[2])
Sorted(entries) == Ranked(entries, Before)

First(entries) == CHOOSE e \in entries: \A x \in entries: x = e \/ Before(e, x)
Final(entries) == CHOOSE e \in entries: \A x \in entries: x = e \/ Before(x, e)

File(number, entries) ==
  [number |-> number, entries |-> entries,
   smallest |-> First(entries), largest |-> Final(entries)]

\* BySmallestKey, the order of files_.
FileBefore(f, g) ==
  Before(f.smallest, g.smallest) \/ (f.smallest = g.smallest /\ f.number < g.number)
InOrder(files) == Ranked(files, FileBefore)

TotalFileSize(files) == FoldSet(LAMBDA f, n: n + Cardinality(f.entries), 0, files)

\* GetRange.
Smallest(files) == First({f.smallest : f \in files})
Largest(files) == Final({f.largest : f \in files})

\* AfterFile and BeforeFile; 0 is a null begin, MaxKey + 1 a null end.
Touches(f, begin, end) == f.smallest[1] <= end /\ f.largest[1] >= begin

TypeOK ==
  /\ \A e \in mem: e \in Keys \X (1..lastSeq) \X {"put", "delete"}
  /\ levels \in [Levels -> SUBSET [number: 1..(nextFile - 1), entries: SUBSET (Keys \X (1..lastSeq) \X {"put", "delete"}),
                                   smallest: Keys \X (1..lastSeq) \X {"put", "delete"},
                                   largest: Keys \X (1..lastSeq) \X {"put", "delete"}]]
  /\ snapshots \subseteq 0..lastSeq
  /\ seekFile # None => seekFile[2] \in levels[seekFile[1]]

-----------------------------------------------------------------------------
(* Reading.                                                                *)

\* FindFile: the first file of a sorted level that ends at or after ikey.
FindFile(files, ikey) ==
  LET later == {f \in files: ~Before(f.largest, ikey)}
  IN IF later = {} THEN {} ELSE {Head(InOrder(later))}

\* Version::Get, ForEachOverlapping: the files looked at for key k at s.
Candidates(v, k, s) ==
  LET ikey == <<k, s, "put">>
      level0 == Ranked({f \in v[0]: Touches(f, k, k)}, LAMBDA f, g: f.number > g.number)
      deeper(l) == {f \in FindFile(v[l], ikey): f.smallest[1] <= k}
  IN FlattenSeq(<<level0>> \o [l \in 1..(NumLevels - 1) |-> SetToSeq(deeper(l))])

AtMost(entries, k, s) == {e \in entries: e[1] = k /\ e[2] <= s}
Newest(entries) == CHOOSE e \in entries: \A x \in entries: x[2] <= e[2]

\* SaveValue: the value of an entry found, None for a deletion.
Value(found) ==
  IF found = {} \/ Newest(found)[3] = "delete" THEN None ELSE Newest(found)[2]

\* How many of the candidates are read: all, or as far as the first that knows k.
Visited(files, k, s) ==
  LET hits == {i \in DOMAIN files: AtMost(files[i].entries, k, s) # {}}
  IN IF hits = {} THEN Len(files) ELSE Min(hits)

VersionGet(v, k, s) ==
  LET files == Candidates(v, k, s)
      n == Visited(files, k, s)
  IN IF n = 0 THEN None ELSE Value(AtMost(files[n].entries, k, s))

\* DBImpl::Get.
Get(k, s) ==
  IF AtMost(mem, k, s) # {} THEN Value(AtMost(mem, k, s)) ELSE VersionGet(levels, k, s)

\* What a DBIter over all memtables and files yields for k.
Scan(k, s) ==
  Value(AtMost(mem \cup UNION {f.entries : f \in UNION {levels[l] : l \in Levels}}, k, s))

-----------------------------------------------------------------------------
(* Choosing files.                                                         *)

\* GetOverlappingInputs; in level 0 a file found widens the range.
Overlapping(level, begin, end) ==
  LET files == levels[level]
      widen[i \in Nat] ==
        IF i = 0 THEN <<begin, end>>
        ELSE LET r == widen[i - 1]
                 found == {f \in files: Touches(f, r[1], r[2])}
             IN <<Min({r[1]} \cup {f.smallest[1] : f \in found}),
                  Max({r[2]} \cup {f.largest[1] : f \in found})>>
      range == IF level = 0 THEN widen[Cardinality(files)] ELSE <<begin, end>>
  IN {f \in files: Touches(f, range[1], range[2])}

OverlappingRange(level, files) ==
  Overlapping(level, Smallest(files)[1], Largest(files)[1])

OverlapInLevel(level, begin, end) == \E f \in levels[level]: Touches(f, begin, end)

\* Mutant: a memtable goes down past a level it overlaps.
PickLevelSkipping(begin, end) ==
  IF OverlapInLevel(0, begin, end) THEN 0 ELSE MaxMemCompactLevel

PickLevelForMemTableOutput(begin, end) ==
  LET passes(l) ==
        /\ ~OverlapInLevel(l, begin, end)
        /\ l + 1 < NumLevels =>
             TotalFileSize(Overlapping(l + 1, begin, end)) <= limits.grandparents
  IN IF OverlapInLevel(0, begin, end) THEN 0
     ELSE Max({l \in 0..MaxMemCompactLevel: \A m \in 1..l: passes(m)})

\* Mutant: the rest of a user key stays behind in the next file.
AddBoundaryInputsNone(level, files) == files

\* AddBoundaryInputs: the files that go on with the user key the last one ends with.
AddBoundaryInputs(level, files) ==
  FoldLeft(LAMBDA chosen, f:
             IF /\ Before(Largest(chosen), f.smallest)
                /\ f.smallest[1] = Largest(chosen)[1]
             THEN chosen \cup {f} ELSE chosen,
           files, InOrder(levels[level]))

\* SetupOtherInputs: the files of level and of level + 1 that are merged.
SetupOtherInputs(level, chosen) ==
  LET others(in0) == <<in0, OverlappingRange(level + 1, in0)>>
      grow(in) == IF in[2] = {} THEN in
                  ELSE others(AddBoundaryInputs(level, OverlappingRange(level, in[1] \cup in[2])))
      choose(in, expanded) ==
        IF /\ Cardinality(expanded[1]) > Cardinality(in[1])
           /\ TotalFileSize(in[2] \cup expanded[1]) < limits.expanded
           /\ Cardinality(expanded[2]) = Cardinality(in[2])
        THEN expanded ELSE in
      with(in) == choose(in, grow(in))
  IN with(others(AddBoundaryInputs(level, chosen)))

Grandparents(level, files) ==
  IF level + 2 < NumLevels THEN OverlappingRange(level + 2, files) ELSE {}

\* Finalize: the scores of the levels, as fractions, and the best of them.
Score(level) ==
  IF level = 0 THEN <<Cardinality(levels[0]), L0Trigger>>
  ELSE <<TotalFileSize(levels[level]), LevelCapacity[level]>>
Higher(s, t) == s[1] * t[2] > t[1] * s[2]
Best(scores) ==
  CHOOSE l \in DOMAIN scores: \A m \in DOMAIN scores:
    ~Higher(scores[m], scores[l]) /\ (m < l => Higher(scores[l], scores[m]))
CompactionLevel == Best([l \in 0..(NumLevels - 2) |-> Score(l)])
SizeCompaction == \E l \in 0..(NumLevels - 2): ~Higher(<<1, 1>>, Score(l))
NeedsCompaction == SizeCompaction \/ seekFile # None

\* Mutant: no way back to the beginning of the key space.
PickedFileNoWrap(level) ==
  LET later == {f \in levels[level]: pointer[level] = None \/ Before(pointer[level], f.largest)}
  IN IF later = {} THEN {} ELSE {Head(InOrder(later))}

\* PickCompaction: the first file after compact_pointer_, or the very first one.
PickedFile(level) ==
  LET later == {f \in levels[level]: pointer[level] = None \/ Before(pointer[level], f.largest)}
  IN {Head(InOrder(IF later = {} THEN levels[level] ELSE later))}

PickCompaction ==
  LET from(level, file) ==
        [level |-> level,
         inputs |-> IF level = 0 /\ file # {} THEN OverlappingRange(0, file) ELSE file]
      bySize(level) == from(level, PickedFile(level))
  IN IF SizeCompaction THEN bySize(CompactionLevel) ELSE from(seekFile[1], {seekFile[2]})

\* CompactRange: below level 0 no more than one file's worth at a time.
ManualInputs(m) ==
  LET files == InOrder(Overlapping(m.level, m.begin, m.end))
      enough == {i \in DOMAIN files: TotalFileSize(Range(SubSeq(files, 1, i))) >= limits.fileSize}
  IN IF m.level = 0 \/ enough = {} THEN Range(files)
     ELSE Range(SubSeq(files, 1, Min(enough)))

-----------------------------------------------------------------------------
(* Merging.                                                                *)

\* IsBaseLevelForKey: no file below the merge may hold k.
IsBaseLevelForKey(c, k) ==
  \A l \in (c.level + 2)..(NumLevels - 1): \A f \in c.base[l]: ~Touches(f, k, k)

\* Mutant: a deletion is dropped although files further down may hold its key.
ObsoleteAnywhere(c, e) == e[3] = "delete" /\ e[2] <= c.smallestSnapshot
\* A deletion nobody needs: all see it, and there is nothing left to delete.
Obsolete(c, e) ==
  e[3] = "delete" /\ e[2] <= c.smallestSnapshot /\ IsBaseLevelForKey(c, e[1])

\* Rule (A): a newer entry of the key hides it from everybody.
Hidden(c, e, entries) ==
  \E x \in entries: /\ x[1] = e[1] /\ x[2] > e[2] /\ x[2] <= c.smallestSnapshot

Kept(c) ==
  LET entries == UNION {f.entries : f \in c.in0 \cup c.in1}
  IN {e \in entries: ~Hidden(c, e, entries) /\ ~Obsolete(c, e)}

\* DoCompactionWork: the outputs, in order.  A file ends when it is full, or
\* (ShouldStopBefore) when it overlaps too much of the grandparents.
Outputs(c) ==
  LET grand == InOrder(c.grandparents)
      kept == Kept(c)
      step(acc, e) ==
        LET passed == {i \in acc.index..Len(grand): \A j \in acc.index..i: Before(grand[j].largest, e)}
            overlap == acc.overlap + (IF acc.seen THEN TotalFileSize({grand[i] : i \in passed}) ELSE 0)
            stop == overlap > limits.grandparents
            closed == IF stop /\ acc.open # {} THEN Append(acc.done, acc.open) ELSE acc.done
            open == (IF stop THEN {} ELSE acc.open) \cup ({e} \cap kept)
            full == Cardinality(open) >= limits.fileSize
        IN [index |-> acc.index + Cardinality(passed), seen |-> TRUE,
            overlap |-> IF stop THEN 0 ELSE overlap,
            open |-> IF full THEN {} ELSE open,
            done |-> IF full THEN Append(closed, open) ELSE closed]
      last == FoldLeft(step, [index |-> 1, seen |-> FALSE, overlap |-> 0, open |-> {}, done |-> <<>>],
                       Sorted(UNION {f.entries : f \in c.in0 \cup c.in1}))
  IN IF last.open = {} THEN last.done ELSE Append(last.done, last.open)

-----------------------------------------------------------------------------
Init ==
  /\ mem = {}
  /\ levels = [l \in Levels |-> {}]
  /\ lastSeq = 0 /\ nextFile = 1
  /\ snapshots = {}
  /\ pointer = [l \in Levels |-> None]
  /\ seekFile = None
  /\ manual = None
  /\ comp = None
  /\ contents = [k \in Keys |-> None] /\ held = <<>>
  /\ asked = {} /\ seeks = 0
  /\ limits \in Scenarios

Write(k, type) ==
  /\ k \in limits.keys /\ type \in limits.types
  /\ lastSeq < limits.writes
  /\ Cardinality(mem) < limits.memory
  /\ lastSeq' = lastSeq + 1
  /\ mem' = mem \cup {<<k, lastSeq + 1, type>>}
  /\ contents' = [contents EXCEPT ![k] = IF type = "put" THEN lastSeq + 1 ELSE None]
  /\ UNCHANGED <<version, snapshots, pointer, manual, comp, held, bounds>>

GetSnapshot ==
  /\ Cardinality(snapshots) < limits.snapshots
  /\ lastSeq \notin snapshots
  /\ snapshots' = snapshots \cup {lastSeq}
  /\ held' = [s \in snapshots' |-> IF s = lastSeq THEN contents ELSE held[s]]
  /\ UNCHANGED <<mem, version, lastSeq, pointer, manual, comp, contents, bounds>>

ReleaseSnapshot(s) ==
  /\ s \in snapshots
  /\ snapshots' = snapshots \ {s}
  /\ held' = Restrict(held, DOMAIN held \ {s})
  /\ UNCHANGED <<mem, version, lastSeq, pointer, manual, comp, contents, bounds>>

\* Mutant: the file to compact is carried over into the next version.
InstallKeepingSeek(new) == levels' = new /\ UNCHANGED seekFile

\* LogAndApply: a new version, with nothing to compact for seeks.
Install(new) == levels' = new /\ seekFile' = None

\* CompactMemTable, by itself or in the middle of a merge.
Flush ==
  /\ mem # {}
  /\ comp # None => limits.nested
  /\ LET f == File(nextFile, mem)
         level == PickLevelForMemTableOutput(f.smallest[1], f.largest[1])
     IN Install([levels EXCEPT ![level] = @ \cup {f}])
  /\ nextFile' = nextFile + 1
  /\ mem' = {}
  /\ UNCHANGED <<lastSeq, snapshots, pointer, manual, comp, promised, bounds>>

\* A lookup that goes on to a second file charges the first.
Missed(k, s) ==
  /\ s \in snapshots \cup {lastSeq}
  /\ AtMost(mem, k, s) = {}
  /\ Visited(Candidates(levels, k, s), k, s) >= 2

\* RecordReadSample: so does an entry that an iterator passes, if two files may
\* hold its key.
Sampled(k, s) ==
  /\ \E e \in mem \cup UNION {f.entries : f \in UNION {levels[l] : l \in Levels}}:
       e[1] = k /\ e[2] = s
  /\ Len(Candidates(levels, k, s)) >= 2

\* UpdateStats: once a file has no seeks left it is to be compacted, if none is
\* already.
ChargeSeek(k) ==
  /\ seeks < limits.seeks
  /\ seekFile = None
  /\ \E s \in 0..lastSeq:
       LET files == Candidates(levels, k, s)
       IN /\ Missed(k, s) \/ Sampled(k, s)
          /\ seekFile' = <<CHOOSE l \in Levels: files[1] \in levels[l], files[1]>>
  /\ seeks' = seeks + 1
  /\ UNCHANGED <<mem, levels, nextFile, lastSeq, snapshots, pointer, manual, comp, promised, asked, limits>>

\* TEST_CompactRange registers itself.
BeginManual(range) ==
  /\ manual = None
  /\ range \in limits.ranges \ asked
  /\ manual' = [level |-> range[1], begin |-> range[2], end |-> range[3]]
  /\ asked' = asked \cup {range}
  /\ UNCHANGED <<mem, version, lastSeq, snapshots, pointer, comp, promised, seeks, limits>>

\* BackgroundCompaction finds nothing left of the range.
EndManual ==
  /\ comp = None
  /\ manual # None
  /\ ManualInputs(manual) = {}
  /\ manual' = None
  /\ UNCHANGED <<mem, version, lastSeq, snapshots, pointer, comp, promised, bounds>>

\* A compaction of chosen files of a level begins; if a single file has nothing
\* to merge with it is moved.
NewCompaction(level, inputs) ==
  [level |-> level, in0 |-> inputs[1], in1 |-> inputs[2],
   grandparents |-> Grandparents(level, inputs[1] \cup inputs[2]),
   base |-> levels,
   smallestSnapshot |-> IF snapshots = {} THEN lastSeq ELSE Min(snapshots)]

IsTrivialMove(c) ==
  /\ manual = None
  /\ Cardinality(c.in0) = 1 /\ c.in1 = {}
  /\ TotalFileSize(c.grandparents) <= limits.grandparents

Begin(c) ==
  /\ pointer' = [pointer EXCEPT ![c.level] = Largest(c.in0)]
  /\ IF IsTrivialMove(c)
     THEN /\ Install([levels EXCEPT ![c.level] = @ \ c.in0, ![c.level + 1] = @ \cup c.in0])
          /\ UNCHANGED comp
     ELSE /\ comp' = [level |-> c.level, in0 |-> c.in0, in1 |-> c.in1, outputs |-> Outputs(c),
                      byHand |-> manual # None]
          /\ UNCHANGED <<levels, seekFile>>
  /\ UNCHANGED <<mem, nextFile, lastSeq, snapshots, manual, promised, bounds>>

CompactionOf(level, chosen) == NewCompaction(level, SetupOtherInputs(level, chosen))

StartManual ==
  /\ comp = None
  /\ manual # None
  /\ \E inputs \in {ManualInputs(manual)} \ {{}}: Begin(CompactionOf(manual.level, inputs))

StartCompaction ==
  /\ comp = None
  /\ manual = None
  /\ NeedsCompaction
  /\ \E picked \in {PickCompaction}:
       /\ picked.inputs # {}
       /\ Begin(CompactionOf(picked.level, picked.inputs))

\* InstallCompactionResults, and what is left of a manual compaction; a range
\* registered during an automatic one is untouched.
FinishCompaction ==
  /\ comp # None
  /\ LET outs == comp.outputs
         files == {File(nextFile + i - 1, outs[i]) : i \in DOMAIN outs}
     IN /\ Install([levels EXCEPT ![comp.level] = @ \ comp.in0,
                                  ![comp.level + 1] = (@ \ comp.in1) \cup files])
        /\ nextFile' = nextFile + Len(outs)
  /\ manual' = IF manual = None \/ ~comp.byHand THEN manual
               ELSE [manual EXCEPT !.begin = Last(InOrder(comp.in0)).largest[1]]
  /\ comp' = None
  /\ UNCHANGED <<mem, lastSeq, snapshots, pointer, promised, bounds>>

Background ==
  Flush \/ EndManual \/ StartManual \/ StartCompaction \/ FinishCompaction

Next ==
  \/ \E k \in Keys, type \in {"put", "delete"}: Write(k, type)
  \/ GetSnapshot
  \/ \E s \in snapshots: ReleaseSnapshot(s)
  \/ \E k \in Keys: ChargeSeek(k)
  \/ \E range \in limits.ranges: BeginManual(range)
  \/ Background

Spec == Init /\ [][Next]_vars

\* The background thread is scheduled while there is something for it to do.
\* This is WF_vars(Background), written out: TLC evaluates the choice of a
\* compaction far too slowly inside ENABLED.
HasWork ==
  \/ mem # {} \/ comp # None \/ manual # None
  \/ NeedsCompaction /\ PickCompaction.inputs # {}
Works == levels' # levels \/ comp' # comp \/ (manual # None /\ manual' = None)
BackgroundRuns == []<>~HasWork \/ []<><<Works>>_vars

FairSpec == Spec /\ BackgroundRuns

-----------------------------------------------------------------------------
\* A lookup, which stops at the first file that knows the key, and an iterator,
\* which merges them all, find the last value put unless a deletion followed,
\* and with a snapshot what it held when it was taken: no flush, merge or move
\* changes what any reader finds, and a deleted key stays deleted.
ReadsPromised ==
  /\ \A k \in Keys: Get(k, lastSeq) = contents[k] /\ Scan(k, lastSeq) = contents[k]
  /\ \A s \in snapshots: \A k \in Keys: Get(k, s) = held[s][k] /\ Scan(k, s) = held[s][k]

\* "Make sure there is no overlap in levels > 0": what FindFile relies on.
LevelsDisjoint ==
  \A l \in Levels \ {0}: \A f, g \in levels[l]:
    f # g => Before(f.largest, g.smallest) \/ Before(g.largest, f.smallest)

\* "entries never hop across levels": of one key, whatever is in a higher level,
\* or in a later file of level 0, is newer.
NewestAbove ==
  LET newer(f, g) == \A e \in f.entries, x \in g.entries: e[1] = x[1] => e[2] > x[2]
  IN /\ \A f, g \in levels[0]: f.number > g.number => newer(f, g)
     /\ \A l \in Levels: \A m \in 0..(l - 1): \A f \in levels[m], g \in levels[l]: newer(f, g)

\* What lookups, which search one file of a level and stop at the first level
\* that knows the key, rely on.
LevelsOrdered == LevelsDisjoint /\ NewestAbove

\* The levels come to rest: once nobody writes, no level is too large and no
\* file is left to be compacted.
Settles == <>[](comp = None /\ manual = None /\ ~NeedsCompaction)
=================================================================================

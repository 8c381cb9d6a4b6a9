------------------------------- MODULE Iterators -------------------------------
(***************************************************************************)
(* What DB::NewIterator returns: a DBIter, which shows the newest value of *)
(* each user key at a sequence number, over a MergingIterator, which walks *)
(* its children in the order of their internal keys and may turn round at  *)
(* any entry, over TwoLevelIterators, which open one block (or one file of *)
(* a level) after the other and skip those that cannot be read.            *)
(*                                                                         *)
(* An entry is <<user key, sequence number, type>>.  The contents are      *)
(* fixed: iterators read files that do not change and a memtable that only *)
(* grows beyond their sequence number.                                     *)
(***************************************************************************)
EXTENDS Naturals, Sequences, FiniteSets, SequencesExt

CONSTANTS
  Keys,             \* user keys, numbers
  RestartInterval,  \* Options::block_restart_interval
  Databases         \* the contents iterated over: children, each with its
                    \* blocks, the index keys that separate them and the
                    \* blocks that cannot be read; and sequence_

VARIABLES
  source,           \* the children of the MergingIterator, and sequence_
  merge,            \* the MergingIterator: where each child is, current_, direction_
  iter,             \* the DBIter: valid_, direction_, saved_key_, saved_value_
  cursor            \* where it should be: an index into Visible, 0 if not Valid()

vars == <<source, merge, iter, cursor>>

Before(a, b) == a[1] < b[1] \/ (a[1] = b[1] /\ a[2] > b[2])

-----------------------------------------------------------------------------
(* Block::Iter: positions of a block, 0 for an invalid one.                *)

FirstOf(S) == IF S = {} THEN 0 ELSE Min(S)

\* From the last restart point before target on, entries are looked at in turn.
BlockSeek(block, target) ==
  LET restarts == {r \in DOMAIN block: (r - 1) % RestartInterval = 0}
      left == Max({1} \cup {r \in restarts: Before(block[r], target)})
  IN FirstOf({p \in left..Len(block): ~Before(block[p], target)})

BlockNext(block, p) == IF p < Len(block) THEN p + 1 ELSE 0

\* From the last restart point before p, up to the entry that ends where p begins.
BlockPrev(block, p) ==
  LET restarts == {r \in DOMAIN block: (r - 1) % RestartInterval = 0 /\ r < p}
  IN IF restarts = {} THEN 0 ELSE Min({q \in Max(restarts)..Len(block): q + 1 >= p})

-----------------------------------------------------------------------------
(* TwoLevelIterator: [index, pos, failed], index and pos 0 if not Valid(). *)

Valid(at) == at.pos # 0
KeyAt(child, at) == child.blocks[at.index][at.pos]

\* SaveError: the status of a block that was left is kept.
Skip(child, at, passed, found, pos) ==
  [index |-> found, pos |-> pos, failed |-> at.failed \/ passed \cap child.bad # {}]

SkipEmptyDataBlocksForward(child, at) ==
  LET later == IF at.index = 0 THEN {} ELSE at.index..Len(child.blocks)
      next == FirstOf((later \ {at.index}) \ child.bad)
  IN IF Valid(at) THEN at
     ELSE Skip(child, at, IF next = 0 THEN later ELSE {i \in later: i < next},
               next, IF next = 0 THEN 0 ELSE 1)

SkipEmptyDataBlocksBackward(child, at) ==
  LET earlier == 1..at.index
      next == Max({0} \cup ((earlier \ {at.index}) \ child.bad))
  IN IF Valid(at) THEN at
     ELSE Skip(child, at, {i \in earlier: i > next},
               next, IF next = 0 THEN 0 ELSE Len(child.blocks[next]))

\* InitDataBlock: at block i, if the index is valid and the block can be read.
Opened(child, at, i, pos) ==
  [index |-> i, pos |-> IF i = 0 \/ i \in child.bad THEN 0 ELSE pos, failed |-> at.failed]

Seek(child, at, target) ==
  LET i == FirstOf({j \in DOMAIN child.index: ~Before(child.index[j], target)})
  IN SkipEmptyDataBlocksForward(child,
       Opened(child, at, i, IF i = 0 THEN 0 ELSE BlockSeek(child.blocks[i], target)))

SeekToFirst(child, at) ==
  SkipEmptyDataBlocksForward(child,
    Opened(child, at, IF child.blocks = <<>> THEN 0 ELSE 1, 1))

SeekToLast(child, at) ==
  LET n == Len(child.blocks)
  IN SkipEmptyDataBlocksBackward(child,
       Opened(child, at, n, IF n = 0 THEN 0 ELSE Len(child.blocks[n])))

Next(child, at) ==
  SkipEmptyDataBlocksForward(child, [at EXCEPT !.pos = BlockNext(child.blocks[at.index], @)])
Prev(child, at) ==
  SkipEmptyDataBlocksBackward(child, [at EXCEPT !.pos = BlockPrev(child.blocks[at.index], @)])

-----------------------------------------------------------------------------
(* MergingIterator.                                                        *)

Children == DOMAIN source.children
Child(i) == source.children[i]
MergeKey(m) == KeyAt(Child(m.current), m.at[m.current])
MergeValid(m) == m.current # 0

Smallest(at) ==
  FirstOf({i \in Children: /\ Valid(at[i])
                           /\ \A j \in Children: Valid(at[j]) =>
                                ~Before(KeyAt(Child(j), at[j]), KeyAt(Child(i), at[i]))})
Largest(at) ==
  Max({0} \cup {i \in Children: /\ Valid(at[i])
                                /\ \A j \in Children: Valid(at[j]) =>
                                     ~Before(KeyAt(Child(i), at[i]), KeyAt(Child(j), at[j]))})

Ascending(at) == [at |-> at, current |-> Smallest(at), reverse |-> FALSE]
Descending(at) == [at |-> at, current |-> Largest(at), reverse |-> TRUE]

MergeSeek(m, target) == Ascending([i \in Children |-> Seek(Child(i), m.at[i], target)])
MergeSeekToFirst(m) == Ascending([i \in Children |-> SeekToFirst(Child(i), m.at[i])])
MergeSeekToLast(m) == Descending([i \in Children |-> SeekToLast(Child(i), m.at[i])])

\* All other children go to their first entry after key(), ...
AfterKey(m, i) ==
  LET at == Seek(Child(i), m.at[i], MergeKey(m))
  IN IF Valid(at) /\ KeyAt(Child(i), at) = MergeKey(m) THEN Next(Child(i), at) ELSE at

\* ... or to their last one before it.
BeforeKey(m, i) ==
  LET at == Seek(Child(i), m.at[i], MergeKey(m))
  IN IF Valid(at) THEN Prev(Child(i), at) ELSE SeekToLast(Child(i), at)

MergeNext(m) ==
  Ascending([i \in Children |-> IF i = m.current THEN Next(Child(i), m.at[i])
                              ELSE IF m.reverse THEN AfterKey(m, i) ELSE m.at[i]])
MergePrev(m) ==
  Descending([i \in Children |-> IF i = m.current THEN Prev(Child(i), m.at[i])
                              ELSE IF m.reverse THEN m.at[i] ELSE BeforeKey(m, i)])

-----------------------------------------------------------------------------
(* DBIter.                                                                 *)

Seen(entry) == entry[2] <= source.sequence

\* FindNextUserEntry: on to the first value that is seen and not hidden.
RECURSIVE FindNextUserEntry(_, _, _)
FindNextUserEntry(m, skipping, skip) ==
  LET entry == MergeKey(m)
      deletes == Seen(entry) /\ entry[3] = "delete"
      shows == Seen(entry) /\ ~deletes /\ ~(skipping /\ entry[1] <= skip)
  IN IF ~MergeValid(m) THEN [merge |-> m, valid |-> FALSE]
     ELSE IF shows THEN [merge |-> m, valid |-> TRUE]
     ELSE FindNextUserEntry(MergeNext(m), skipping \/ deletes, IF deletes THEN entry[1] ELSE skip)

\* FindPrevUserEntry: back past all entries of a key that is not deleted; saved
\* is the last entry seen on the way.
RECURSIVE FindPrevUserEntry(_, _)
FindPrevUserEntry(m, saved) ==
  IF \/ ~MergeValid(m)
     \/ Seen(MergeKey(m)) /\ saved[3] = "put" /\ MergeKey(m)[1] < saved[1]
  THEN [merge |-> m, saved |-> saved]
  ELSE FindPrevUserEntry(MergePrev(m), IF Seen(MergeKey(m)) THEN MergeKey(m) ELSE saved)

\* Back to before the entries of the current key.
RECURSIVE BeforeEntries(_, _)
BeforeEntries(m, key) ==
  IF ~MergeValid(m) \/ MergeKey(m)[1] < key THEN m ELSE BeforeEntries(MergePrev(m), key)

Nothing == <<0, 0, "delete">>

\* What FindNextUserEntry leaves: the entry itself is under the internal iterator.
Ahead(found) ==
  /\ merge' = found.merge
  /\ iter' = [valid |-> found.valid, reverse |-> FALSE, saved |-> Nothing]

\* What FindPrevUserEntry leaves: the entry is saved, the iterator before it.
Behind(found) ==
  /\ merge' = found.merge
  /\ iter' = IF found.saved[3] = "delete"
             THEN [valid |-> FALSE, reverse |-> FALSE, saved |-> Nothing]
             ELSE [valid |-> TRUE, reverse |-> TRUE, saved |-> found.saved]

Current == IF iter.reverse THEN iter.saved ELSE MergeKey(merge)

-----------------------------------------------------------------------------
(* What there is to see.                                                   *)

Entries ==
  UNION {ToSet(b) : b \in UNION {ToSet(source.children[i].blocks) : i \in Children}}

Visible ==
  {e \in Entries: /\ e[3] = "put" /\ Seen(e)
                  /\ \A x \in Entries: x[1] = e[1] /\ Seen(x) => x[2] <= e[2]}
VisibleFrom(key) == {e \in Visible: e[1] >= key}
VisibleTo(key) == {e \in Visible: e[1] <= key}

LowestOf(S) == IF S = {} THEN Nothing ELSE CHOOSE e \in S: \A x \in S: e[1] <= x[1]
HighestOf(S) == IF S = {} THEN Nothing ELSE CHOOSE e \in S: \A x \in S: e[1] >= x[1]

-----------------------------------------------------------------------------
Init ==
  /\ source \in Databases
  /\ merge = [at |-> [i \in DOMAIN source.children |-> [index |-> 0, pos |-> 0, failed |-> FALSE]],
              current |-> 0, reverse |-> FALSE]
  /\ iter = [valid |-> FALSE, reverse |-> FALSE, saved |-> Nothing]
  /\ cursor = Nothing

DoSeek(key) ==
  /\ Ahead(FindNextUserEntry(MergeSeek(merge, <<key, source.sequence, "put">>), FALSE, 0))
  /\ cursor' = LowestOf(VisibleFrom(key))
  /\ UNCHANGED source

DoSeekToFirst ==
  /\ Ahead(FindNextUserEntry(MergeSeekToFirst(merge), FALSE, 0))
  /\ cursor' = LowestOf(Visible)
  /\ UNCHANGED source

DoSeekToLast ==
  /\ Behind(FindPrevUserEntry(MergeSeekToLast(merge), Nothing))
  /\ cursor' = HighestOf(Visible)
  /\ UNCHANGED source

\* Mutant: a turn forward leaves the iterator before the entries it showed.
TurnForwardStays(m) == m
\* From before the entries of the current key into them.
TurnForward(m) == IF MergeValid(m) THEN MergeNext(m) ELSE MergeSeekToFirst(m)

DoNext ==
  /\ iter.valid
  /\ Ahead(FindNextUserEntry(IF iter.reverse THEN TurnForward(merge) ELSE merge,
                             TRUE, Current[1]))
  /\ cursor' = LowestOf(VisibleFrom(cursor[1] + 1))
  /\ UNCHANGED source

DoPrev ==
  /\ iter.valid
  /\ LET from == IF iter.reverse THEN merge ELSE BeforeEntries(merge, Current[1])
     IN IF ~iter.reverse /\ ~MergeValid(from)
        THEN merge' = from /\ iter' = [valid |-> FALSE, reverse |-> FALSE, saved |-> Nothing]
        ELSE Behind(FindPrevUserEntry(from, Nothing))
  /\ cursor' = HighestOf(VisibleTo(cursor[1] - 1))
  /\ UNCHANGED source

Step == \/ \E key \in Keys: DoSeek(key)
        \/ DoSeekToFirst \/ DoSeekToLast \/ DoNext \/ DoPrev

Spec == Init /\ [][Step]_vars

-----------------------------------------------------------------------------
StatusOk == \A i \in Children: ~merge.at[i].failed

TypeOK ==
  /\ merge.current \in {0} \cup Children
  /\ \A i \in Children: LET at == merge.at[i] IN
       /\ at.index \in 0..Len(Child(i).blocks)
       /\ Valid(at) => at.index # 0 /\ at.pos \in DOMAIN Child(i).blocks[at.index]
  /\ iter.valid /\ ~iter.reverse => MergeValid(merge)

\* Whatever sequence of calls led there, an iterator whose status is ok shows
\* the newest value of the key it should be at, or is at the end: no key is
\* skipped, repeated or brought back by a turn between two entries of a key.
ShowsCursor ==
  StatusOk => IF cursor = Nothing THEN ~iter.valid ELSE iter.valid /\ Current = cursor

\* "Ensure that all children are positioned after key()", or before it: what
\* FindSmallest and FindLargest rely on.
ChildrenBeyond ==
  StatusOk /\ MergeValid(merge) =>
    \A i \in Children \ {merge.current}: LET at == merge.at[i] IN
      Valid(at) => IF merge.reverse THEN Before(KeyAt(Child(i), at), MergeKey(merge))
                   ELSE Before(MergeKey(merge), KeyAt(Child(i), at))

\* Any calls, in any order, over children some of whose blocks cannot be read
\* (db_iter.cc:128-309, merger.cc:37-153, two_level_iterator.cc:79-166).
IteratorRight == TypeOK /\ ShowsCursor /\ ChildrenBeyond
=================================================================================

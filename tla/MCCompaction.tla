----------------------------- MODULE MCCompaction -----------------------------
(* The levels on small instances, one of which each behaviour is.            *)
EXTENDS Compaction

\* Level 1 holds one entry, level 2 three, before they are too large.
Capacity == [l \in 1..(NumLevels - 1) |-> IF l = 1 THEN 1 ELSE 3]

Instance(keys, types, writes, memory, taken, charged, nested, fileSize, grandparents, expanded, ranges) ==
  [keys |-> keys, types |-> types, writes |-> writes, memory |-> memory,
   snapshots |-> taken, seeks |-> charged, nested |-> nested, fileSize |-> fileSize,
   grandparents |-> grandparents, expanded |-> expanded, ranges |-> ranges]

All == MaxKey + 1
Both == {"put", "delete"}

Instances ==
  { \* short files, memtables flushed in the middle of merges
    Instance(1..2, Both, 4, 2, 0, 0, TRUE, 1, 1, 9, {}),
    Instance(1..2, {"put"}, 5, 1, 0, 0, TRUE, 9, 9, 9, {}),
    \* a snapshot, with files that hold all entries of a key, or without deletions
    Instance(1..2, Both, 3, 1, 1, 0, FALSE, 9, 9, 9, {}),
    Instance({1}, Both, 4, 1, 1, 0, TRUE, 9, 9, 9, {}),
    Instance(1..2, {"put"}, 4, 1, 1, 0, FALSE, 1, 9, 9, {}),
    \* ranges compacted by hand, and a file that is read too often
    Instance(1..2, {"put"}, 4, 1, 0, 0, FALSE, 1, 9, 9, {<<0, 0, All>>, <<1, 1, 1>>}),
    Instance(1..3, {"put"}, 4, 2, 0, 1, FALSE, 1, 1, 9, {}) }

\* A snapshot lets a merge end a file between a deletion and what it deletes.
SplitKey == { Instance(1..2, Both, 4, 2, 1, 0, FALSE, 2, 9, 9, {}) }

=============================================================================

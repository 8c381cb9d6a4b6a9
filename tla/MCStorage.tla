------------------------------- MODULE MCStorage -------------------------------
(* The levels, and what the engine reads and writes them with, checked side  *)
(* by side: a behaviour is one of the six parts, the others stay where they  *)
(* start.                                                                    *)
EXTENDS MCCompaction, SkipList, TableCache

VARIABLES
  part,
  source, merge, iter, cursor,                                            \* Iterators
  file, left, begin, records, damaged, buffer, got, reports, done,        \* LogFormat
  added, builder                                                          \* TableFile

-----------------------------------------------------------------------------
(* Three or four entries over two keys, with keys between and around them,   *)
(* spread over two children: one of blocks of two entries, one of blocks of  *)
(* one, or of files, separated by their last keys or by shorter ones, of     *)
(* which one cannot be read.                                                 *)

Blocks(entries, n) ==
  LET s == Sorted(entries)
      end(i) == IF n * i < Len(s) THEN n * i ELSE Len(s)
  IN [i \in 1..((Len(s) + n - 1) \div n) |-> SubSeq(s, n * (i - 1) + 1, end(i))]

IndexOf(blocks, short) ==
  [i \in DOMAIN blocks |->
     LET final == Last(blocks[i])
     IN IF short /\ (i = Len(blocks) \/ blocks[i + 1][1][1] > final[1] + 1)
        THEN <<final[1] + 1, 99, "put">> ELSE final]

Child(entries, n, short, bad) ==
  LET blocks == Blocks(entries, n)
  IN [blocks |-> blocks, index |-> IndexOf(blocks, short), bad |-> bad]

\* The first child has blocks of n entries: with three, a block has two restart points.
Children(history, own, n, short, bad) ==
  LET some(S) == {<<history[s][1], s, history[s][2]>> : s \in S}
  IN <<Child(some(own), n, FALSE, {}), Child(some(DOMAIN history \ own), 1, short, bad)>>

Histories(n) == [1..n -> {1, 3} \X {"put", "delete"}]

Contents ==
  {[children |-> Children(h, own, 2, short, bad), sequence |-> s] :
     h \in Histories(3), own \in SUBSET (1..3), short \in BOOLEAN, bad \in {{}, {2}}, s \in {2, 3}}
  \cup {[children |-> Children(h, own, 3, FALSE, {}), sequence |-> 4] :
          h \in Histories(4), own \in SUBSET (1..4)}

Iter == INSTANCE Iterators WITH Keys <- 1..3, RestartInterval <- 2, Databases <- Contents
Log == INSTANCE LogFormat WITH BlockSize <- 8, HeaderSize <- 3, Lengths <- {1, 2, 4, 12}, MaxRecords <- 3
Table == INSTANCE TableFile WITH
  UserKeys <- {<<1>>, <<1, 1>>, <<2>>, <<3>>, <<3, 1>>}, MaxByte <- 3, Tags <- {1, 2}, MaxTag <- 3,
  RestartInterval <- 2, FilterBase <- 2, Sizes <- {1, 3}, MaxEntries <- 3, entries <- added

\* Three keys of the cache, of which two share a bucket of one or two.
ThreeFiles ==
  {[key |-> 1, hash |-> 0, charge |-> 1], [key |-> 2, hash |-> 2, charge |-> 1],
   [key |-> 3, hash |-> 3, charge |-> 2]}

iterVars == <<source, merge, iter, cursor>>
logVars == <<file, left, begin, records, damaged, buffer, got, reports, done>>
tableVars == <<added, builder>>

StorageInit ==
  /\ part \in {"levels", "iterators", "log", "list", "table", "cache"}
  /\ part # "levels" => limits = CHOOSE s \in Scenarios: TRUE
  /\ part # "iterators" => source = CHOOSE c \in Contents: TRUE
  /\ part # "cache" => capacity = 0
  /\ Init /\ Iter!Init /\ Log!Init /\ ListInit /\ Table!Init /\ CacheInit

StorageNext ==
  \/ part = "levels" /\ Next /\ UNCHANGED <<part, iterVars, logVars, listVars, tableVars, cacheVars>>
  \/ part = "iterators" /\ Iter!Step /\ UNCHANGED <<part, vars, logVars, listVars, tableVars, cacheVars>>
  \/ part = "log" /\ Log!Next /\ UNCHANGED <<part, vars, iterVars, listVars, tableVars, cacheVars>>
  \/ part = "list" /\ ListNext /\ UNCHANGED <<part, vars, iterVars, logVars, tableVars, cacheVars>>
  \/ part = "table" /\ Table!Next /\ UNCHANGED <<part, vars, iterVars, logVars, listVars, cacheVars>>
  \/ part = "cache" /\ CacheNext /\ UNCHANGED <<part, vars, iterVars, logVars, listVars, tableVars>>

StorageSpec ==
  /\ StorageInit
  /\ [][StorageNext]_<<part, vars, iterVars, logVars, listVars, tableVars, cacheVars>>
  /\ BackgroundRuns

\* An iterator shows what it should after any calls (db_iter.cc:128-309, merger.cc,
\* two_level_iterator.cc).
IteratorRight == Iter!IteratorRight

\* A log cut short or damaged gives back what it can (log_reader.cc:56-271), and
\* a table file what was added to it (table_builder.cc:94-253, table.cc:216-243).
FilesReadBack == Log!LogRight /\ Table!TableRight
================================================================================

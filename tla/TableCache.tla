------------------------------- MODULE TableCache -------------------------------
(***************************************************************************)
(* The cache of open tables and that of blocks: LRUCache counts references *)
(* to its entries, its own included, and TableCache::FindTable and         *)
(* Table::BlockReader look a key up, open what it stands for if it is not  *)
(* there, and insert that.  The cache has a mutex, held for a call; between*)
(* a lookup and an insertion the same key may be inserted, or erased, by   *)
(* another thread.                                                         *)
(*                                                                         *)
(* An entry is named by its turn: entries are not used again.  One shard,  *)
(* to which all keys hash, is enough: shards share nothing.  The chain of  *)
(* a bucket is the set of its entries: nothing depends on their order.     *)
(***************************************************************************)
EXTENDS Integers, Sequences, FiniteSets, SequencesExt

CONSTANTS Threads,
          CacheKeys,    \* [hash, charge, key]
          Capacities,   \* of the cache
          MinLength,    \* new_length of Resize, before it is doubled
          NoHandle,     \* nullptr
          MaxInserts    \* bound: insertions

ASSUME CacheAssumption ==
  /\ IsFiniteSet(Threads) /\ NoHandle \notin Nat
  /\ \A k \in CacheKeys: k.hash \in Nat /\ k.charge \in Nat
  /\ Capacities \subseteq Nat /\ MinLength \in Nat \ {0}

VARIABLES
  capacity,   \* capacity_
  handles,    \* LRUHandles: [key, refs, inCache, deletions], in the order of their
              \* insertion; deletions counts the calls of deleter
  lru, inUse, \* lru_, oldest first, and in_use_
  usage,      \* usage_
  elems,      \* HandleTable::elems_
  list,       \* HandleTable::list_: the chains of a power of two of buckets
  thread,     \* what each thread is doing: [at, key, handle]
  latest,     \* by key, the entry inserted last and not erased since, or NoHandle
  closed      \* the cache was destroyed

cacheVars == <<capacity, handles, lru, inUse, usage, elems, list, thread, latest, closed>>

\* The part of the state that mutex_ protects.
protected == <<handles, lru, inUse, usage, elems, list>>
Shard == [handles |-> handles, lru |-> lru, inUse |-> inUse, usage |-> usage,
          elems |-> elems, list |-> list]

Becomes(c) ==
  /\ handles' = c.handles /\ lru' = c.lru /\ inUse' = c.inUse
  /\ usage' = c.usage /\ elems' = c.elems /\ list' = c.list

Resting == [at |-> "idle", key |-> NoHandle, handle |-> NoHandle]

CacheInit ==
  /\ capacity \in Capacities
  /\ handles = <<>> /\ lru = <<>> /\ inUse = {} /\ usage = 0
  /\ elems = 0 /\ list = [i \in 1..MinLength |-> {}]
  /\ thread = [t \in Threads |-> Resting]
  /\ latest = [k \in CacheKeys |-> NoHandle]
  /\ closed = FALSE

-----------------------------------------------------------------------------
(* HandleTable.                                                            *)

Bucket(chains, key) == (key.hash % Len(chains)) + 1

\* FindPointer: the entries of a key in its chain, of which there is at most one.
Pointed(c, key) == {e \in c.list[Bucket(c.list, key)]: c.handles[e].key = key}
TableLookup(c, key) == IF Pointed(c, key) = {} THEN NoHandle ELSE CHOOSE e \in Pointed(c, key): TRUE

\* Resize: the smallest power of two, from MinLength, that is not below elems_.
\* As elems_ has just passed the length, that is the next one.
Resize(c) ==
  LET entries == UNION {c.list[i] : i \in DOMAIN c.list}
      chains == [i \in 1..(2 * Len(c.list)) |-> {}]
  IN [c EXCEPT !.list = [i \in DOMAIN chains |->
                           {e \in entries: Bucket(chains, c.handles[e].key) = i}]]

\* Insert replaces an entry of the same key, or makes the table grow.
TableInsert(c, e) ==
  LET key == c.handles[e].key
      old == Pointed(c, key)
      put == [c EXCEPT !.list[Bucket(c.list, key)] = (@ \ old) \cup {e},
                       !.elems = IF old = {} THEN @ + 1 ELSE @]
  IN IF put.elems > Len(c.list) THEN Resize(put) ELSE put

TableRemove(c, key) ==
  LET old == Pointed(c, key)
  IN IF old = {} THEN c
     ELSE [c EXCEPT !.list[Bucket(c.list, key)] = @ \ old, !.elems = @ - 1]

-----------------------------------------------------------------------------
(* LRUCache.                                                               *)

\* LRU_Remove: out of either list.
LruRemove(c, e) ==
  [c EXCEPT !.lru = IF e \in ToSet(@) THEN RemoveAt(@, CHOOSE i \in DOMAIN @: @[i] = e) ELSE @,
            !.inUse = @ \ {e}]

Ref(c, e) ==
  LET d == IF c.handles[e].refs = 1 /\ c.handles[e].inCache
           THEN [LruRemove(c, e) EXCEPT !.inUse = @ \cup {e}] ELSE c
  IN [d EXCEPT !.handles[e].refs = @ + 1]

\* A reference goes, and with the last one the entry.
Dropped(h) ==
  [h EXCEPT !.refs = @ - 1, !.deletions = IF h.refs = 1 THEN @ + 1 ELSE @]

\* Mutant: the last reference of an entry that the cache no longer holds puts
\* it back on the list.
UnrefAlways(c, e) ==
  LET d == [c EXCEPT !.handles[e] = Dropped(@)]
  IN IF d.handles[e].refs = 1 THEN [LruRemove(d, e) EXCEPT !.lru = Append(@, e)] ELSE d

Unref(c, e) ==
  LET d == [c EXCEPT !.handles[e] = Dropped(@)]
  IN IF d.handles[e].refs = 1 /\ d.handles[e].inCache
     THEN [LruRemove(d, e) EXCEPT !.lru = Append(@, e)] ELSE d

\* The entry has left the hash table.
FinishErase(c, e) ==
  IF e = NoHandle THEN c
  ELSE Unref([LruRemove(c, e) EXCEPT !.handles[e].inCache = FALSE,
                                     !.usage = @ - c.handles[e].key.charge], e)

EraseKey(c, key) == FinishErase(TableRemove(c, key), TableLookup(c, key))

\* The oldest entries on the list go, all of them or until the cache is not too
\* full.
EraseOldest(c, all) ==
  IF c.lru # <<>> /\ (all \/ c.usage > capacity) THEN EraseKey(c, c.handles[Head(c.lru)].key) ELSE c
Shrunk(c, all) ==
  LET after[n \in 0..Len(c.lru)] == IF n = 0 THEN c ELSE EraseOldest(after[n - 1], all)
  IN after[Len(c.lru)]

\* A new entry, referenced by the caller and, if anything is cached, by the cache.
NewHandle(c, key, refs, in) ==
  [c EXCEPT !.handles = Append(@, [key |-> key, refs |-> refs, inCache |-> in, deletions |-> 0])]
Inserted(c, key) ==
  LET e == Len(c.handles) + 1
      added == [NewHandle(c, key, 2, TRUE) EXCEPT !.inUse = @ \cup {e}, !.usage = @ + key.charge]
  IN Shrunk(IF capacity = 0 THEN NewHandle(c, key, 1, FALSE)
            ELSE FinishErase(TableInsert(added, e), TableLookup(c, key)), FALSE)

-----------------------------------------------------------------------------
(* The threads.                                                            *)

Goes(t, at, key, handle) == thread' = [thread EXCEPT ![t] = [at |-> at, key |-> key, handle |-> handle]]

\* FindTable, BlockReader: the lookup.
LookUp(t, key) ==
  /\ ~closed /\ thread[t].at = "idle"
  /\ LET e == TableLookup(Shard, key)
     IN IF e = NoHandle
        THEN Goes(t, "opening", key, NoHandle) /\ UNCHANGED protected
        ELSE Goes(t, "using", key, e) /\ Becomes(Ref(Shard, e))
  /\ UNCHANGED <<capacity, latest, closed>>

\* The file is opened, the block read.
InsertOpened(t) ==
  /\ thread[t].at = "opening" /\ Len(handles) < MaxInserts
  /\ Becomes(Inserted(Shard, thread[t].key))
  /\ Goes(t, "using", thread[t].key, Len(handles) + 1)
  /\ latest' = [latest EXCEPT ![thread[t].key] = IF capacity = 0 THEN NoHandle ELSE Len(handles) + 1]
  /\ UNCHANGED <<capacity, closed>>

\* It cannot be, or the caller wants no cache to be filled.
NotInserted(t) ==
  /\ thread[t].at = "opening"
  /\ thread' = [thread EXCEPT ![t] = Resting]
  /\ UNCHANGED <<capacity, protected, latest, closed>>

\* UnrefEntry, ReleaseBlock.
Release(t) ==
  /\ thread[t].at = "using"
  /\ Becomes(Unref(Shard, thread[t].handle))
  /\ thread' = [thread EXCEPT ![t] = Resting]
  /\ UNCHANGED <<capacity, latest, closed>>

\* TableCache::Evict.
Erase(key) ==
  /\ ~closed
  /\ TableLookup(Shard, key) # NoHandle
  /\ Becomes(EraseKey(Shard, key))
  /\ latest' = [latest EXCEPT ![key] = NoHandle]
  /\ UNCHANGED <<capacity, thread, closed>>

Prune ==
  /\ ~closed /\ lru # <<>>
  /\ Becomes(Shrunk(Shard, TRUE))
  /\ UNCHANGED <<capacity, thread, latest, closed>>

\* ~LRUCache, when nobody uses it: what is on the list goes.
Close ==
  /\ ~closed /\ \A t \in Threads: thread[t].at = "idle"
  /\ closed' = TRUE
  /\ handles' = [e \in DOMAIN handles |->
                   IF e \in ToSet(lru) THEN Dropped([handles[e] EXCEPT !.inCache = FALSE])
                   ELSE handles[e]]
  /\ UNCHANGED <<capacity, lru, inUse, usage, elems, list, thread, latest>>

CacheNext ==
  \/ \E t \in Threads:
       InsertOpened(t) \/ NotInserted(t) \/ Release(t) \/ \E k \in CacheKeys: LookUp(t, k)
  \/ \E k \in CacheKeys: Erase(k)
  \/ Prune \/ Close

CacheSpec == CacheInit /\ [][CacheNext]_cacheVars

-----------------------------------------------------------------------------
(* Properties.                                                             *)

UsersOf(e) == {t \in Threads: thread[t].handle = e}
InCache == {e \in DOMAIN handles: handles[e].inCache}

\* What the cache holds is charged for.
Charged(hs) ==
  LET charge[n \in 0..Len(hs)] ==
        IF n = 0 THEN 0 ELSE charge[n - 1] + IF hs[n].inCache THEN hs[n].key.charge ELSE 0
  IN charge[Len(hs)]

\* What a thread holds is not deleted; an entry is deleted once, and when
\* neither a thread nor the cache holds it: none is lost, not even one that was
\* replaced or erased while in use.
Counted ==
  \A e \in DOMAIN handles:
    /\ handles[e].refs = Cardinality(UsersOf(e)) + IF handles[e].inCache THEN 1 ELSE 0
    /\ handles[e].deletions = IF handles[e].refs = 0 THEN 1 ELSE 0

\* "All items in the cache are in one list or the other, and never both", by
\* whether a thread uses them; the usage is theirs; and the hash table, resized
\* or not, leads to each of them and to nothing else.
Listed ==
  ~closed =>
    /\ ToSet(lru) = {e \in InCache: UsersOf(e) = {}} /\ IsInjective(lru)
    /\ inUse = {e \in InCache: UsersOf(e) # {}}
    /\ usage = Charged(handles)
    /\ UNION ToSet(list) = InCache /\ elems = Cardinality(InCache) /\ elems <= Len(list)
    /\ \A e \in InCache: TableLookup(Shard, handles[e].key) = e

\* A lookup finds the entry of its key that was inserted last, or nothing:
\* never one that was replaced or erased.
Fresh ==
  ~closed => \A k \in CacheKeys: TableLookup(Shard, k) \in {latest[k], NoHandle}

\* Whatever two threads do to a key between the lookup and the insertion of
\* either (cache.cc:217-334, table_cache.cc:45-75, table.cc:155-207), cached
\* tables and blocks are counted, listed and found as they should be.
CacheRight == Counted /\ Listed /\ Fresh
=================================================================================

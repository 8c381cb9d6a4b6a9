-------------------------------- MODULE SkipList --------------------------------
(***************************************************************************)
(* The list under a memtable: one writer at a time inserts, and readers    *)
(* search and iterate without a lock while it does.                        *)
(*                                                                         *)
(* The stores of the writer are kept in the order it made them.  A reader  *)
(* has a view, the last store it is known to come after: a load returns    *)
(* any store to its place that is not older than what the view covers, and *)
(* an acquire load of a release store extends the view to it.  With one    *)
(* writer this is what the C++ memory model allows.  A node is its key.    *)
(***************************************************************************)
EXTENDS Integers, Sequences, FiniteSets, SequencesExt

CONSTANTS MaxNode,   \* keys are 1..MaxNode
          MaxHeight  \* kMaxHeight

ASSUME ListAssumption == MaxNode \in Nat /\ MaxHeight \in Nat \ {0}

HeadNode == 0
Null == MaxNode + 1     \* sorts after all keys
Garbage == -1          \* what uninitialised memory holds
ListLevels == 0..(MaxHeight - 1)

VARIABLES
  stores,      \* the stores to next_: [node, level, to, release]
  maxHeights,  \* the values max_height_ has had
  inserting,   \* Insert in progress: [key, height, level], or NoInsert
  reader       \* its view, its iterator's node, the call under way, with what
               \* it had to see at its start, and the call that ended last

listVars == <<stores, maxHeights, inserting, reader>>

NoInsert == [key |-> Null, height |-> 0, level |-> 0]
Idle == [view |-> 0, node |-> Null, op |-> "none", did |-> "none", target |-> Null,
         level |-> 0, at |-> HeadNode, known |-> {}]

ListInit ==
  /\ stores = <<>>
  /\ maxHeights = {1}
  /\ inserting = NoInsert
  /\ reader = Idle

StoresTo(node, level) == {i \in DOMAIN stores: stores[i].node = node /\ stores[i].level = level}

-----------------------------------------------------------------------------
(* Insert, by the thread that holds the writers' queue.                    *)

\* The keys a search at a level meets, as the writer sees them.
Linked(level) == {stores[i].to : i \in {j \in DOMAIN stores: stores[j].level = level}} \ {Null}
Predecessor(level, key) == Max({HeadNode} \cup {n \in Linked(level): n < key})
Successor(level, key) == Min({Null} \cup {n \in Linked(level): n > key})

\* FindGreaterOrEqual has filled prev; a new height is announced first.
Insert(key, height) ==
  /\ inserting = NoInsert /\ key \notin Linked(0)
  /\ inserting' = [key |-> key, height |-> height, level |-> 0]
  /\ maxHeights' = maxHeights \cup IF height > Max(maxHeights) THEN {height} ELSE {}
  /\ UNCHANGED <<stores, reader>>

Store(node, level, to, release) ==
  [node |-> node, level |-> level, to |-> to, release |-> release]

\* Mutant: the node is published before its own link is set.
LinkBackwards(x, level) ==
  <<Store(Predecessor(level, x), level, x, TRUE), Store(x, level, Successor(level, x), FALSE)>>
\* x->NoBarrier_SetNext, prev[i]->SetNext.
Link(x, level) ==
  <<Store(x, level, Successor(level, x), FALSE), Store(Predecessor(level, x), level, x, TRUE)>>

\* One turn of Insert's loop.
LinkLevel ==
  /\ inserting # NoInsert
  /\ stores' = stores \o Link(inserting.key, inserting.level)
  /\ inserting' = IF inserting.level + 1 = inserting.height THEN NoInsert
                  ELSE [inserting EXCEPT !.level = @ + 1]
  /\ UNCHANGED <<maxHeights, reader>>

-----------------------------------------------------------------------------
(* A reader's loads.                                                       *)

\* Node::Next: each value a load may return, with the view after it.
Loads(node, level, view) ==
  LET all == StoresTo(node, level)
      seen == {i \in all: i <= view}
  IN {[to |-> stores[i].to,
       view |-> IF stores[i].release /\ i > view THEN i ELSE view] :
        i \in {j \in all: \A s \in seen: j >= s}}
     \cup IF seen # {} THEN {} ELSE {[to |-> IF node = HeadNode THEN Null ELSE Garbage, view |-> view]}

\* What the reader must see: the keys whose insertion it is known to follow.
Known(view) == {stores[i].to : i \in {j \in DOMAIN stores: stores[j].level = 0 /\ j <= view}} \ {Null}

\* A call starts; max_height_ is read racily, any of its values will do.
Call(op, target) ==
  /\ reader.op = "none"
  /\ \E height \in maxHeights:
       reader' = [reader EXCEPT !.op = op, !.did = "none", !.target = target, !.at = HeadNode,
                                !.level = height - 1, !.known = Known(reader.view)]
  /\ UNCHANGED <<stores, maxHeights, inserting>>

Seek(target) == Call("FindGreaterOrEqual", target)
Prev == reader.node \in 1..MaxNode /\ Call("FindLessThan", reader.node)
SeekToLast == Call("FindLast", Null)

\* NewIterator is called under the mutex: the reader follows what was inserted.
NewIterator ==
  /\ reader.op = "none"
  /\ reader' = [Idle EXCEPT !.view = Len(stores)]
  /\ UNCHANGED <<stores, maxHeights, inserting>>

Return(node, view) ==
  reader' = [reader EXCEPT !.op = "none", !.did = reader.op, !.at = HeadNode, !.node = node, !.view = view]

\* One turn of a search loop: along the level, down a level, or out.
Search ==
  /\ reader.op \in {"FindGreaterOrEqual", "FindLessThan", "FindLast"}
  /\ \E next \in Loads(reader.at, reader.level, reader.view):
       \/ /\ next.to < reader.target
          /\ reader' = [reader EXCEPT !.at = next.to, !.view = next.view]
       \/ /\ next.to >= reader.target /\ reader.level > 0
          /\ reader' = [reader EXCEPT !.level = @ - 1, !.view = next.view]
       \/ /\ next.to >= reader.target /\ reader.level = 0
          /\ IF reader.op = "FindGreaterOrEqual" THEN Return(next.to, next.view)
             ELSE Return(IF reader.at = HeadNode THEN Null ELSE reader.at, next.view)
  /\ UNCHANGED <<stores, maxHeights, inserting>>

\* SeekToFirst and Next are a load each.
Step(op, node) ==
  /\ reader.op = "none"
  /\ \E next \in Loads(node, 0, reader.view):
       reader' = [reader EXCEPT !.did = op, !.target = node, !.known = Known(reader.view),
                                !.node = next.to, !.view = next.view]
  /\ UNCHANGED <<stores, maxHeights, inserting>>

SeekToFirst == Step("Next", HeadNode)
NextNode == reader.node \in 1..MaxNode /\ Step("Next", reader.node)

ListNext ==
  \/ \E key \in 1..MaxNode, height \in 1..MaxHeight: Insert(key, height)
  \/ LinkLevel
  \/ NewIterator
  \/ \E target \in 1..MaxNode: Seek(target)
  \/ Prev \/ SeekToLast \/ SeekToFirst \/ NextNode
  \/ Search

ListSpec == ListInit /\ [][ListNext]_listVars

-----------------------------------------------------------------------------
(* Properties.                                                             *)

ListTypeOK ==
  /\ maxHeights \subseteq 1..MaxHeight
  /\ inserting = NoInsert \/ (inserting.key \in 1..MaxNode /\ inserting.level < inserting.height)
  /\ reader.view \in 0..Len(stores) /\ reader.level \in ListLevels
  /\ reader.node \in 1..Null /\ reader.at \in 0..MaxNode

\* No key the reader had to know of lies between two places.
NoneBetween(low, high) == \A k \in reader.known: ~(low < k /\ k < high)

\* A call that runs beside insertions never follows memory that was not yet
\* initialised, and returns the node it should among those inserted before it
\* began: the ones inserted meanwhile it may see or not.
SearchRight ==
  LET node == reader.node
      target == reader.target
  IN CASE reader.did = "FindGreaterOrEqual" -> node >= target /\ NoneBetween(target - 1, node)
       [] reader.did = "Next" -> node > target /\ NoneBetween(target, node)
       [] reader.did \in {"FindLessThan", "FindLast"} ->
            IF node = Null THEN NoneBetween(HeadNode, target)
            ELSE node < target /\ NoneBetween(node, target)
       [] OTHER -> TRUE

\* Lock-free reads of the memtable (skiplist.h:206-322 beside 336-368).
ReadsBesideInserts == ListTypeOK /\ SearchRight
=================================================================================

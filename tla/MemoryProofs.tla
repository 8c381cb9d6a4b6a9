----------------------------- MODULE MemoryProofs -----------------------------
(***************************************************************************)
(* What the engine keeps in memory and threads share: the memtable's list, *)
(* which is read without a lock, and the cache of tables and blocks.       *)
(*                                                                         *)
(* The list's invariant is about the history of the writer's stores, not   *)
(* about the list they make up: what a reader may load depends on all of   *)
(* it.  The cache's is about a shard and what callers hold of it, so that  *)
(* each helper of the code has a lemma of its own.                         *)
(***************************************************************************)
EXTENDS SkipList, TableCache, FiniteSetTheorems, SequenceTheorems, WellFoundedInduction, TLAPS

-----------------------------------------------------------------------------
(* The skip list: the inductive invariant.                                 *)

StoreSet == [node: 0..MaxNode, level: ListLevels, to: 1..Null, release: BOOLEAN]
Searches == {"FindGreaterOrEqual", "FindLessThan", "FindLast"}
ReaderSet ==
  [view: Nat, node: 1..Null, op: {"none"} \cup Searches, did: {"none", "Next"} \cup Searches,
   target: 0..Null, level: ListLevels, at: 0..MaxNode, known: SUBSET (1..MaxNode)]

\* One of the first v stores is to a node's link of a level.
Linking(node, level, v) ==
  \E i \in DOMAIN stores: i <= v /\ stores[i].node = node /\ stores[i].level = level

Types ==
  /\ stores \in Seq(StoreSet)
  /\ maxHeights \subseteq 1..MaxHeight
  /\ inserting \in [key: 1..Null, height: 0..MaxHeight, level: 0..MaxHeight]
  /\ reader \in ReaderSet
  /\ reader.view <= Len(stores)

\* Links lead to greater keys.
Forward == \A i \in DOMAIN stores: stores[i].node < stores[i].to

\* The only plain store to a link is its first, and never to the head's.
OwnFirst ==
  \A i \in DOMAIN stores: ~stores[i].release =>
    /\ stores[i].node # HeadNode
    /\ \A j \in DOMAIN stores:
         stores[j].node = stores[i].node /\ stores[j].level = stores[i].level => i <= j

\* Before a link leads to a node at a level, the node's own links of this level
\* and of those below are set.
SetBefore ==
  \A i \in DOMAIN stores: stores[i].to # Null =>
    \A l \in 0..stores[i].level: Linking(stores[i].to, l, i - 1)

\* A node that has a link at a level is linked at this level.
NodesLinked ==
  \A i \in DOMAIN stores:
    stores[i].node # HeadNode => stores[i].node \in Linked(stores[i].level)

\* The key that is being inserted is linked up to its present level.
InsertionFresh ==
  inserting # NoInsert =>
    /\ inserting.key # Null /\ inserting.level < inserting.height
    /\ \A l \in ListLevels: l >= inserting.level => inserting.key \notin Linked(l)
    /\ \A l \in ListLevels: l < inserting.level => Linking(inserting.key, l, Len(stores))

\* Of two nodes that were neighbours, the first was given another link before
\* or when a key between them was linked.
Adjacent ==
  \A i, j \in DOMAIN stores:
    /\ stores[i].level = 0 /\ stores[j].level = 0
    /\ stores[i].node < stores[j].to /\ stores[j].to < stores[i].to
    => \E s \in DOMAIN stores:
         i < s /\ s <= j /\ stores[s].node = stores[i].node /\ stores[s].level = 0

\* The head was linked before or when any key was.
HeadLinked ==
  \A j \in DOMAIN stores:
    stores[j].level = 0 /\ stores[j].to # Null => Linking(HeadNode, 0, j)

\* Where the reader is, every link it may follow is set as far as it can see;
\* and its view is no smaller than when its call started.
ReaderSafe ==
  /\ reader.at # HeadNode => \A l \in 0..reader.level: Linking(reader.at, l, reader.view)
  /\ reader.node # Null => Linking(reader.node, 0, reader.view)
  /\ reader.op # "none" => reader.at < reader.target
  /\ reader.known \subseteq Known(reader.view)

Chained ==
  Forward /\ OwnFirst /\ SetBefore /\ NodesLinked /\ Adjacent /\ HeadLinked

ListInv == Types /\ Chained /\ InsertionFresh /\ ReaderSafe /\ SearchRight

-----------------------------------------------------------------------------
(* Keys and links.                                                         *)

LEMMA Constants == MaxNode \in Nat /\ MaxHeight \in Nat \ {0} /\ Null \in Nat /\ 0 \in ListLevels
<1> QED BY ListAssumption DEF Null, ListLevels

\* Every set of natural numbers has a least one.
LEMMA LeastNat ==
  ASSUME NEW T \in SUBSET Nat, T # {}
  PROVE  \E x \in T : \A y \in T : x <= y
<1>1. IsWellFoundedOn(OpToRel(<, Nat), Nat)
  BY NatLessThanWellFounded
<1> DEFINE R == OpToRel(<, Nat)
<1>2. \A x, y \in Nat : <<x, y>> \in R <=> x < y
  BY DEF OpToRel
<1> HIDE DEF R
<1>3. \E x \in T : \A y \in T : ~(<<y, x>> \in R)
  BY <1>1, WFMin DEF R
<1>4. PICK x \in T : \A y \in T : <<y, x>> \notin R
  BY <1>3
<1>5. \A y \in T : ~(y < x)
  BY <1>2, <1>4
<1> QED BY <1>5

\* A set of numbers up to a bound has a greatest element, and it is Max.
LEMMA MaxOfBounded ==
  ASSUME NEW n \in Nat, NEW S \in SUBSET (0..n), S # {}
  PROVE  Max(S) \in S /\ \A y \in S: y <= Max(S)
<1> DEFINE T == {n - y : y \in S}
<1>1. T \in SUBSET Nat /\ T # {}
  <2>1. \A y \in S: y \in 0..n /\ n - y \in Nat
    OBVIOUS
  <2> QED BY <2>1
<1>2. PICK t \in T: \A u \in T: t <= u
  BY <1>1, LeastNat
<1>3. PICK x \in S: t = n - x
  BY <1>2
<1>4. \A y \in S: x >= y
  BY <1>2, <1>3
<1> QED BY <1>4 DEF Max

\* And a set of numbers has a least one, which is Min.
LEMMA MinOfNaturals ==
  ASSUME NEW S \in SUBSET Nat, S # {}
  PROVE  Min(S) \in S /\ \A y \in S: Min(S) <= y
<1>1. PICK x \in S: \A y \in S: x <= y
  BY LeastNat
<1> QED BY <1>1 DEF Min

LEMMA LinkedMember ==
  ASSUME NEW l, NEW n
  PROVE  n \in Linked(l) <=>
           n # Null /\ \E i \in DOMAIN stores: stores[i].level = l /\ stores[i].to = n
<1> QED BY DEF Linked

LEMMA LinkedKeys ==
  ASSUME Types, NEW l
  PROVE  Linked(l) \subseteq 1..MaxNode
<1>1. \A i \in DOMAIN stores: stores[i] \in StoreSet
  BY DEF Types
<1>2. \A n \in Linked(l): n \in 1..Null /\ n # Null
  BY <1>1, LinkedMember DEF StoreSet
<1> QED BY <1>2, Constants DEF Null

\* The neighbours between which a key goes.
LEMMA Neighbours ==
  ASSUME Types, NEW x \in 1..MaxNode, NEW l
  PROVE  /\ Successor(l, x) \in 1..Null /\ x < Successor(l, x)
         /\ Successor(l, x) # Null => Successor(l, x) \in Linked(l)
         /\ \A n \in Linked(l): n > x => Successor(l, x) <= n
         /\ Predecessor(l, x) \in 0..MaxNode /\ Predecessor(l, x) < x
         /\ Predecessor(l, x) # HeadNode => Predecessor(l, x) \in Linked(l)
         /\ \A n \in Linked(l): n < x => n <= Predecessor(l, x)
<1> USE Constants
<1>1. Linked(l) \subseteq 1..MaxNode
  BY LinkedKeys
<1> DEFINE A == {Null} \cup {n \in Linked(l): n > x}
           B == {HeadNode} \cup {n \in Linked(l): n < x}
<1>2. A \in SUBSET Nat /\ A # {}
  BY <1>1
<1>3. Min(A) \in A /\ \A y \in A: Min(A) <= y
  BY <1>2, MinOfNaturals
<1>4. B \in SUBSET (0..MaxNode) /\ B # {}
  BY <1>1 DEF HeadNode
<1>5. Max(B) \in B /\ \A y \in B: y <= Max(B)
  BY <1>4, MaxOfBounded
<1>6. Successor(l, x) = Min(A) /\ Predecessor(l, x) = Max(B)
  BY DEF Successor, Predecessor
<1> HIDE DEF A, B
<1>7. Min(A) = Null \/ (Min(A) \in Linked(l) /\ Min(A) > x)
  BY <1>3 DEF A
<1>8. Max(B) = HeadNode \/ (Max(B) \in Linked(l) /\ Max(B) < x)
  BY <1>5 DEF B
<1>9. \A n \in Linked(l): n > x => Min(A) <= n
  BY <1>3 DEF A
<1>10. \A n \in Linked(l): n < x => n <= Max(B)
  BY <1>5 DEF B
<1> QED BY <1>1, <1>6, <1>7, <1>8, <1>9, <1>10 DEF Null, HeadNode

-----------------------------------------------------------------------------
(* One turn of Insert's loop appends two stores.                           *)

\* What the step does, as the rest of the proof uses it.
LinksBetween(x, l, a, b, n) ==
  /\ n = Len(stores) /\ n \in Nat /\ DOMAIN stores = 1..n /\ DOMAIN stores' = 1..(n + 2)
  /\ \A i \in 1..n: stores'[i] = stores[i] /\ stores[i] \in StoreSet
  /\ stores'[n + 1] = Store(x, l, a, FALSE)
  /\ stores'[n + 2] = Store(b, l, x, TRUE)
  /\ x \in 1..MaxNode /\ l \in ListLevels
  /\ a \in 1..Null /\ x < a /\ (a # Null => a \in Linked(l))
  /\ b \in 0..MaxNode /\ b < x /\ (b # HeadNode => b \in Linked(l))
  /\ \A k \in Linked(l): (k > x => a <= k) /\ (k < x => k <= b)
  /\ x \notin Linked(l)

LEMMA LinkLevelAppends ==
  ASSUME Types, InsertionFresh, LinkLevel
  PROVE  /\ \E a, b: LinksBetween(inserting.key, inserting.level, a, b, Len(stores))
         /\ stores' \in Seq(StoreSet) /\ Len(stores') = Len(stores) + 2
<1> USE Constants
<1> DEFINE x == inserting.key
           l == inserting.level
           a == Successor(l, x)
           b == Predecessor(l, x)
           n == Len(stores)
<1>1. x \in 1..MaxNode /\ l \in ListLevels /\ x \notin Linked(l)
  BY DEF Types, InsertionFresh, LinkLevel, ListLevels, Null
<1>2. /\ a \in 1..Null /\ x < a /\ (a # Null => a \in Linked(l))
      /\ b \in 0..MaxNode /\ b < x /\ (b # HeadNode => b \in Linked(l))
      /\ \A k \in Linked(l): (k > x => a <= k) /\ (k < x => k <= b)
  BY <1>1, Neighbours
<1>3. stores' = stores \o <<Store(x, l, a, FALSE), Store(b, l, x, TRUE)>>
  BY DEF LinkLevel, Link
<1> HIDE DEF a, b, x, l
<1>4. Store(x, l, a, FALSE) \in StoreSet /\ Store(b, l, x, TRUE) \in StoreSet
  BY <1>1, <1>2 DEF Store, StoreSet, Null
<1> DEFINE s == Store(x, l, a, FALSE)
           t == Store(b, l, x, TRUE)
<1>5. s \in StoreSet /\ t \in StoreSet /\ stores' = stores \o <<s, t>>
  BY <1>3, <1>4
<1> HIDE DEF s, t
<1>6. /\ stores' \in Seq(StoreSet) /\ Len(stores') = n + 2
      /\ n \in Nat /\ DOMAIN stores = 1..n /\ DOMAIN stores' = 1..(n + 2)
      /\ \A i \in 1..n: stores'[i] = stores[i] /\ stores[i] \in StoreSet
      /\ stores'[n + 1] = s /\ stores'[n + 2] = t
  <2>1. stores \in Seq(StoreSet) /\ <<s, t>> \in Seq(StoreSet) /\ Len(<<s, t>>) = 2
    BY <1>5 DEF Types
  <2> QED BY <1>5, <2>1
<1>7. LinksBetween(x, l, a, b, n)
  BY <1>1, <1>2, <1>6 DEF LinksBetween, s, t
<1> QED BY <1>6, <1>7 DEF x, l

\* What is linked afterwards.
LEMMA LinkedThen ==
  ASSUME NEW x, NEW l, NEW a, NEW b, NEW n, LinksBetween(x, l, a, b, n)
  PROVE  /\ Linked(l)' = Linked(l) \cup {x}
         /\ \A m \in ListLevels: m # l => Linked(m)' = Linked(m)
<1> USE Constants DEF LinksBetween, Store
<1>1. \A i \in DOMAIN stores': i \in 1..n \/ i = n + 1 \/ i = n + 2
  OBVIOUS
<1>2. x # Null
  BY DEF Null
<1>3. \A m, k: k \in Linked(m)' <=>
         k # Null /\ \E i \in DOMAIN stores': stores'[i].level = m /\ stores'[i].to = k
  BY DEF Linked
<1>4. \A m, k: k \in Linked(m) =>
         k # Null /\ \E i \in 1..n: stores[i].level = m /\ stores[i].to = k
  BY LinkedMember
<1>5. ASSUME NEW m \in ListLevels, NEW k \in Linked(m) PROVE k \in Linked(m)'
  <2>1. PICK i \in 1..n: stores[i].level = m /\ stores[i].to = k
    BY <1>4
  <2>2. i \in DOMAIN stores' /\ stores'[i].level = m /\ stores'[i].to = k /\ k # Null
    BY <1>4, <2>1
  <2> QED BY <1>3, <2>2
<1>6. x \in Linked(l)'
  BY <1>2, <1>3
<1>7. ASSUME NEW m \in ListLevels, NEW k \in Linked(m)'
      PROVE  k \in Linked(m) \/ (m = l /\ k = x)
  <2>1. PICK i \in DOMAIN stores': stores'[i].level = m /\ stores'[i].to = k
    BY <1>3
  <2>2. k # Null
    BY <1>3
  <2>3. CASE i \in 1..n
    BY <2>1, <2>2, <2>3, LinkedMember
  <2>4. CASE i = n + 1
    BY <2>1, <2>2, <2>4
  <2>5. CASE i = n + 2
    BY <2>1, <2>5
  <2> QED BY <1>1, <2>3, <2>4, <2>5
<1>8. Linked(l)' \subseteq Linked(l) \cup {x} /\ Linked(l) \cup {x} \subseteq Linked(l)'
  BY <1>5, <1>6, <1>7
<1>9. \A m \in ListLevels: m # l => Linked(m)' \subseteq Linked(m) /\ Linked(m) \subseteq Linked(m)'
  BY <1>5, <1>7
<1> QED BY <1>8, <1>9

\* Stores that are there stay there.
LEMMA LinkingStays ==
  ASSUME NEW x, NEW l, NEW a, NEW b, NEW n, LinksBetween(x, l, a, b, n),
         NEW node, NEW m, NEW v, Linking(node, m, v)
  PROVE  Linking(node, m, v)'
<1>1. PICK i \in 1..n: i <= v /\ stores[i].node = node /\ stores[i].level = m
  BY DEF Linking, LinksBetween
<1>2. i \in DOMAIN stores' /\ stores'[i].node = node /\ stores'[i].level = m
  BY <1>1 DEF LinksBetween
<1> QED BY <1>1, <1>2 DEF Linking

-----------------------------------------------------------------------------
(* Each part of Chained outlives it.                                       *)

LEMMA ForwardKept ==
  ASSUME NEW x, NEW l, NEW a, NEW b, NEW n, LinksBetween(x, l, a, b, n), Forward
  PROVE  Forward'
<1> USE DEF LinksBetween, Store
<1>1. ASSUME NEW i \in DOMAIN stores' PROVE stores'[i].node < stores'[i].to
  <2>1. i \in 1..n \/ i = n + 1 \/ i = n + 2
    OBVIOUS
  <2> QED BY <2>1 DEF Forward
<1> QED BY <1>1 DEF Forward

LEMMA OwnFirstKept ==
  ASSUME NEW x, NEW l, NEW a, NEW b, NEW n, LinksBetween(x, l, a, b, n),
         OwnFirst, NodesLinked
  PROVE  OwnFirst'
<1> USE DEF LinksBetween, Store
<1>1. \A j \in 1..n: ~(stores[j].node = x /\ stores[j].level = l)
  BY DEF NodesLinked, HeadNode
<1>2. ASSUME NEW i \in DOMAIN stores', ~stores'[i].release
      PROVE  /\ stores'[i].node # HeadNode
             /\ \A j \in DOMAIN stores':
                  stores'[j].node = stores'[i].node /\ stores'[j].level = stores'[i].level => i <= j
  <2>1. i \in 1..n \/ i = n + 1
    BY <1>2
  <2>2. \A j \in DOMAIN stores': j \in 1..n \/ j = n + 1 \/ j = n + 2
    OBVIOUS
  <2>3. CASE i \in 1..n
    <3>1. /\ stores[i].node # HeadNode
          /\ \A j \in 1..n: stores[j].node = stores[i].node /\ stores[j].level = stores[i].level => i <= j
      BY <1>2, <2>3 DEF OwnFirst
    <3> QED BY <2>2, <2>3, <3>1
  <2>4. CASE i = n + 1
    <3>1. stores'[i].node = x /\ stores'[i].level = l /\ x # HeadNode
      BY <2>4 DEF HeadNode
    <3>2. \A j \in 1..n: ~(stores'[j].node = x /\ stores'[j].level = l)
      BY <1>1
    <3> QED BY <2>2, <2>4, <3>1, <3>2
  <2> QED BY <2>1, <2>3, <2>4
<1> QED BY <1>2 DEF OwnFirst

LEMMA SetBeforeKept ==
  ASSUME NEW x, NEW l, NEW a, NEW b, NEW n, LinksBetween(x, l, a, b, n), SetBefore,
         \A m \in ListLevels: m < l => Linking(x, m, n)
  PROVE  SetBefore'
<1> USE Constants
<1>1. ASSUME NEW i \in DOMAIN stores', stores'[i].to # Null, NEW m \in 0..stores'[i].level
      PROVE  \E j \in DOMAIN stores':
               j <= i - 1 /\ stores'[j].node = stores'[i].to /\ stores'[j].level = m
  <2>1. i \in 1..n \/ i = n + 1 \/ i = n + 2
    BY DEF LinksBetween
  <2>2. CASE i \in 1..n
    <3>1. stores'[i] = stores[i] /\ i \in DOMAIN stores
      BY <2>2 DEF LinksBetween
    <3>2. Linking(stores[i].to, m, i - 1)
      BY <1>1, <3>1 DEF SetBefore
    <3>3. PICK j \in 1..n: j <= i - 1 /\ stores[j].node = stores[i].to /\ stores[j].level = m
      BY <3>2 DEF Linking, LinksBetween
    <3>4. j \in DOMAIN stores' /\ stores'[j] = stores[j]
      BY <3>3 DEF LinksBetween
    <3> QED BY <3>1, <3>3, <3>4
  <2>3. CASE i = n + 1
    <3>1. stores'[i].to = a /\ stores'[i].level = l /\ a # Null
      BY <1>1, <2>3 DEF LinksBetween, Store
    <3>2. a \in Linked(l)
      BY <3>1 DEF LinksBetween
    <3>3. PICK k \in 1..n: stores[k].level = l /\ stores[k].to = a
      BY <3>2, LinkedMember DEF LinksBetween
    <3>4. Linking(a, m, k - 1)
      BY <1>1, <3>1, <3>3 DEF SetBefore, LinksBetween
    <3>5. PICK j \in 1..n: j <= k - 1 /\ stores[j].node = a /\ stores[j].level = m
      BY <3>4 DEF Linking, LinksBetween
    <3>6. j \in DOMAIN stores' /\ stores'[j] = stores[j] /\ j <= i - 1
      BY <2>3, <3>5 DEF LinksBetween
    <3> QED BY <3>1, <3>5, <3>6
  <2>4. CASE i = n + 2
    <3>1. stores'[i].to = x /\ stores'[i].level = l
      BY <2>4 DEF LinksBetween, Store
    <3>2. CASE m = l
      <4>1. n + 1 \in DOMAIN stores' /\ stores'[n + 1].node = x /\ stores'[n + 1].level = m /\ n + 1 <= i - 1
        BY <2>4, <3>2 DEF LinksBetween, Store
      <4> QED BY <3>1, <4>1
    <3>3. CASE m < l
      <4>1. Linking(x, m, n)
        BY <1>1, <3>1, <3>3 DEF LinksBetween, ListLevels
      <4>2. PICK j \in 1..n: stores[j].node = x /\ stores[j].level = m
        BY <4>1 DEF Linking, LinksBetween
      <4>3. j \in DOMAIN stores' /\ stores'[j] = stores[j] /\ j <= i - 1
        BY <2>4, <4>2 DEF LinksBetween
      <4> QED BY <3>1, <4>2, <4>3
    <3>4. m = l \/ m < l
      BY <1>1, <3>1 DEF LinksBetween, ListLevels
    <3> QED BY <3>2, <3>3, <3>4
  <2> QED BY <2>1, <2>2, <2>3, <2>4
<1> QED BY <1>1 DEF SetBefore, Linking

LEMMA NodesLinkedKept ==
  ASSUME NEW x, NEW l, NEW a, NEW b, NEW n, LinksBetween(x, l, a, b, n), NodesLinked
  PROVE  NodesLinked'
<1>1. Linked(l)' = Linked(l) \cup {x} /\ \A m \in ListLevels: m # l => Linked(m)' = Linked(m)
  BY LinkedThen
<1> USE DEF LinksBetween, Store
<1>2. ASSUME NEW i \in DOMAIN stores', stores'[i].node # HeadNode,
             NEW k, k = stores'[i].node, NEW m, m = stores'[i].level
      PROVE  k \in Linked(m)'
  <2>1. i \in 1..n \/ i = n + 1 \/ i = n + 2
    OBVIOUS
  <2>2. CASE i \in 1..n
    <3>1. stores'[i] = stores[i] /\ i \in DOMAIN stores /\ stores[i].level \in ListLevels
      BY <2>2 DEF StoreSet
    <3>2. stores[i].node \in Linked(stores[i].level)
      BY <1>2, <3>1 DEF NodesLinked
    <3>3. m \in ListLevels /\ k \in Linked(m)
      BY <1>2, <3>1, <3>2
    <3> QED BY <1>1, <3>3
  <2>3. CASE i = n + 1
    BY <1>1, <1>2, <2>3
  <2>4. CASE i = n + 2
    BY <1>1, <1>2, <2>4
  <2> QED BY <2>1, <2>2, <2>3, <2>4
<1> QED BY <1>2 DEF NodesLinked, Linked

LEMMA AdjacentKept ==
  ASSUME NEW x, NEW l, NEW a, NEW b, NEW n, LinksBetween(x, l, a, b, n),
         Adjacent, NodesLinked
  PROVE  Adjacent'
<1> USE Constants DEF HeadNode
<1>1. /\ \A i \in DOMAIN stores': i \in 1..n \/ i = n + 1 \/ i = n + 2
      /\ n \in Nat /\ n + 1 \in DOMAIN stores' /\ n + 2 \in DOMAIN stores'
  BY DEF LinksBetween
<1>2. /\ stores'[n + 1].node = x /\ stores'[n + 1].level = l /\ stores'[n + 1].to = a
      /\ stores'[n + 2].node = b /\ stores'[n + 2].level = l /\ stores'[n + 2].to = x
  BY DEF LinksBetween, Store
<1>3. /\ x \in 1..MaxNode /\ a \in 1..Null /\ b \in 0..MaxNode /\ b < x /\ x < a
      /\ \A k \in Linked(l): (k > x => a <= k) /\ (k < x => k <= b)
  BY DEF LinksBetween
<1>4. \A i \in 1..n: /\ i \in DOMAIN stores' /\ stores'[i] = stores[i] /\ i \in DOMAIN stores
                     /\ stores[i].node \in 0..MaxNode /\ stores[i].to \in 1..Null
  BY DEF LinksBetween, StoreSet
<1>5. ASSUME NEW i \in DOMAIN stores', NEW j \in DOMAIN stores',
             stores'[i].level = 0, stores'[j].level = 0,
             stores'[i].node < stores'[j].to, stores'[j].to < stores'[i].to
      PROVE  \E s \in DOMAIN stores':
               i < s /\ s <= j /\ stores'[s].node = stores'[i].node /\ stores'[s].level = 0
  \* A link set before is between a key and one that was linked before.
  <2>1. ASSUME NEW k \in 1..n, i \in 1..n, stores[k].level = 0, k <= j,
               stores[i].node < stores[k].to, stores[k].to < stores[i].to
        PROVE  \E s \in DOMAIN stores':
                 i < s /\ s <= j /\ stores'[s].node = stores'[i].node /\ stores'[s].level = 0
    <3>1. PICK s \in DOMAIN stores:
            i < s /\ s <= k /\ stores[s].node = stores[i].node /\ stores[s].level = 0
      BY <1>4, <1>5, <2>1 DEF Adjacent
    <3>2. s \in 1..n
      BY <3>1 DEF LinksBetween
    <3> QED BY <1>1, <1>4, <2>1, <3>1, <3>2
  <2>2. CASE j \in 1..n
    <3>1. CASE i \in 1..n
      BY <1>4, <1>5, <2>1, <2>2, <3>1
    <3>2. CASE i = n + 1 \/ i = n + 2
      <4>1. l = 0 /\ stores[j].level = 0
        BY <1>2, <1>4, <1>5, <2>2, <3>2
      <4>2. stores[j].to # Null
        BY <1>2, <1>3, <1>4, <1>5, <2>2, <3>2 DEF Null
      <4>3. stores[j].to \in Linked(l)
        BY <1>4, <2>2, <4>1, <4>2, LinkedMember
      <4>4. stores[j].to # x
        BY <4>3 DEF LinksBetween
      <4> QED BY <1>2, <1>3, <1>4, <1>5, <2>2, <3>2, <4>3, <4>4
    <3> QED BY <1>1, <3>1, <3>2
  <2>3. CASE j = n + 1
    <3>1. l = 0 /\ a < stores'[i].to /\ stores'[i].node < a
      BY <1>2, <1>5, <2>3
    <3>2. i \in 1..n
      BY <1>1, <1>2, <1>3, <3>1 DEF Null
    <3>3. a # Null
      BY <1>3, <1>4, <3>1, <3>2 DEF Null
    <3>4. PICK k \in 1..n: stores[k].level = 0 /\ stores[k].to = a
      BY <3>1, <3>3, LinkedMember DEF LinksBetween
    <3> QED BY <1>1, <1>4, <1>5, <2>1, <2>3, <3>1, <3>2, <3>4
  <2>4. CASE j = n + 2
    <3>1. l = 0 /\ x < stores'[i].to /\ stores'[i].node < x
      BY <1>2, <1>5, <2>4
    <3>2. i \in 1..n
      BY <1>1, <1>2, <1>3, <3>1
    <3>3. CASE stores[i].node = b
      BY <1>1, <1>2, <1>4, <2>4, <3>1, <3>2, <3>3
    <3>4. CASE stores[i].node # b
      <4>1. stores[i].node = 0 \/ stores[i].node \in Linked(l)
        BY <1>4, <1>5, <3>1, <3>2 DEF NodesLinked
      <4>2. stores[i].node < b
        BY <1>3, <1>4, <3>1, <3>2, <3>4, <4>1
      <4>3. b # HeadNode
        BY <1>3, <1>4, <3>2, <4>2
      <4>4. PICK k \in 1..n: stores[k].level = 0 /\ stores[k].to = b
        BY <3>1, <4>3, LinkedMember DEF LinksBetween
      <4>5. b < stores[i].to
        BY <1>3, <1>4, <3>1, <3>2
      <4> QED BY <1>1, <1>4, <1>5, <2>1, <2>4, <3>2, <4>2, <4>4, <4>5
    <3> QED BY <3>3, <3>4
  <2> QED BY <1>1, <2>2, <2>3, <2>4
<1> QED BY <1>5 DEF Adjacent

LEMMA HeadLinkedKept ==
  ASSUME NEW x, NEW l, NEW a, NEW b, NEW n, LinksBetween(x, l, a, b, n), HeadLinked
  PROVE  HeadLinked'
<1> USE Constants
<1>1. \A i \in 1..n: i \in DOMAIN stores' /\ stores'[i] = stores[i] /\ i \in DOMAIN stores
  BY DEF LinksBetween
<1>2. ASSUME NEW k \in 1..n, stores[k].level = 0, stores[k].to # Null
      PROVE  \E s \in 1..n: s <= k /\ stores[s].node = HeadNode /\ stores[s].level = 0
  BY <1>1, <1>2 DEF HeadLinked, Linking, LinksBetween
<1>3. ASSUME NEW j \in DOMAIN stores', stores'[j].level = 0, stores'[j].to # Null
      PROVE  \E s \in DOMAIN stores': s <= j /\ stores'[s].node = HeadNode /\ stores'[s].level = 0
  <2>1. j \in 1..n \/ j = n + 1 \/ j = n + 2
    BY DEF LinksBetween
  <2>2. CASE j \in 1..n
    <3>1. PICK s \in 1..n: s <= j /\ stores[s].node = HeadNode /\ stores[s].level = 0
      BY <1>1, <1>2, <1>3, <2>2
    <3> QED BY <1>1, <3>1
  <2>3. ASSUME j = n + 1 \/ j = n + 2, NEW k \in 1..n, stores[k].level = 0, stores[k].to # Null
        PROVE  \E s \in DOMAIN stores': s <= j /\ stores'[s].node = HeadNode /\ stores'[s].level = 0
    <3>1. PICK s \in 1..n: s <= k /\ stores[s].node = HeadNode /\ stores[s].level = 0
      BY <1>2, <2>3
    <3>2. s <= j
      BY <2>3 DEF LinksBetween
    <3> QED BY <1>1, <3>1, <3>2
  <2>4. CASE j = n + 1
    <3>1. l = 0 /\ a # Null
      BY <1>3, <2>4 DEF LinksBetween, Store
    <3>2. PICK k \in 1..n: stores[k].level = 0 /\ stores[k].to = a
      BY <3>1, LinkedMember DEF LinksBetween
    <3> QED BY <2>3, <2>4, <3>1, <3>2
  <2>5. CASE j = n + 2
    <3>1. l = 0
      BY <1>3, <2>5 DEF LinksBetween, Store
    <3>2. CASE b = HeadNode
      BY <2>5, <3>1, <3>2 DEF LinksBetween, Store
    <3>3. CASE b # HeadNode
      <4>1. b # Null
        BY DEF LinksBetween, Null
      <4>2. PICK k \in 1..n: stores[k].level = 0 /\ stores[k].to = b
        BY <3>1, <3>3, LinkedMember DEF LinksBetween
      <4> QED BY <2>3, <2>5, <4>1, <4>2
    <3> QED BY <3>2, <3>3
  <2> QED BY <2>1, <2>2, <2>4, <2>5
<1> QED BY <1>3 DEF HeadLinked, Linking

-----------------------------------------------------------------------------
(* The writer's steps keep the invariant.                                  *)

\* A reader that does nothing stays where it is safe.
LEMMA ReaderStaysSafe ==
  ASSUME Types, ReaderSafe, reader' = reader,
         Len(stores) <= Len(stores'), Len(stores') \in Nat, DOMAIN stores' = 1..Len(stores'),
         \A i \in DOMAIN stores: stores'[i] = stores[i]
  PROVE  ReaderSafe'
<1>1. \A i \in DOMAIN stores: i \in DOMAIN stores'
  BY DEF Types
<1>2. ASSUME NEW node, NEW l, Linking(node, l, reader.view)
      PROVE  \E i \in DOMAIN stores':
               i <= reader.view /\ stores'[i].node = node /\ stores'[i].level = l
  BY <1>1, <1>2 DEF Linking
<1>3. ASSUME NEW k \in Known(reader.view)
      PROVE  k # Null /\ \E i \in DOMAIN stores':
               stores'[i].level = 0 /\ i <= reader.view /\ stores'[i].to = k
  BY <1>1, <1>3 DEF Known
<1>4. reader.known \subseteq
        {stores'[i].to : i \in {j \in DOMAIN stores': stores'[j].level = 0 /\ j <= reader.view}} \ {Null}
  BY <1>3 DEF ReaderSafe
<1>5. /\ reader'.at # HeadNode => \A l \in 0..reader'.level:
           \E i \in DOMAIN stores':
             i <= reader'.view /\ stores'[i].node = reader'.at /\ stores'[i].level = l
      /\ reader'.node # Null => \E i \in DOMAIN stores':
             i <= reader'.view /\ stores'[i].node = reader'.node /\ stores'[i].level = 0
  BY <1>2 DEF ReaderSafe
<1>6. Null' = Null /\ HeadNode' = HeadNode
  BY DEF Null, HeadNode
<1> QED BY <1>4, <1>5, <1>6 DEF ReaderSafe, Linking, Known

LEMMA LinkLevelKeeps ==
  ASSUME ListInv, LinkLevel
  PROVE  ListInv'
<1> USE Constants
<1> DEFINE x == inserting.key
           l == inserting.level
           n == Len(stores)
<1>0. /\ inserting # NoInsert /\ maxHeights' = maxHeights /\ reader' = reader
      /\ inserting' = IF l + 1 = inserting.height THEN NoInsert
                      ELSE [inserting EXCEPT !.level = l + 1]
  BY DEF LinkLevel
<1>1. /\ \E a, b: LinksBetween(x, l, a, b, n)
      /\ stores' \in Seq(StoreSet) /\ Len(stores') = n + 2 /\ n \in Nat
  BY LinkLevelAppends DEF ListInv, Types
<1>2. PICK a, b: LinksBetween(x, l, a, b, n)
  BY <1>1
<1>3. \A m \in ListLevels: m < l => Linking(x, m, n)
  BY <1>0 DEF ListInv, InsertionFresh
<1>4. Chained'
  BY <1>2, <1>3, ForwardKept, OwnFirstKept, SetBeforeKept, NodesLinkedKept, AdjacentKept, HeadLinkedKept
     DEF ListInv, Chained
<1>5. /\ inserting \in [key: 1..Null, height: 0..MaxHeight, level: 0..MaxHeight]
      /\ inserting.level < inserting.height /\ inserting.key # Null
  BY <1>0 DEF ListInv, Types, InsertionFresh
<1>6. Types'
  <2>1. inserting' \in [key: 1..Null, height: 0..MaxHeight, level: 0..MaxHeight]
    BY <1>0, <1>5 DEF NoInsert, Null
  <2> QED BY <1>0, <1>1, <2>1 DEF ListInv, Types, ReaderSet
<1>7. InsertionFresh'
  <2> SUFFICES ASSUME inserting' # NoInsert' PROVE InsertionFresh'
    BY DEF InsertionFresh
  <2>1. inserting'.key = x /\ inserting'.height = inserting.height /\ inserting'.level = l + 1
    BY <1>0, <1>5 DEF NoInsert
  <2>2. l + 1 < inserting.height
    BY <1>0, <1>5 DEF NoInsert
  <2>3. ASSUME NEW m \in ListLevels, m >= l + 1 PROVE x \notin Linked(m)'
    BY <1>0, <1>2, <1>5, <2>3, LinkedThen DEF ListInv, InsertionFresh, ListLevels
  <2>4. ASSUME NEW m \in ListLevels, m < l + 1
        PROVE  \E i \in DOMAIN stores':
                 i <= Len(stores') /\ stores'[i].node = x /\ stores'[i].level = m
    <3>1. CASE m = l
      <4>1. n + 1 \in DOMAIN stores' /\ stores'[n + 1].node = x /\ stores'[n + 1].level = m
        BY <1>2, <3>1 DEF LinksBetween, Store
      <4> QED BY <1>1, <4>1
    <3>2. CASE m < l
      <4>1. PICK i \in DOMAIN stores: i <= n /\ stores[i].node = x /\ stores[i].level = m
        BY <1>3, <3>2 DEF Linking
      <4>2. i \in DOMAIN stores' /\ stores'[i] = stores[i] /\ i <= Len(stores')
        BY <1>1, <1>2, <4>1 DEF LinksBetween
      <4> QED BY <4>1, <4>2
    <3> QED BY <1>5, <2>4, <3>1, <3>2 DEF ListLevels
  <2>5. Null' = Null /\ ListLevels' = ListLevels
    BY DEF Null, ListLevels
  <2> QED BY <1>5, <2>1, <2>2, <2>3, <2>4, <2>5 DEF InsertionFresh, Linking, Linked
<1>8. ReaderSafe'
  BY <1>0, <1>1, <1>2, ReaderStaysSafe DEF ListInv, LinksBetween
<1>9. SearchRight'
  BY <1>0 DEF ListInv, SearchRight, NoneBetween, HeadNode, Null
<1> QED BY <1>4, <1>6, <1>7, <1>8, <1>9 DEF ListInv

LEMMA InsertKeeps ==
  ASSUME ListInv, NEW key \in 1..MaxNode, NEW height \in 1..MaxHeight, Insert(key, height)
  PROVE  ListInv'
<1> USE Constants
<1>1. /\ key \notin Linked(0)
      /\ inserting' = [key |-> key, height |-> height, level |-> 0]
      /\ maxHeights' \subseteq 1..MaxHeight
      /\ stores' = stores /\ reader' = reader
  BY DEF Insert, ListInv, Types
<1>2. Types'
  <2>1. inserting' \in [key: 1..Null, height: 0..MaxHeight, level: 0..MaxHeight]
    BY <1>1 DEF Null
  <2> QED BY <1>1, <2>1 DEF ListInv, Types
\* What is not linked at the bottom is linked nowhere.
<1>3. ASSUME NEW l \in ListLevels PROVE key \notin Linked(l)
  <2> SUFFICES ASSUME key \in Linked(l) PROVE FALSE
    OBVIOUS
  <2>1. PICK i \in DOMAIN stores: stores[i].level = l /\ stores[i].to = key
    BY LinkedMember
  <2>2. key # Null /\ 0 \in 0..l
    BY DEF Null, ListLevels
  <2>3. Linking(key, 0, i - 1)
    BY <2>1, <2>2 DEF ListInv, Chained, SetBefore
  <2>4. PICK j \in DOMAIN stores: stores[j].node = key /\ stores[j].level = 0
    BY <2>3 DEF Linking
  <2> QED BY <1>1, <2>4 DEF ListInv, Chained, NodesLinked, HeadNode
<1>4. InsertionFresh'
  <2>1. Null' = Null /\ ListLevels' = ListLevels /\ key # Null
    BY DEF Null, ListLevels
  <2>2. \A l \in ListLevels: key \notin Linked(l)'
    BY <1>1, <1>3 DEF Linked
  <2>3. \A l \in ListLevels: ~(l < 0)
    BY DEF ListLevels
  <2> QED BY <1>1, <2>1, <2>2, <2>3 DEF InsertionFresh
<1>5. Chained'
  BY <1>1 DEF ListInv, Chained, Forward, OwnFirst, SetBefore, NodesLinked, Adjacent, HeadLinked,
              Linking, Linked, Null, HeadNode
<1>6. ReaderSafe'
  BY <1>1 DEF ListInv, ReaderSafe, Linking, Known, Null, HeadNode
<1>7. SearchRight'
  BY <1>1 DEF ListInv, SearchRight, NoneBetween, HeadNode, Null
<1> QED BY <1>2, <1>4, <1>5, <1>6, <1>7 DEF ListInv

-----------------------------------------------------------------------------
(* What a racy load may return.                                            *)

LEMMA SeesMore ==
  ASSUME Types, NEW v \in Nat, NEW w \in Nat, v <= w
  PROVE  /\ \A node, l: Linking(node, l, v) => Linking(node, l, w)
         /\ Known(v) \subseteq Known(w)
<1>1. \A i \in DOMAIN stores: i <= v => i <= w
  BY DEF Types
<1> QED BY <1>1 DEF Linking, Known

\* Whatever store a load returns, it leads forward, to a node whose links are
\* set as far as the reader then sees; and at the bottom it leaves out no key
\* that was linked as far as the reader saw before.
LEMMA LoadRight ==
  ASSUME Types, Chained,
         NEW node \in 0..MaxNode, NEW level \in ListLevels, NEW view \in 0..Len(stores),
         node # HeadNode => Linking(node, level, view),
         NEW next \in Loads(node, level, view)
  PROVE  /\ next.to \in 1..Null /\ node < next.to
         /\ next.view \in 0..Len(stores) /\ view <= next.view
         /\ next.to # Null => \A l \in 0..level: Linking(next.to, l, next.view)
         /\ level = 0 => \A k \in Known(view): ~(node < k /\ k < next.to)
<1> USE Constants
<1> DEFINE all == StoresTo(node, level)
           seen == {i \in all: i <= view}
<1>1. /\ DOMAIN stores = 1..Len(stores) /\ Len(stores) \in Nat /\ view \in Nat
      /\ \A i \in DOMAIN stores: stores[i] \in StoreSet
  BY DEF Types
<1>2. \A i: i \in all <=> i \in DOMAIN stores /\ stores[i].node = node /\ stores[i].level = level
  BY DEF StoresTo
<1>3. \/ \E i \in all: /\ \A s \in seen: i >= s
                       /\ next = [to |-> stores[i].to,
                                  view |-> IF stores[i].release /\ i > view THEN i ELSE view]
      \/ /\ seen = {}
         /\ next = [to |-> IF node = HeadNode THEN Null ELSE Garbage, view |-> view]
  BY DEF Loads
<1>4. ASSUME NEW k \in Known(view)
      PROVE  k # Null /\ \E j \in DOMAIN stores: stores[j].level = 0 /\ j <= view /\ stores[j].to = k
  BY DEF Known
<1>5. CASE seen = {} /\ next = [to |-> IF node = HeadNode THEN Null ELSE Garbage, view |-> view]
  <2>1. node = HeadNode
    <3> SUFFICES ASSUME node # HeadNode PROVE FALSE
      OBVIOUS
    <3>1. PICK i \in DOMAIN stores: i <= view /\ stores[i].node = node /\ stores[i].level = level
      BY DEF Linking
    <3>2. i \in seen
      BY <1>2, <3>1
    <3> QED BY <1>5, <3>2
  <2>2. ASSUME level = 0, NEW k \in Known(view) PROVE FALSE
    <3>1. PICK j \in DOMAIN stores: stores[j].level = 0 /\ j <= view /\ stores[j].to = k /\ k # Null
      BY <1>4, <2>2
    <3>2. Linking(HeadNode, 0, j)
      BY <3>1 DEF Chained, HeadLinked
    <3>3. PICK s \in DOMAIN stores: s <= j /\ stores[s].node = HeadNode /\ stores[s].level = 0
      BY <3>2 DEF Linking
    <3>4. s \in seen
      BY <1>1, <1>2, <2>1, <2>2, <3>1, <3>3
    <3> QED BY <1>5, <3>4
  <2>3. next.to = Null /\ next.view = view
    BY <1>5, <2>1
  <2> QED BY <1>1, <2>1, <2>2, <2>3 DEF HeadNode, Null
<1>6. ASSUME NEW i \in all, \A s \in seen: i >= s,
             next = [to |-> stores[i].to, view |-> IF stores[i].release /\ i > view THEN i ELSE view]
      PROVE  /\ next.to \in 1..Null /\ node < next.to
             /\ next.view \in 0..Len(stores) /\ view <= next.view
             /\ next.to # Null => \A l \in 0..level: Linking(next.to, l, next.view)
             /\ level = 0 => \A k \in Known(view): ~(node < k /\ k < next.to)
  <2>1. /\ i \in DOMAIN stores /\ stores[i].node = node /\ stores[i].level = level
        /\ stores[i] \in StoreSet /\ next.to = stores[i].to
        /\ next.view = IF stores[i].release /\ i > view THEN i ELSE view
    BY <1>1, <1>2, <1>6
  <2>2. next.to \in 1..Null /\ node < next.to
    BY <2>1 DEF StoreSet, Chained, Forward
  <2>3. next.view \in 0..Len(stores) /\ view <= next.view
    BY <1>1, <2>1
  \* A plain store is the first to its link, which the reader sees.
  <2>4. i <= next.view
    <3>1. CASE stores[i].release
      BY <1>1, <2>1, <3>1
    <3>2. CASE ~stores[i].release
      <4>1. node # HeadNode
        BY <2>1, <3>2 DEF Chained, OwnFirst
      <4>2. PICK j \in DOMAIN stores: j <= view /\ stores[j].node = node /\ stores[j].level = level
        BY <4>1 DEF Linking
      <4>3. i <= j
        BY <2>1, <3>2, <4>2 DEF Chained, OwnFirst
      <4> QED BY <1>1, <2>1, <2>3, <4>2, <4>3
    <3> QED BY <3>1, <3>2
  <2>5. ASSUME next.to # Null, NEW l \in 0..level PROVE Linking(next.to, l, next.view)
    <3>1. Linking(next.to, l, i - 1)
      BY <2>1, <2>5 DEF Chained, SetBefore
    <3>2. i - 1 \in Nat /\ next.view \in Nat /\ i - 1 <= next.view
      BY <1>1, <2>1, <2>3, <2>4
    <3> QED BY <3>1, <3>2, SeesMore
  <2>6. ASSUME level = 0, NEW k \in Known(view), node < k, k < next.to PROVE FALSE
    <3>1. PICK j \in DOMAIN stores: stores[j].level = 0 /\ j <= view /\ stores[j].to = k
      BY <1>4, <2>6
    <3>2. \E s \in DOMAIN stores:
            i < s /\ s <= j /\ stores[s].node = stores[i].node /\ stores[s].level = 0
      BY <2>1, <2>6, <3>1 DEF Chained, Adjacent
    <3>3. PICK s \in DOMAIN stores: i < s /\ s <= j /\ stores[s].node = node /\ stores[s].level = 0
      BY <2>1, <3>2
    <3>4. s \in seen
      BY <1>1, <1>2, <2>6, <3>1, <3>3
    <3> QED BY <1>1, <1>6, <2>1, <3>3, <3>4
  <2> QED BY <2>2, <2>3, <2>5, <2>6
<1> QED BY <1>3, <1>5, <1>6

-----------------------------------------------------------------------------
(* A reader's steps keep the invariant.                                    *)

\* They leave the writer alone.
LEMMA WriterUntouched ==
  ASSUME ListInv, stores' = stores, maxHeights' = maxHeights, inserting' = inserting
  PROVE  Chained' /\ InsertionFresh'
<1> QED BY DEF ListInv, Chained, Forward, OwnFirst, SetBefore, NodesLinked, Adjacent, HeadLinked,
               InsertionFresh, Linking, Linked, Null, HeadNode, NoInsert, ListLevels

LEMMA CallKeeps ==
  ASSUME ListInv, NEW op \in Searches, NEW target \in 1..Null, Call(op, target)
  PROVE  ListInv'
<1> USE Constants
<1>1. PICK height \in maxHeights:
        reader' = [reader EXCEPT !.op = op, !.did = "none", !.target = target, !.at = HeadNode,
                                 !.level = height - 1, !.known = Known(reader.view)]
  BY DEF Call
<1>2. stores' = stores /\ maxHeights' = maxHeights /\ inserting' = inserting
  BY DEF Call
<1>3. height - 1 \in ListLevels /\ HeadNode \in 0..MaxNode
  BY DEF ListInv, Types, ListLevels, HeadNode
<1>4. Known(reader.view) \in SUBSET (1..MaxNode)
  <2>1. \A i \in DOMAIN stores: stores[i] \in StoreSet
    BY DEF ListInv, Types
  <2>2. \A i \in DOMAIN stores: stores[i].to \in 1..Null
    BY <2>1 DEF StoreSet
  <2> QED BY <2>2 DEF Known, Null
<1>5. /\ reader'.view = reader.view /\ reader'.node = reader.node /\ reader'.op = op
      /\ reader'.did = "none" /\ reader'.target = target /\ reader'.at = HeadNode
      /\ reader'.level = height - 1 /\ reader'.known = Known(reader.view)
  BY <1>1 DEF ListInv, Types, ReaderSet
<1>6. Types'
  <2>1. reader \in ReaderSet
    BY DEF ListInv, Types
  <2>2. target \in 0..Null /\ op \in {"none"} \cup Searches
    BY DEF Null
  <2>3. reader' \in ReaderSet
    BY <1>1, <1>3, <1>4, <2>1, <2>2 DEF ReaderSet
  <2> QED BY <1>2, <1>5, <2>3 DEF ListInv, Types
<1>7. Chained' /\ InsertionFresh'
  BY <1>2, WriterUntouched
<1>8. ReaderSafe'
  <2>1. reader.node # Null => Linking(reader.node, 0, reader.view)
    BY DEF ListInv, ReaderSafe
  <2>2. HeadNode < target
    BY DEF HeadNode
  <2>3. Null' = Null /\ HeadNode' = HeadNode
    BY DEF Null, HeadNode
  <2> QED BY <1>2, <1>5, <2>1, <2>2, <2>3 DEF ReaderSafe, Linking, Known
<1>9. SearchRight'
  BY <1>5 DEF SearchRight
<1> QED BY <1>6, <1>7, <1>8, <1>9 DEF ListInv

LEMMA NewIteratorKeeps ==
  ASSUME ListInv, NewIterator
  PROVE  ListInv'
<1> USE Constants
<1>1. /\ reader' = [Idle EXCEPT !.view = Len(stores)]
      /\ stores' = stores /\ maxHeights' = maxHeights /\ inserting' = inserting
  BY DEF NewIterator
<1>2. /\ reader'.view = Len(stores) /\ reader'.node = Null /\ reader'.op = "none"
      /\ reader'.did = "none" /\ reader'.at = HeadNode /\ reader'.known = {}
      /\ reader' \in ReaderSet
  <2>1. Len(stores) \in Nat
    BY DEF ListInv, Types
  <2>2. Null \in 1..Null /\ Null \in 0..Null /\ HeadNode \in 0..MaxNode
    BY DEF Null, HeadNode
  <2> QED BY <1>1, <2>1, <2>2 DEF Idle, ReaderSet
<1>3. Types'
  BY <1>1, <1>2 DEF ListInv, Types
<1>4. Chained' /\ InsertionFresh'
  BY <1>1, WriterUntouched
<1>5. Null' = Null /\ HeadNode' = HeadNode
  BY DEF Null, HeadNode
<1>6. ReaderSafe'
  BY <1>2, <1>5 DEF ReaderSafe
<1>7. SearchRight'
  BY <1>2 DEF SearchRight
<1> QED BY <1>3, <1>4, <1>6, <1>7 DEF ListInv

\* SeekToFirst and Next.
LEMMA StepKeeps ==
  ASSUME ListInv, NEW node \in 0..MaxNode, node # HeadNode => node = reader.node,
         Step("Next", node)
  PROVE  ListInv'
<1> USE Constants
<1>1. stores' = stores /\ maxHeights' = maxHeights /\ inserting' = inserting /\ reader.op = "none"
  BY DEF Step
<1>2. PICK next \in Loads(node, 0, reader.view):
        reader' = [reader EXCEPT !.did = "Next", !.target = node, !.known = Known(reader.view),
                                 !.node = next.to, !.view = next.view]
  BY DEF Step
<1>3. reader \in ReaderSet /\ reader.view \in 0..Len(stores) /\ Len(stores) \in Nat
  BY DEF ListInv, Types, ReaderSet
<1>4. node # HeadNode => Linking(node, 0, reader.view)
  BY DEF ListInv, ReaderSafe, Null
<1>5. /\ next.to \in 1..Null /\ node < next.to
      /\ next.view \in 0..Len(stores) /\ reader.view <= next.view
      /\ next.to # Null => \A l \in 0..0: Linking(next.to, l, next.view)
      /\ \A k \in Known(reader.view): ~(node < k /\ k < next.to)
  BY <1>2, <1>3, <1>4, LoadRight DEF ListInv
<1>6. Known(reader.view) \in SUBSET (1..MaxNode)
  <2>1. \A i \in DOMAIN stores: stores[i] \in StoreSet
    BY DEF ListInv, Types
  <2>2. \A i \in DOMAIN stores: stores[i].to \in 1..Null
    BY <2>1 DEF StoreSet
  <2> QED BY <2>2 DEF Known, Null
<1>7. /\ reader'.view = next.view /\ reader'.node = next.to /\ reader'.op = "none"
      /\ reader'.did = "Next" /\ reader'.target = node /\ reader'.at = reader.at
      /\ reader'.level = reader.level /\ reader'.known = Known(reader.view)
      /\ reader' \in ReaderSet
  <2>1. next.view \in Nat /\ node \in 0..Null
    BY <1>3, <1>5 DEF Null
  <2> QED BY <1>1, <1>2, <1>3, <1>5, <1>6, <2>1 DEF ReaderSet
<1>8. Types'
  BY <1>1, <1>3, <1>5, <1>7 DEF ListInv, Types
<1>9. Chained' /\ InsertionFresh'
  BY <1>1, WriterUntouched
<1>10. Null' = Null /\ HeadNode' = HeadNode
  BY DEF Null, HeadNode
<1>11. ReaderSafe'
  <2>1. reader.view \in Nat /\ next.view \in Nat
    BY <1>3, <1>5
  <2>2. reader.at # HeadNode => \A l \in 0..reader.level: Linking(reader.at, l, next.view)
    BY <1>5, <2>1, SeesMore DEF ListInv, ReaderSafe
  <2>3. next.to # Null => Linking(next.to, 0, next.view)
    BY <1>5
  <2>4. Known(reader.view) \subseteq Known(next.view)
    BY <1>5, <2>1, SeesMore DEF ListInv
  <2> QED BY <1>1, <1>7, <1>10, <2>2, <2>3, <2>4 DEF ReaderSafe, Linking, Known
<1>12. SearchRight'
  BY <1>5, <1>7 DEF SearchRight, NoneBetween
<1> QED BY <1>8, <1>9, <1>11, <1>12 DEF ListInv

LEMMA SearchKeeps ==
  ASSUME ListInv, Search
  PROVE  ListInv'
<1> USE Constants
<1>1. /\ stores' = stores /\ maxHeights' = maxHeights /\ inserting' = inserting
      /\ reader.op \in Searches
  BY DEF Search, Searches
<1>2. PICK next \in Loads(reader.at, reader.level, reader.view):
        \/ /\ next.to < reader.target
           /\ reader' = [reader EXCEPT !.at = next.to, !.view = next.view]
        \/ /\ next.to >= reader.target /\ reader.level > 0
           /\ reader' = [reader EXCEPT !.level = reader.level - 1, !.view = next.view]
        \/ /\ next.to >= reader.target /\ reader.level = 0
           /\ IF reader.op = "FindGreaterOrEqual" THEN Return(next.to, next.view)
              ELSE Return(IF reader.at = HeadNode THEN Null ELSE reader.at, next.view)
  BY DEF Search
<1>3. /\ reader \in ReaderSet /\ reader.view \in 0..Len(stores) /\ Len(stores) \in Nat
      /\ reader.at \in 0..MaxNode /\ reader.level \in ListLevels
  BY DEF ListInv, Types, ReaderSet
<1>4. /\ reader.at # HeadNode => \A l \in 0..reader.level: Linking(reader.at, l, reader.view)
      /\ reader.node # Null => Linking(reader.node, 0, reader.view)
      /\ reader.at < reader.target /\ reader.known \subseteq Known(reader.view)
  BY <1>1 DEF ListInv, ReaderSafe, Searches
<1>5. reader.at # HeadNode => Linking(reader.at, reader.level, reader.view)
  BY <1>3, <1>4 DEF ListLevels
<1>6. /\ next.to \in 1..Null /\ reader.at < next.to
      /\ next.view \in 0..Len(stores) /\ reader.view <= next.view
      /\ next.to # Null => \A l \in 0..reader.level: Linking(next.to, l, next.view)
      /\ reader.level = 0 => \A k \in Known(reader.view): ~(reader.at < k /\ k < next.to)
  BY <1>2, <1>3, <1>5, LoadRight DEF ListInv
<1>7. /\ reader.view \in Nat /\ next.view \in Nat
      /\ Null' = Null /\ HeadNode' = HeadNode /\ HeadNode \in 0..MaxNode /\ Null \in 1..Null
  BY <1>3, <1>6 DEF Null, HeadNode
<1>8. /\ reader.at # HeadNode => \A l \in 0..reader.level: Linking(reader.at, l, next.view)
      /\ reader.node # Null => Linking(reader.node, 0, next.view)
      /\ reader.known \subseteq Known(next.view)
  BY <1>4, <1>6, <1>7, SeesMore DEF ListInv
<1>9. Chained' /\ InsertionFresh'
  BY <1>1, WriterUntouched
\* Along the level.
<1>10. CASE /\ next.to < reader.target
            /\ reader' = [reader EXCEPT !.at = next.to, !.view = next.view]
  <2>1. next.to \in 0..MaxNode /\ next.to # Null
    BY <1>3, <1>6, <1>10 DEF ReaderSet, Null
  <2>2. /\ reader'.view = next.view /\ reader'.node = reader.node /\ reader'.op = reader.op
        /\ reader'.did = reader.did /\ reader'.target = reader.target /\ reader'.at = next.to
        /\ reader'.level = reader.level /\ reader'.known = reader.known
        /\ reader' \in ReaderSet
    BY <1>3, <1>7, <1>10, <2>1 DEF ReaderSet
  <2>3. Types'
    BY <1>1, <1>6, <2>2 DEF ListInv, Types
  <2>4. ReaderSafe'
    BY <1>1, <1>6, <1>7, <1>8, <1>10, <2>1, <2>2 DEF ReaderSafe, Linking, Known
  <2>5. SearchRight'
    BY <1>7, <2>2 DEF ListInv, SearchRight, NoneBetween
  <2> QED BY <1>9, <2>3, <2>4, <2>5 DEF ListInv
\* Down a level.
<1>11. CASE /\ reader.level > 0
            /\ reader' = [reader EXCEPT !.level = reader.level - 1, !.view = next.view]
  <2>1. reader.level - 1 \in ListLevels /\ 0..(reader.level - 1) \subseteq 0..reader.level
    BY <1>3, <1>11 DEF ListLevels
  <2>2. /\ reader'.view = next.view /\ reader'.node = reader.node /\ reader'.op = reader.op
        /\ reader'.did = reader.did /\ reader'.target = reader.target /\ reader'.at = reader.at
        /\ reader'.level = reader.level - 1 /\ reader'.known = reader.known
        /\ reader' \in ReaderSet
    BY <1>3, <1>7, <1>11, <2>1 DEF ReaderSet
  <2>3. Types'
    BY <1>1, <1>6, <2>2 DEF ListInv, Types
  <2>4. ReaderSafe'
    BY <1>1, <1>4, <1>7, <1>8, <2>1, <2>2 DEF ReaderSafe, Linking, Known
  <2>5. SearchRight'
    BY <1>7, <2>2 DEF ListInv, SearchRight, NoneBetween
  <2> QED BY <1>9, <2>3, <2>4, <2>5 DEF ListInv
\* Out.
<1>12. ASSUME NEW node, reader.level = 0, next.to >= reader.target, Return(node, next.view),
              \/ node = next.to /\ reader.op = "FindGreaterOrEqual"
              \/ /\ node = IF reader.at = HeadNode THEN Null ELSE reader.at
                 /\ reader.op \in {"FindLessThan", "FindLast"}
       PROVE  ListInv'
  <2>1. node \in 1..Null
    BY <1>3, <1>6, <1>7, <1>12 DEF HeadNode, Null
  <2>2. /\ reader'.view = next.view /\ reader'.node = node /\ reader'.op = "none"
        /\ reader'.did = reader.op /\ reader'.target = reader.target /\ reader'.at = HeadNode
        /\ reader'.level = reader.level /\ reader'.known = reader.known
        /\ reader' \in ReaderSet
    BY <1>1, <1>3, <1>7, <1>12, <2>1 DEF ReaderSet, Return
  <2>3. Types'
    BY <1>1, <1>6, <2>2 DEF ListInv, Types
  <2>4. node # Null => Linking(node, 0, next.view)
    BY <1>6, <1>8, <1>12
  <2>5. ReaderSafe'
    BY <1>1, <1>7, <1>8, <2>2, <2>4 DEF ReaderSafe, Linking, Known
  <2>6. \A k \in reader.known: k \in 1..MaxNode /\ ~(reader.at < k /\ k < next.to)
    BY <1>3, <1>4, <1>6, <1>12 DEF ReaderSet
  <2>7. reader.target \in 0..Null
    BY <1>3 DEF ReaderSet
  <2>8. SearchRight'
    <3>1. CASE node = next.to /\ reader.op = "FindGreaterOrEqual"
      BY <1>3, <1>4, <1>6, <1>12, <2>2, <2>6, <2>7, <3>1 DEF SearchRight, NoneBetween
    <3>2. CASE /\ node = IF reader.at = HeadNode THEN Null ELSE reader.at
               /\ reader.op \in {"FindLessThan", "FindLast"}
      <4>1. \A k \in reader.known: ~(reader.at < k /\ k < reader.target)
        BY <1>3, <1>6, <1>12, <2>6, <2>7
      <4>2. reader.at # HeadNode => reader.at # Null
        BY <1>3 DEF Null
      <4> QED BY <1>4, <1>7, <2>2, <3>2, <4>1, <4>2 DEF SearchRight, NoneBetween
    <3> QED BY <1>12, <3>1, <3>2
  <2> QED BY <1>9, <2>3, <2>5, <2>8 DEF ListInv
<1>13. CASE /\ next.to >= reader.target /\ reader.level = 0
            /\ IF reader.op = "FindGreaterOrEqual" THEN Return(next.to, next.view)
               ELSE Return(IF reader.at = HeadNode THEN Null ELSE reader.at, next.view)
  BY <1>1, <1>12, <1>13 DEF Searches
<1> QED BY <1>2, <1>10, <1>11, <1>13

-----------------------------------------------------------------------------
\* The history of stores stays in order, and every reader safe (skiplist.h:206-368).
THEOREM StoresInvariant == ListSpec => []ListInv
<1> USE Constants
<1>1. ListInit => ListInv
  <2> SUFFICES ASSUME ListInit PROVE ListInv
    OBVIOUS
  <2>1. /\ stores = <<>> /\ maxHeights = {1} /\ inserting = NoInsert /\ reader = Idle
        /\ stores \in Seq(StoreSet) /\ Len(stores) = 0 /\ DOMAIN stores = {}
    BY DEF ListInit
  <2>2. reader \in ReaderSet /\ inserting \in [key: 1..Null, height: 0..MaxHeight, level: 0..MaxHeight]
    BY <2>1 DEF Idle, NoInsert, ReaderSet, Null, HeadNode
  <2>3. Types
    BY <2>1, <2>2 DEF Types, Idle
  <2>4. Chained /\ InsertionFresh
    BY <2>1 DEF Chained, Forward, OwnFirst, SetBefore, NodesLinked, Adjacent, HeadLinked, InsertionFresh
  <2>5. ReaderSafe /\ SearchRight
    BY <2>1 DEF ReaderSafe, SearchRight, Idle
  <2> QED BY <2>3, <2>4, <2>5 DEF ListInv
<1>2. ListInv /\ [ListNext]_listVars => ListInv'
  <2> SUFFICES ASSUME ListInv, [ListNext]_listVars PROVE ListInv'
    OBVIOUS
  <2>1. CASE UNCHANGED listVars
    BY <2>1 DEF listVars, ListInv, Types, Chained, Forward, OwnFirst, SetBefore, NodesLinked, Adjacent,
                HeadLinked, InsertionFresh, ReaderSafe, SearchRight, NoneBetween, Linking, Linked, Known,
                Null, HeadNode, NoInsert, ListLevels, StoreSet, ReaderSet
  <2>2. ASSUME NEW key \in 1..MaxNode, NEW height \in 1..MaxHeight, Insert(key, height) PROVE ListInv'
    BY <2>2, InsertKeeps
  <2>3. ASSUME NEW target \in 1..MaxNode, Seek(target) PROVE ListInv'
    BY <2>3, CallKeeps DEF Seek, Searches, Null
  <2>4. CASE Prev
    BY <2>4, CallKeeps DEF Prev, Searches, Null
  <2>5. CASE SeekToLast
    BY <2>5, CallKeeps DEF SeekToLast, Searches, Null
  <2>6. CASE SeekToFirst
    BY <2>6, StepKeeps DEF SeekToFirst, HeadNode
  <2>7. CASE NextNode
    BY <2>7, StepKeeps DEF NextNode
  <2> QED
    BY <2>1, <2>2, <2>3, <2>4, <2>5, <2>6, <2>7, LinkLevelKeeps, NewIteratorKeeps, SearchKeeps
       DEF ListNext
<1> QED BY <1>1, <1>2, PTL DEF ListSpec

\* A call that runs beside insertions never reads memory nobody has set, and
\* returns the node it should among those inserted before it began, with any
\* number of keys and levels (skiplist.h:206-322 beside 336-368).
THEOREM LockFreeReads == ListSpec => []ReadsBesideInserts
<1>1. ListInv => ReadsBesideInserts
  <2> SUFFICES ASSUME ListInv PROVE ReadsBesideInserts
    OBVIOUS
  <2>1. ListTypeOK
    <3>1. inserting # NoInsert => inserting.key \in 1..MaxNode /\ inserting.level < inserting.height
      BY Constants DEF ListInv, Types, InsertionFresh, Null
    <3> QED BY <3>1 DEF ListInv, Types, ReaderSet, ListTypeOK
  <2> QED BY <2>1 DEF ListInv, ReadsBesideInserts
<1> QED BY <1>1, StoresInvariant, PTL

-----------------------------------------------------------------------------
(* The cache: the inductive invariant, of a shard and what callers hold.   *)

HandleSet == [key: CacheKeys, refs: Nat, inCache: BOOLEAN, deletions: Nat]
ShardSet ==
  [handles: Seq(HandleSet), lru: Seq(Nat), inUse: SUBSET Nat, usage: Int, elems: Int,
   list: Seq(SUBSET Nat)]

Cached(c) == {e \in DOMAIN c.handles: c.handles[e].inCache}

\* Callers hold held[e] references to e.
References(c, held) ==
  /\ held \in [DOMAIN c.handles -> Nat]
  /\ \A e \in DOMAIN c.handles:
       /\ c.handles[e].refs = held[e] + IF c.handles[e].inCache THEN 1 ELSE 0
       /\ c.handles[e].deletions = IF c.handles[e].refs = 0 THEN 1 ELSE 0

Lists(c, held) ==
  /\ ToSet(c.lru) = {e \in Cached(c): held[e] = 0} /\ IsInjective(c.lru)
  /\ c.inUse = {e \in Cached(c): held[e] # 0}

\* The hash table holds the entries S, one of a key.
KeysOnce(c, S) == \A e, f \in S: c.handles[e].key = c.handles[f].key => e = f
Chains(c, S) ==
  /\ Len(c.list) # 0
  /\ \A b \in DOMAIN c.list: c.list[b] = {e \in S: Bucket(c.list, c.handles[e].key) = b}
Table(c, S) ==
  /\ S \subseteq DOMAIN c.handles /\ KeysOnce(c, S) /\ Chains(c, S)
  /\ c.elems = Cardinality(S) /\ c.elems <= Len(c.list)

Sound(c, held) ==
  /\ c \in ShardSet /\ References(c, held) /\ Lists(c, held) /\ Table(c, Cached(c))
  /\ c.usage = Charged(c.handles)

\* d has the entries of c, and caches no more of them.
Follows(c, d) ==
  /\ DOMAIN d.handles = DOMAIN c.handles /\ Cached(d) \subseteq Cached(c)
  /\ \A e \in DOMAIN c.handles: d.handles[e].key = c.handles[e].key

-----------------------------------------------------------------------------
(* Induction over numbers, and recursion, stated with sets.                *)

LEMMA Induction ==
  ASSUME NEW S \in SUBSET Nat, 0 \in S, \A n \in S : n + 1 \in S
  PROVE  S = Nat
<1> DEFINE T == Nat \ S
<1> SUFFICES ASSUME T # {} PROVE FALSE
  OBVIOUS
<1>1. PICK x \in T : \A y \in T : x <= y
  BY LeastNat
<1>2. x - 1 \in Nat /\ x - 1 \notin T
  BY <1>1
<1> QED BY <1>1, <1>2

\* f iterates the functions G over the numbers up to m, beginning with a.
Iterates(f, T, a, m, G) ==
  f \in [0..m -> T] /\ \A n \in 0..m: f[n] = IF n = 0 THEN a ELSE G[n][f[n - 1]]

LEMMA Recursion ==
  ASSUME NEW T, NEW a \in T, NEW m \in Nat, NEW G \in [1..m -> [T -> T]]
  PROVE  \E f: Iterates(f, T, a, m, G)
<1> DEFINE Upto(g, k) ==
      /\ g \in [0..k -> T]
      /\ \A n \in 0..k: g[n] = IF n = 0 THEN a ELSE G[n][g[n - 1]]
    N == {k \in Nat: k <= m => \E g: Upto(g, k)}
<1>1. 0 \in N
  <2>1. Upto([n \in 0..0 |-> a], 0)
    OBVIOUS
  <2> HIDE DEF Upto
  <2> QED BY <2>1
<1>2. ASSUME NEW k \in N PROVE k + 1 \in N
  <2> SUFFICES ASSUME k + 1 <= m PROVE \E g: Upto(g, k + 1)
    OBVIOUS
  <2>1. PICK g: Upto(g, k)
    <3> HIDE DEF Upto
    <3> QED OBVIOUS
  <2>2. k \in Nat /\ k + 1 \in 1..m /\ g[k] \in T /\ G[k + 1] \in [T -> T] /\ G[k + 1][g[k]] \in T
    BY <2>1
  <2> DEFINE h == [n \in 0..(k + 1) |-> IF n = k + 1 THEN G[k + 1][g[k]] ELSE g[n]]
  <2>3. h \in [0..(k + 1) -> T]
    BY <2>1, <2>2
  <2>4. \A n \in 0..(k + 1): h[n] = IF n = 0 THEN a ELSE G[n][h[n - 1]]
    BY <2>1, <2>2
  <2>5. Upto(h, k + 1)
    BY <2>3, <2>4
  <2> HIDE DEF Upto
  <2> QED BY <2>5
<1>3. m \in N
  <2> HIDE DEF N
  <2>1. N = Nat
    BY <1>1, <1>2, Induction DEF N
  <2> QED BY <2>1
<1> QED BY <1>3 DEF Iterates

-----------------------------------------------------------------------------
(* What the cache is charged.                                              *)

Cost(h) == IF h.inCache THEN h.key.charge ELSE 0
Sums(f, hs) ==
  /\ f \in [0..Len(hs) -> Nat]
  /\ \A n \in 0..Len(hs): f[n] = IF n = 0 THEN 0 ELSE f[n - 1] + Cost(hs[n])

LEMMA CostNat == \A h \in HandleSet: Cost(h) \in Nat
  BY CacheAssumption DEF HandleSet, Cost

LEMMA ChargedDefined ==
  ASSUME NEW hs \in Seq(HandleSet)
  PROVE  \E f: Sums(f, hs) /\ Charged(hs) = f[Len(hs)]
<1> DEFINE Value(g, n) == IF n = 0 THEN 0 ELSE g[n - 1] + Cost(hs[n])
<1>1. Len(hs) \in Nat /\ \A n \in 1..Len(hs): Cost(hs[n]) \in Nat
  BY CostNat
<1>2. PICK g \in [0..Len(hs) -> Nat]: \A n \in 0..Len(hs): g[n] = Value(g, n)
  <2> DEFINE G == [n \in 1..Len(hs) |-> [r \in Nat |-> r + Cost(hs[n])]]
             m == Len(hs)
  <2>1. G \in [1..m -> [Nat -> Nat]] /\ \A n \in 1..m, r \in Nat: G[n][r] = r + Cost(hs[n])
    BY <1>1
  <2> HIDE DEF G, m
  <2>2. PICK g: Iterates(g, Nat, 0, m, G)
    BY <1>1, <2>1, Recursion DEF m
  <2>3. ASSUME NEW n \in 0..m, n # 0 PROVE g[n] = g[n - 1] + Cost(hs[n])
    <3>1. n \in 1..m /\ n - 1 \in 0..m
      BY <1>1, <2>3 DEF m
    <3>2. g[n - 1] \in Nat /\ g[n] = G[n][g[n - 1]]
      BY <2>2, <2>3, <3>1 DEF Iterates
    <3> QED BY <2>1, <3>1, <3>2
  <2> QED BY <2>2, <2>3 DEF Iterates, m
<1>3. g = [n \in 0..Len(hs) |-> Value(g, n)]
  <2> HIDE DEF Value
  <2> QED BY <1>2
<1> DEFINE f == CHOOSE f: f = [n \in 0..Len(hs) |-> Value(f, n)]
<1>4. f = [n \in 0..Len(hs) |-> Value(f, n)]
  <2> HIDE DEF Value
  <2> QED BY <1>3
<1>5. Charged(hs) = f[Len(hs)]
  BY DEF Charged, Cost
<1> HIDE DEF f
<1>6. DOMAIN f = 0..Len(hs) /\ \A n \in 0..Len(hs): f[n] = Value(f, n)
  <2> HIDE DEF Value
  <2> QED BY <1>4
<1>7. \A m \in 0..Len(hs): f[m] = g[m]
  <2> DEFINE M == {m \in Nat: m <= Len(hs) => f[m] = g[m]}
  <2>1. 0 \in M
    BY <1>1, <1>2, <1>6
  <2>2. ASSUME NEW m \in M PROVE m + 1 \in M
    <3> SUFFICES ASSUME m + 1 <= Len(hs) PROVE f[m + 1] = g[m + 1]
      OBVIOUS
    <3>1. m \in Nat /\ m + 1 \in 0..Len(hs) /\ m + 1 # 0 /\ (m + 1) - 1 = m /\ f[m] = g[m]
      BY <1>1
    <3> QED BY <1>2, <1>6, <3>1
  <2>3. M = Nat
    <3> HIDE DEF M
    <3> QED BY <2>1, <2>2, Induction
  <2>4. ASSUME NEW m \in 0..Len(hs) PROVE f[m] = g[m]
    <3>1. m \in M
      BY <1>1, <2>3
    <3> QED BY <1>1, <3>1
  <2> QED BY <2>4
<1>8. f \in [0..Len(hs) -> Nat]
  <2>1. \A n \in 0..Len(hs): f[n] \in Nat
    BY <1>2, <1>7
  <2> HIDE DEF Value
  <2> QED BY <1>4, <1>6, <2>1
<1> QED BY <1>5, <1>6, <1>8 DEF Sums

\* Entries that differ only in what costs nothing cost the same; one that is
\* no longer cached costs nothing.
LEMMA ChargedChange ==
  ASSUME NEW hs \in Seq(HandleSet), NEW gs \in Seq(HandleSet), Len(gs) = Len(hs),
         NEW e \in 1..Len(hs), \A i \in 1..Len(hs): i # e => Cost(gs[i]) = Cost(hs[i])
  PROVE  Charged(gs) = Charged(hs) + Cost(gs[e]) - Cost(hs[e])
<1>1. PICK f: Sums(f, hs) /\ Charged(hs) = f[Len(hs)]
  BY ChargedDefined
<1>2. PICK g: Sums(g, gs) /\ Charged(gs) = g[Len(hs)]
  BY ChargedDefined
<1> DEFINE d == Cost(gs[e]) - Cost(hs[e])
           M == {m \in Nat: m <= Len(hs) => g[m] = f[m] + IF m < e THEN 0 ELSE d}
<1>3. Len(hs) \in Nat /\ e \in Nat /\ 0 < e /\ e <= Len(hs) /\ Cost(gs[e]) \in Nat /\ Cost(hs[e]) \in Nat
  BY CostNat
<1>4. 0 \in M
  BY <1>1, <1>2, <1>3 DEF Sums
<1>5. ASSUME NEW m \in M PROVE m + 1 \in M
  <2> SUFFICES ASSUME m + 1 <= Len(hs) PROVE g[m + 1] = f[m + 1] + IF m + 1 < e THEN 0 ELSE d
    OBVIOUS
  <2>1. m \in Nat /\ m \in 0..Len(hs) /\ m + 1 \in 1..Len(hs) /\ m + 1 \in 0..Len(hs) /\ m + 1 # 0 /\ (m + 1) - 1 = m
    BY <1>3
  <2>2. f[m + 1] = f[m] + Cost(hs[m + 1]) /\ f[m] \in Nat
    BY <1>1, <2>1 DEF Sums
  <2>3. g[m + 1] = g[m] + Cost(gs[m + 1])
    BY <1>2, <2>1 DEF Sums
  <2>4. Cost(hs[m + 1]) \in Nat /\ Cost(gs[m + 1]) \in Nat
    BY <2>1, CostNat
  <2>5. g[m] = f[m] + IF m < e THEN 0 ELSE d
    BY <2>1
  <2>6. CASE m + 1 = e
    BY <1>3, <2>1, <2>2, <2>3, <2>4, <2>5, <2>6
  <2>7. CASE m + 1 # e
    <3>1. Cost(gs[m + 1]) = Cost(hs[m + 1])
      BY <2>1, <2>7
    <3> HIDE DEF d
    <3>2. (m < e <=> m + 1 < e) /\ d \in Int
      BY <1>3, <2>1, <2>7 DEF d
    <3> QED BY <2>2, <2>3, <2>4, <2>5, <3>1, <3>2
  <2> QED BY <2>6, <2>7
<1>6. M = Nat
  <2>1. M \in SUBSET Nat
    OBVIOUS
  <2> HIDE DEF M
  <2> QED BY <1>4, <1>5, <2>1, Induction
<1>7. Len(hs) \in M
  BY <1>3, <1>6
<1>8. g[Len(hs)] = f[Len(hs)] + d
  BY <1>3, <1>7
<1>9. f[Len(hs)] \in Nat
  BY <1>1, <1>3 DEF Sums
<1> QED BY <1>1, <1>2, <1>3, <1>8, <1>9

LEMMA ChargedAppend ==
  ASSUME NEW hs \in Seq(HandleSet), NEW h \in HandleSet
  PROVE  Charged(Append(hs, h)) = Charged(hs) + Cost(h)
<1> DEFINE gs == Append(hs, h)
<1>1. gs \in Seq(HandleSet) /\ Len(gs) = Len(hs) + 1 /\ gs[Len(hs) + 1] = h
      /\ \A i \in 1..Len(hs): gs[i] = hs[i]
  OBVIOUS
<1> HIDE DEF gs
<1>2. PICK f: Sums(f, hs) /\ Charged(hs) = f[Len(hs)]
  BY ChargedDefined
<1>3. PICK g: Sums(g, gs) /\ Charged(gs) = g[Len(hs) + 1]
  BY <1>1, ChargedDefined
<1> DEFINE M == {m \in Nat: m <= Len(hs) => g[m] = f[m]}
<1>4. Len(hs) \in Nat
  OBVIOUS
<1>5. 0 \in M
  BY <1>1, <1>2, <1>3, <1>4 DEF Sums
<1>6. ASSUME NEW m \in M PROVE m + 1 \in M
  <2> SUFFICES ASSUME m + 1 <= Len(hs) PROVE g[m + 1] = f[m + 1]
    OBVIOUS
  <2>1. m \in Nat /\ m \in 0..Len(hs) /\ m + 1 \in 1..Len(hs) /\ m + 1 \in 0..Len(hs)
        /\ m + 1 \in 0..(Len(hs) + 1) /\ m + 1 # 0 /\ (m + 1) - 1 = m /\ g[m] = f[m]
    BY <1>4
  <2>2. f[m + 1] = f[m] + Cost(hs[m + 1])
    BY <1>2, <2>1 DEF Sums
  <2>3. g[m + 1] = g[m] + Cost(gs[m + 1])
    BY <1>1, <1>3, <2>1 DEF Sums
  <2> QED BY <1>1, <2>1, <2>2, <2>3
<1>7. M = Nat
  <2>1. M \in SUBSET Nat
    OBVIOUS
  <2> HIDE DEF M
  <2> QED BY <1>5, <1>6, <2>1, Induction
<1>8. g[Len(hs)] = f[Len(hs)]
  <2>1. Len(hs) \in M
    BY <1>4, <1>7
  <2> QED BY <1>4, <2>1
<1>9. g[Len(hs) + 1] = g[Len(hs)] + Cost(h)
  <2>1. Len(hs) + 1 \in 0..Len(gs) /\ Len(hs) + 1 # 0 /\ (Len(hs) + 1) - 1 = Len(hs)
    BY <1>1, <1>4
  <2> QED BY <1>1, <1>3, <2>1 DEF Sums
<1> QED BY <1>2, <1>3, <1>8, <1>9 DEF gs

-----------------------------------------------------------------------------
(* Sequences.                                                              *)

\* s without e
Without(s, e) == RemoveAt(s, CHOOSE i \in DOMAIN s: s[i] = e)

LEMMA WithoutRight ==
  ASSUME NEW T, NEW s \in Seq(T), IsInjective(s), NEW e \in ToSet(s)
  PROVE  /\ Without(s, e) \in Seq(T) /\ IsInjective(Without(s, e))
         /\ ToSet(Without(s, e)) = ToSet(s) \ {e}
<1> DEFINE k == CHOOSE i \in DOMAIN s: s[i] = e
           r == Without(s, e)
<1>1. k \in 1..Len(s) /\ s[k] = e
  BY DEF ToSet
<1>2. r = SubSeq(s, 1, k - 1) \o SubSeq(s, k + 1, Len(s))
  BY DEF Without, RemoveAt
<1> HIDE DEF k, r
<1>3. r \in Seq(T) /\ Len(r) = Len(s) - 1
      /\ \A i \in 1..(Len(s) - 1): r[i] = IF i < k THEN s[i] ELSE s[i + 1]
  <2> DEFINE u == SubSeq(s, 1, k - 1)
             v == SubSeq(s, k + 1, Len(s))
  <2>1. Len(s) \in Nat /\ k \in Nat /\ \A i \in 1..Len(s): s[i] \in T
    BY <1>1
  <2>2. u \in Seq(T) /\ Len(u) = k - 1 /\ \A i \in 1..(k - 1): u[i] = s[i]
    BY <1>1, <2>1, SubSeqProperties
  <2>3. v \in Seq(T) /\ Len(v) = Len(s) - k /\ \A i \in 1..(Len(s) - k): v[i] = s[i + k]
    <3>1. CASE k = Len(s)
      BY <2>1, <3>1
    <3>2. CASE k < Len(s)
      BY <1>1, <2>1, <3>2, SubSeqProperties
    <3> QED BY <1>1, <2>1, <3>1, <3>2
  <2> HIDE DEF u, v
  <2>4. r = u \o v
    BY <1>2 DEF u, v
  <2>5. r \in Seq(T) /\ Len(r) = Len(s) - 1
    <3>1. r \in Seq(T) /\ Len(r) = Len(u) + Len(v)
      BY ONLY <2>2, <2>3, <2>4, ConcatProperties
    <3> QED BY <1>1, <2>1, <2>2, <2>3, <3>1
  <2>6. \A i \in 1..(Len(s) - 1): r[i] = IF i < k THEN u[i] ELSE v[i - k + 1]
    <3>1. \A i \in 1..(Len(u) + Len(v)): (u \o v)[i] = IF i <= Len(u) THEN u[i] ELSE v[i - Len(u)]
      BY <2>2, <2>3, ConcatProperties
    <3>2. Len(u) + Len(v) = Len(s) - 1
      BY <2>1, <2>2, <2>3
    <3>3. ASSUME NEW i \in 1..(Len(s) - 1) PROVE r[i] = IF i < k THEN u[i] ELSE v[i - k + 1]
      <4>1. r[i] = IF i <= k - 1 THEN u[i] ELSE v[i - (k - 1)]
        BY <2>2, <2>4, <3>1, <3>2
      <4>2. i - (k - 1) = i - k + 1 /\ (i <= k - 1 <=> i < k)
        BY <2>1
      <4> QED BY ONLY <4>1, <4>2
    <3> QED BY <3>3
  <2> QED BY <1>1, <2>1, <2>2, <2>3, <2>5, <2>6
<1>4. IsInjective(r)
  BY <1>1, <1>3 DEF IsInjective
<1>5. ToSet(r) \subseteq ToSet(s) \ {e}
  BY <1>1, <1>3 DEF IsInjective, ToSet
<1>6. ASSUME NEW x \in ToSet(s), x # e PROVE x \in ToSet(r)
  <2>1. PICK i \in 1..Len(s): s[i] = x
    BY DEF ToSet
  <2>2. CASE i < k
    BY <1>1, <1>3, <2>1, <2>2 DEF ToSet
  <2>3. CASE i > k
    <3>1. i - 1 \in DOMAIN r /\ r[i - 1] = x
      BY <1>1, <1>3, <2>1, <2>3
    <3> QED BY <3>1 DEF ToSet
  <2> QED BY <1>1, <1>6, <2>1, <2>2, <2>3
<1> QED BY <1>3, <1>4, <1>5, <1>6 DEF r

LEMMA AddedLast ==
  ASSUME NEW T, NEW s \in Seq(T), IsInjective(s), NEW e \in T, e \notin ToSet(s)
  PROVE  /\ Append(s, e) \in Seq(T) /\ IsInjective(Append(s, e))
         /\ ToSet(Append(s, e)) = ToSet(s) \cup {e}
<1> DEFINE r == Append(s, e)
<1>1. r \in Seq(T) /\ Len(r) = Len(s) + 1 /\ r[Len(s) + 1] = e /\ \A i \in 1..Len(s): r[i] = s[i]
  OBVIOUS
<1> HIDE DEF r
<1>2. IsInjective(r)
  BY <1>1 DEF IsInjective, ToSet
<1>3. ToSet(r) = ToSet(s) \cup {e}
  BY <1>1 DEF ToSet
<1> QED BY <1>1, <1>2, <1>3 DEF r

LEMMA LruRemoveRight ==
  ASSUME NEW c \in ShardSet, NEW e \in Nat, IsInjective(c.lru)
  PROVE  \E s \in Seq(Nat):
           /\ LruRemove(c, e) = [c EXCEPT !.lru = s, !.inUse = @ \ {e}]
           /\ IsInjective(s) /\ ToSet(s) = ToSet(c.lru) \ {e}
<1>1. c.lru \in Seq(Nat)
  BY DEF ShardSet
<1>2. CASE e \in ToSet(c.lru)
  <2>1. LruRemove(c, e) = [c EXCEPT !.lru = Without(c.lru, e), !.inUse = @ \ {e}]
    BY <1>2 DEF LruRemove, Without
  <2> QED BY <1>1, <1>2, <2>1, WithoutRight
<1>3. CASE e \notin ToSet(c.lru)
  <2>1. LruRemove(c, e) = [c EXCEPT !.lru = c.lru, !.inUse = @ \ {e}]
    BY <1>3 DEF LruRemove
  <2>2. ToSet(c.lru) \ {e} = ToSet(c.lru)
    BY <1>3
  <2> QED BY <1>1, <2>1, <2>2
<1> QED BY <1>2, <1>3


-----------------------------------------------------------------------------
(* The hash table.                                                         *)

LEMMA BucketRange ==
  ASSUME NEW chains, Len(chains) \in Nat \ {0}, NEW k \in CacheKeys
  PROVE  Bucket(chains, k) \in 1..Len(chains)
<1>1. k.hash \in Nat
  BY CacheAssumption
<1>2. k.hash % Len(chains) \in 0..(Len(chains) - 1)
  BY <1>1
<1> QED BY <1>2 DEF Bucket

LEMMA HandleTypes ==
  ASSUME NEW c \in ShardSet
  PROVE  /\ DOMAIN c.handles = 1..Len(c.handles) /\ Len(c.handles) \in Nat
         /\ \A e \in DOMAIN c.handles:
              /\ e \in Nat /\ c.handles[e] \in HandleSet
              /\ c.handles[e].key \in CacheKeys /\ c.handles[e].inCache \in BOOLEAN
              /\ c.handles[e].refs \in Nat /\ c.handles[e].deletions \in Nat
         /\ DOMAIN c.list = 1..Len(c.list) /\ Len(c.list) \in Nat
         /\ \A S: S \subseteq DOMAIN c.handles => IsFiniteSet(S) /\ Cardinality(S) \in Nat
<1>1. c.handles \in Seq(HandleSet) /\ c.list \in Seq(SUBSET Nat)
  BY DEF ShardSet
<1>2. IsFiniteSet(DOMAIN c.handles)
  BY <1>1, FS_Interval
<1>3. \A S: S \subseteq DOMAIN c.handles => IsFiniteSet(S) /\ Cardinality(S) \in Nat
  BY <1>2, FS_Subset, FS_CardinalityType
<1>4. \A h \in HandleSet: h.key \in CacheKeys /\ h.inCache \in BOOLEAN /\ h.refs \in Nat /\ h.deletions \in Nat
  BY DEF HandleSet
<1> QED BY <1>1, <1>3, <1>4

LEMMA PointedRight ==
  ASSUME NEW c \in ShardSet, NEW S, Table(c, S), NEW k \in CacheKeys
  PROVE  /\ Bucket(c.list, k) \in DOMAIN c.list
         /\ Pointed(c, k) = {e \in S: c.handles[e].key = k}
<1>1. Bucket(c.list, k) \in DOMAIN c.list
  BY BucketRange, HandleTypes DEF Table, Chains
<1> QED BY <1>1 DEF Table, Chains, Pointed

LEMMA LookupRight ==
  ASSUME NEW c \in ShardSet, NEW S, Table(c, S), NEW k \in CacheKeys
  PROVE  LET e == TableLookup(c, k)
         IN IF e = NoHandle
            THEN Pointed(c, k) = {} /\ \A f \in S: c.handles[f].key # k
            ELSE Pointed(c, k) = {e} /\ e \in S /\ c.handles[e].key = k
<1>1. Pointed(c, k) = {e \in S: c.handles[e].key = k}
  BY PointedRight
<1>2. S \subseteq Nat /\ NoHandle \notin Nat
  BY HandleTypes, CacheAssumption DEF Table
<1>3. CASE Pointed(c, k) = {}
  BY <1>1, <1>3 DEF TableLookup
<1>4. CASE Pointed(c, k) # {}
  <2>1. TableLookup(c, k) \in Pointed(c, k)
    BY <1>4 DEF TableLookup
  <2>2. \A f \in Pointed(c, k): f = TableLookup(c, k)
    BY <1>1, <2>1 DEF Table, KeysOnce
  <2> QED BY <1>1, <1>2, <2>1, <2>2
<1> QED BY <1>3, <1>4

LEMMA TableRemoveRight ==
  ASSUME NEW c \in ShardSet, NEW S, Table(c, S), NEW k \in CacheKeys
  PROVE  \E l \in Seq(SUBSET Nat), n \in Int:
           /\ TableRemove(c, k) = [c EXCEPT !.list = l, !.elems = n]
           /\ Table(TableRemove(c, k), S \ Pointed(c, k))
<1> DEFINE old == Pointed(c, k)
           b == Bucket(c.list, k)
<1>1. c.list \in Seq(SUBSET Nat) /\ c.elems \in Int
  BY DEF ShardSet
<1>2. CASE old = {}
  <2>1. TableRemove(c, k) = c /\ c = [c EXCEPT !.list = c.list, !.elems = c.elems]
    BY <1>2 DEF TableRemove, ShardSet
  <2>2. S \ old = S
    BY <1>2
  <2> QED BY <1>1, <2>1, <2>2
<1>3. CASE old # {}
  <2> DEFINE l == [c.list EXCEPT ![b] = @ \ old]
             n == c.elems - 1
             d == [c EXCEPT !.list = l, !.elems = n]
  <2>1. TableRemove(c, k) = d
    BY <1>3 DEF TableRemove
  <2>2. b \in DOMAIN c.list /\ old = {e \in S: c.handles[e].key = k}
    BY PointedRight
  <2>3. l \in Seq(SUBSET Nat) /\ Len(l) = Len(c.list) /\ DOMAIN l = DOMAIN c.list
        /\ l[b] = c.list[b] \ old /\ \A i \in DOMAIN l: i # b => l[i] = c.list[i]
    BY <1>1, <2>2
  <2>4. PICK e : old = {e} /\ e \in S
    BY <1>3, LookupRight
  <2>5. IsFiniteSet(S) /\ Cardinality(S) \in Nat
    BY HandleTypes DEF Table
  <2>6. Cardinality(S \ old) = Cardinality(S) - 1
    BY <2>4, <2>5, FS_RemoveElement
  <2> HIDE DEF l, b
  <2>7. d.handles = c.handles /\ d.list = l /\ d.elems = n
    BY DEF ShardSet
  <2>8. \A f \in S: Bucket(l, c.handles[f].key) = Bucket(c.list, c.handles[f].key)
    BY <2>3 DEF Bucket
  <2> HIDE DEF d
  <2>9. Chains(d, S \ old)
    <3>1. \A i \in DOMAIN c.list: c.list[i] = {f \in S: Bucket(c.list, c.handles[f].key) = i}
      BY DEF Table, Chains
    <3>2. \A f \in S: f \in old => Bucket(c.list, c.handles[f].key) = b
      BY <2>2 DEF b
    <3> QED BY <2>3, <2>7, <2>8, <3>1, <3>2 DEF Table, Chains
  <2>10. Table(d, S \ old)
    BY <2>3, <2>5, <2>6, <2>7, <2>9 DEF Table, KeysOnce
  <2>11. TableRemove(c, k) = [c EXCEPT !.list = l, !.elems = n] /\ n \in Int
    BY <1>1, <2>1 DEF d
  <2>12. Table(TableRemove(c, k), S \ old)
    BY <2>1, <2>10
  <2> HIDE DEF n, old
  <2> QED BY <2>3, <2>11, <2>12 DEF old
<1> QED BY <1>2, <1>3

LEMMA GrownRight ==
  ASSUME NEW c \in ShardSet, NEW S, S \subseteq DOMAIN c.handles, KeysOnce(c, S), Chains(c, S),
         c.elems = Cardinality(S), c.elems <= Len(c.list) + 1
  PROVE  \E l \in Seq(SUBSET Nat):
           Resize(c) = [c EXCEPT !.list = l] /\ Table(Resize(c), S)
<1> DEFINE entries == UNION {c.list[i] : i \in DOMAIN c.list}
           chains == [i \in 1..(2 * Len(c.list)) |-> {}]
           l == [i \in DOMAIN chains |-> {e \in entries: Bucket(chains, c.handles[e].key) = i}]
           d == [c EXCEPT !.list = l]
<1>1. Resize(c) = d
  BY DEF Resize
<1>2. DOMAIN c.list = 1..Len(c.list) /\ Len(c.list) \in Nat /\ Len(c.list) # 0
  BY HandleTypes DEF Chains
<1>3. entries = S
  <2>1. \A e \in S: Bucket(c.list, c.handles[e].key) \in DOMAIN c.list
    BY <1>2, BucketRange, HandleTypes
  <2> QED BY <2>1 DEF Chains
<1> HIDE DEF entries
<1>4. chains \in Seq({{}}) /\ Len(chains) = 2 * Len(c.list) /\ DOMAIN chains = 1..(2 * Len(c.list))
  BY <1>2
<1> HIDE DEF chains
<1>5. S \subseteq Nat
  BY HandleTypes
<1>6. l \in Seq(SUBSET Nat) /\ Len(l) = Len(chains) /\ DOMAIN l = DOMAIN chains
      /\ \A i \in DOMAIN l: l[i] = {e \in S: Bucket(chains, c.handles[e].key) = i}
  BY <1>2, <1>3, <1>4, <1>5
<1>7. \A e \in S: Bucket(chains, c.handles[e].key) = Bucket(l, c.handles[e].key)
  BY <1>6 DEF Bucket
<1> HIDE DEF l
<1>8. d.list = l /\ d.handles = c.handles /\ d.elems = c.elems
  BY DEF ShardSet
<1>9. Chains(d, S)
  BY <1>2, <1>4, <1>6, <1>7, <1>8 DEF Chains
<1>10. d.elems \in Int /\ d.elems <= Len(d.list)
  BY <1>2, <1>4, <1>6, <1>8 DEF ShardSet
<1>11. Table(d, S)
  BY <1>8, <1>9, <1>10 DEF Table, KeysOnce
<1> HIDE DEF d
<1> QED BY <1>1, <1>6, <1>11 DEF d

LEMMA TableInsertRight ==
  ASSUME NEW c \in ShardSet, NEW S, Table(c, S), NEW e \in DOMAIN c.handles, e \notin S
  PROVE  \E l \in Seq(SUBSET Nat), n \in Int:
           /\ TableInsert(c, e) = [c EXCEPT !.list = l, !.elems = n]
           /\ Table(TableInsert(c, e), (S \ Pointed(c, c.handles[e].key)) \cup {e})
<1> DEFINE k == c.handles[e].key
           old == Pointed(c, k)
           b == Bucket(c.list, k)
           n == IF old = {} THEN c.elems + 1 ELSE c.elems
           l == [c.list EXCEPT ![b] = (@ \ old) \cup {e}]
           d == [c EXCEPT !.list = l, !.elems = n]
           R == (S \ old) \cup {e}
<1>1. c.list \in Seq(SUBSET Nat) /\ c.elems \in Int /\ k \in CacheKeys /\ e \in Nat
  BY HandleTypes DEF ShardSet
<1>2. TableInsert(c, e) = IF n > Len(c.list) THEN Resize(d) ELSE d
  <2>1. d.elems = n
    BY DEF ShardSet
  <2> HIDE DEF l, n
  <2> QED BY <2>1 DEF TableInsert, l, n
<1> HIDE DEF k
<1>3. b \in DOMAIN c.list /\ old = {f \in S: c.handles[f].key = k}
  BY <1>1, PointedRight
<1>4. l \in Seq(SUBSET Nat) /\ Len(l) = Len(c.list) /\ DOMAIN l = DOMAIN c.list
      /\ l[b] = (c.list[b] \ old) \cup {e} /\ \A i \in DOMAIN l: i # b => l[i] = c.list[i]
  BY <1>1, <1>3
<1>5. IsFiniteSet(S) /\ Cardinality(S) \in Nat /\ IsFiniteSet(S \ old)
      /\ S \subseteq DOMAIN c.handles /\ Len(c.list) \in Nat
  BY HandleTypes DEF Table
<1>6. n = Cardinality(R) /\ n \in Int
  <2>1. Cardinality(R) = Cardinality(S \ old) + 1
    BY <1>5, FS_AddElement
  <2>2. CASE old = {}
    <3>1. S \ old = S
      BY <2>2
    <3> QED BY <1>1, <1>5, <2>1, <2>2, <3>1 DEF Table
  <2>3. CASE old # {}
    <3>1. PICK f: old = {f} /\ f \in S
      BY <1>1, <2>3, LookupRight
    <3>2. Cardinality(S \ old) = Cardinality(S) - 1
      BY <1>5, <3>1, FS_RemoveElement
    <3> QED BY <1>1, <1>5, <2>1, <2>3, <3>2 DEF Table
  <2> QED BY <2>2, <2>3
<1>7. n <= Len(c.list) + 1
  BY <1>1, <1>5 DEF Table
<1> HIDE DEF l, b, n
<1>8. d \in ShardSet /\ d.handles = c.handles /\ d.list = l /\ d.elems = n
  BY <1>4, <1>6 DEF ShardSet
<1>9. R \subseteq DOMAIN d.handles /\ KeysOnce(d, R)
  BY <1>3, <1>5, <1>8 DEF Table, KeysOnce, k
<1>10. Chains(d, R)
  <2>1. \A i \in DOMAIN c.list: c.list[i] = {f \in S: Bucket(c.list, c.handles[f].key) = i}
    BY DEF Table, Chains
  <2>2. \A f \in R: Bucket(l, c.handles[f].key) = Bucket(c.list, c.handles[f].key)
    BY <1>4 DEF Bucket
  <2>3. \A f \in old \cup {e}: Bucket(c.list, c.handles[f].key) = b
    BY <1>3 DEF b, k
  <2>4. Len(l) # 0
    BY <1>4 DEF Table, Chains
  <2>5. ASSUME NEW i \in DOMAIN l PROVE l[i] = {f \in R: Bucket(l, c.handles[f].key) = i}
    <3>1. CASE i = b
      BY <1>3, <1>4, <2>1, <2>2, <2>3, <3>1
    <3>2. CASE i # b
      BY <1>3, <1>4, <2>1, <2>2, <2>3, <2>5, <3>2
    <3> QED BY <3>1, <3>2
  <2> HIDE DEF d
  <2> QED BY <1>8, <2>4, <2>5 DEF Chains
<1> HIDE DEF d, R
<1>11. CASE n > Len(c.list)
  <2>1. PICK m \in Seq(SUBSET Nat): Resize(d) = [d EXCEPT !.list = m] /\ Table(Resize(d), R)
    BY <1>4, <1>6, <1>7, <1>8, <1>9, <1>10, GrownRight
  <2>2. [d EXCEPT !.list = m] = [c EXCEPT !.list = m, !.elems = n]
    BY <1>8 DEF d, ShardSet
  <2>3. TableInsert(c, e) = [c EXCEPT !.list = m, !.elems = n] /\ Table(TableInsert(c, e), R)
    BY <1>2, <1>11, <2>1, <2>2
  <2> QED BY <1>6, <2>3 DEF R, k
<1>12. CASE ~(n > Len(c.list))
  <2>1. n <= Len(c.list)
    BY <1>5, <1>6, <1>12
  <2>2. Table(d, R)
    BY <1>4, <1>6, <1>8, <1>9, <1>10, <2>1 DEF Table
  <2>3. TableInsert(c, e) = [c EXCEPT !.list = l, !.elems = n] /\ Table(TableInsert(c, e), R)
    BY <1>2, <1>12, <2>2 DEF d
  <2> QED BY <1>4, <1>6, <2>3 DEF R, k
<1> QED BY <1>11, <1>12

-----------------------------------------------------------------------------
(* References and lists.                                                   *)

\* d is c but for one entry, of the same key, and the two lists.
OneEntry(c, d, e, h) ==
  /\ d \in ShardSet /\ d.handles = [c.handles EXCEPT ![e] = h]
  /\ h.key = c.handles[e].key
  /\ d.list = c.list /\ d.elems = c.elems

LEMMA EntryUpdate ==
  ASSUME NEW T, NEW s \in Seq(T), NEW e \in DOMAIN s, NEW h \in T
  PROVE  /\ [s EXCEPT ![e] = h] \in Seq(T) /\ DOMAIN [s EXCEPT ![e] = h] = DOMAIN s
         /\ [s EXCEPT ![e] = h][e] = h
         /\ \A f \in DOMAIN s: f # e => [s EXCEPT ![e] = h][f] = s[f]
  OBVIOUS

\* d is c with other entries and lists, g is h with other contents.
ShardBecomes(c, d, hs, s, u) ==
  /\ hs \in Seq(HandleSet) /\ s \in Seq(Nat) /\ u \in SUBSET Nat
  /\ d = [c EXCEPT !.handles = hs, !.lru = s, !.inUse = u]
HandleBecomes(h, g, r, n, b) ==
  /\ r \in Nat /\ n \in Nat /\ b \in BOOLEAN
  /\ g = [h EXCEPT !.refs = r, !.deletions = n, !.inCache = b]

LEMMA ShardUpdate ==
  ASSUME NEW c \in ShardSet, NEW d, NEW hs, NEW s, NEW u, ShardBecomes(c, d, hs, s, u)
  PROVE  /\ d \in ShardSet /\ d.handles = hs /\ d.lru = s /\ d.inUse = u
         /\ d.usage = c.usage /\ d.list = c.list /\ d.elems = c.elems
  BY DEF ShardSet, ShardBecomes

LEMMA HandleUpdate ==
  ASSUME NEW h \in HandleSet, NEW g, NEW r, NEW n, NEW b, HandleBecomes(h, g, r, n, b)
  PROVE  g \in HandleSet /\ g.key = h.key /\ g.refs = r /\ g.deletions = n /\ g.inCache = b
<1>1. g = [key |-> h.key, refs |-> r, inCache |-> b, deletions |-> n]
  BY DEF HandleSet, HandleBecomes
<1>2. h.key \in CacheKeys
  BY DEF HandleSet
<1> QED BY <1>1, <1>2 DEF HandleSet, HandleBecomes

LEMMA TableStays ==
  ASSUME NEW c \in ShardSet, NEW d, NEW e \in DOMAIN c.handles, NEW h, OneEntry(c, d, e, h),
         NEW S, Table(c, S)
  PROVE  Table(d, S)
<1>1. DOMAIN d.handles = DOMAIN c.handles /\ \A f \in DOMAIN c.handles: d.handles[f].key = c.handles[f].key
  BY DEF OneEntry, ShardSet
<1> QED BY <1>1 DEF Table, KeysOnce, Chains, OneEntry

LEMMA DroppedRight ==
  ASSUME NEW h \in HandleSet, h.refs > 0
  PROVE  /\ Dropped(h) \in HandleSet /\ Dropped(h).key = h.key /\ Dropped(h).inCache = h.inCache
         /\ Dropped(h).refs = h.refs - 1
         /\ Dropped(h).deletions = IF h.refs = 1 THEN h.deletions + 1 ELSE h.deletions
<1> DEFINE r == h.refs - 1
           n == IF h.refs = 1 THEN h.deletions + 1 ELSE h.deletions
           b == h.inCache
<1>1. r \in Nat /\ n \in Nat /\ b \in BOOLEAN
  BY DEF HandleSet
<1>2. Dropped(h) = [h EXCEPT !.refs = r, !.deletions = n, !.inCache = b]
  BY DEF HandleSet, Dropped
<1> HIDE DEF r, n, b
<1>3. /\ Dropped(h) \in HandleSet /\ Dropped(h).key = h.key /\ Dropped(h).refs = r
      /\ Dropped(h).deletions = n /\ Dropped(h).inCache = b
  <2>1. HandleBecomes(h, Dropped(h), r, n, b)
    BY <1>1, <1>2 DEF HandleBecomes
  <2> QED BY <2>1, HandleUpdate
<1> QED BY <1>3 DEF r, n, b

\* What is left to show of one entry and the lists, when callers hold more.
LEMMA ReferencesChange ==
  ASSUME NEW c \in ShardSet, NEW d, NEW e \in DOMAIN c.handles, NEW h, OneEntry(c, d, e, h),
         NEW held, References(c, held), NEW m \in Nat,
         h.refs = m + IF h.inCache THEN 1 ELSE 0,
         h.deletions = IF h.refs = 0 THEN 1 ELSE 0
  PROVE  References(d, [held EXCEPT ![e] = m])
<1>1. DOMAIN d.handles = DOMAIN c.handles /\ d.handles[e] = h
      /\ \A f \in DOMAIN c.handles: f # e => d.handles[f] = c.handles[f]
  BY DEF OneEntry, ShardSet
<1>2. held \in [DOMAIN c.handles -> Nat]
  BY DEF References
<1> DEFINE g == [held EXCEPT ![e] = m]
<1>3. g \in [DOMAIN c.handles -> Nat] /\ g[e] = m /\ \A f \in DOMAIN c.handles: f # e => g[f] = held[f]
  BY <1>2
<1> HIDE DEF g
<1>4. References(d, g)
  BY <1>1, <1>3 DEF References
<1> QED BY <1>4 DEF g

LEMMA RefRight ==
  ASSUME NEW c \in ShardSet, NEW held, References(c, held), Lists(c, held), NEW e \in Cached(c)
  PROVE  LET d == Ref(c, e)
             g == [held EXCEPT ![e] = @ + 1]
         IN /\ References(d, g) /\ Lists(d, g) /\ d.usage = c.usage
            /\ \E h \in HandleSet: OneEntry(c, d, e, h) /\ h.inCache
<1> DEFINE h == [c.handles[e] EXCEPT !.refs = @ + 1]
           m == held[e] + 1
           g == [held EXCEPT ![e] = m]
           d == Ref(c, e)
<1>1. e \in DOMAIN c.handles /\ e \in Nat /\ c.handles[e] \in HandleSet /\ c.handles[e].inCache
      /\ c.handles[e].refs = held[e] + 1 /\ held[e] \in Nat /\ c.handles \in Seq(HandleSet)
  BY HandleTypes DEF Cached, References, ShardSet
<1>2. h \in HandleSet /\ h.key = c.handles[e].key /\ h.inCache /\ h.refs = m + 1
      /\ h.deletions = c.handles[e].deletions
  <2> DEFINE o == c.handles[e]
  <2>1. o \in HandleSet /\ o.refs + 1 \in Nat /\ o.deletions \in Nat /\ o.inCache \in BOOLEAN
    BY <1>1 DEF HandleSet
  <2> HIDE DEF o
  <2>2. [o EXCEPT !.refs = @ + 1] = [o EXCEPT !.refs = o.refs + 1, !.deletions = o.deletions, !.inCache = o.inCache]
    BY <2>1 DEF HandleSet
  <2>3. h = [o EXCEPT !.refs = o.refs + 1, !.deletions = o.deletions, !.inCache = o.inCache]
    BY <2>2 DEF o
  <2> HIDE DEF h
  <2>4. h \in HandleSet /\ h.key = o.key /\ h.refs = o.refs + 1 /\ h.deletions = o.deletions /\ h.inCache = o.inCache
    <3>1. HandleBecomes(o, h, o.refs + 1, o.deletions, o.inCache)
      BY <2>1, <2>3 DEF HandleBecomes
    <3> QED BY <2>1, <3>1, HandleUpdate
  <2> QED BY <1>1, <2>4 DEF o
<1>3. \E s \in Seq(Nat), u \in SUBSET Nat:
        /\ d = [c EXCEPT !.handles = [@ EXCEPT ![e] = h], !.lru = s, !.inUse = u]
        /\ IsInjective(s) /\ ToSet(s) = ToSet(c.lru) \ {e} /\ u = c.inUse \cup {e}
  <2>1. CASE c.handles[e].refs = 1
    <3>1. PICK s \in Seq(Nat): /\ LruRemove(c, e) = [c EXCEPT !.lru = s, !.inUse = @ \ {e}]
                               /\ IsInjective(s) /\ ToSet(s) = ToSet(c.lru) \ {e}
      BY <1>1, LruRemoveRight DEF Lists
    <3> DEFINE u == c.inUse \cup {e}
               x == [LruRemove(c, e) EXCEPT !.inUse = @ \cup {e}]
    <3>2. x = [c EXCEPT !.lru = s, !.inUse = u] /\ u \in SUBSET Nat
      BY <1>1, <3>1 DEF ShardSet
    <3>3. d = [x EXCEPT !.handles[e].refs = @ + 1]
      BY <1>1, <2>1 DEF Ref
    <3> HIDE DEF x, u
    <3>4. x.handles = c.handles
      BY <3>2 DEF ShardSet
    <3>5. d = [c EXCEPT !.handles = [@ EXCEPT ![e] = h], !.lru = s, !.inUse = u]
      BY <3>2, <3>3, <3>4 DEF ShardSet
    <3> QED BY <3>1, <3>2, <3>5 DEF u
  <2>2. CASE c.handles[e].refs # 1
    <3>1. d = [c EXCEPT !.handles[e].refs = @ + 1]
      BY <2>2 DEF Ref
    <3>2. held[e] # 0
      BY <1>1, <2>2
    <3>3. e \notin ToSet(c.lru) /\ e \in c.inUse
      BY <3>2 DEF Lists
    <3>4. ToSet(c.lru) = ToSet(c.lru) \ {e} /\ c.inUse = c.inUse \cup {e}
      BY <3>3
    <3>5. d = [c EXCEPT !.handles = [@ EXCEPT ![e] = h], !.lru = c.lru, !.inUse = c.inUse]
      BY <3>1 DEF ShardSet
    <3>6. c.lru \in Seq(Nat) /\ c.inUse \in SUBSET Nat /\ IsInjective(c.lru)
      BY DEF Lists, ShardSet
    <3> HIDE DEF d, h
    <3> QED BY <3>4, <3>5, <3>6
  <2> QED BY <2>1, <2>2
<1> HIDE DEF h, d
<1>4. PICK s \in Seq(Nat), u \in SUBSET Nat:
        /\ d = [c EXCEPT !.handles = [@ EXCEPT ![e] = h], !.lru = s, !.inUse = u]
        /\ IsInjective(s) /\ ToSet(s) = ToSet(c.lru) \ {e} /\ u = c.inUse \cup {e}
  BY <1>3
<1>5. OneEntry(c, d, e, h) /\ d.lru = s /\ d.inUse = u /\ d.usage = c.usage
  <2>1. [c.handles EXCEPT ![e] = h] \in Seq(HandleSet)
    BY <1>1, <1>2, EntryUpdate
  <2>2. ShardBecomes(c, d, [c.handles EXCEPT ![e] = h], s, u)
    BY <1>4, <2>1 DEF ShardBecomes
  <2> QED BY <1>2, <2>2, ShardUpdate DEF OneEntry
<1>6. m \in Nat /\ h.deletions = IF h.refs = 0 THEN 1 ELSE 0
  BY <1>1, <1>2 DEF References
<1>7. References(d, g)
  BY <1>1, <1>2, <1>5, <1>6, ReferencesChange
<1>8. Lists(d, g)
  <2>1. Cached(d) = Cached(c)
    BY <1>1, <1>2, <1>5 DEF OneEntry, Cached, ShardSet
  <2>2. g[e] # 0 /\ \A f \in Cached(c): f # e => g[f] = held[f]
    BY <1>1 DEF References, Cached
  <2> HIDE DEF g
  <2>3. ToSet(d.lru) = {f \in Cached(c): g[f] = 0}
    BY <1>4, <1>5, <2>2 DEF Lists
  <2>4. d.inUse = {f \in Cached(c): g[f] # 0}
    BY <1>4, <1>5, <2>2 DEF Lists
  <2> QED BY <1>4, <1>5, <2>1, <2>3, <2>4 DEF Lists
<1> QED BY <1>2, <1>5, <1>7, <1>8 DEF d

LEMMA UnrefRight ==
  ASSUME NEW c \in ShardSet, NEW held, References(c, held), Lists(c, held),
         NEW e \in DOMAIN c.handles, held[e] > 0
  PROVE  LET d == Unref(c, e)
             g == [held EXCEPT ![e] = @ - 1]
         IN /\ References(d, g) /\ Lists(d, g) /\ d.usage = c.usage
            /\ \E h \in HandleSet: OneEntry(c, d, e, h) /\ h.inCache = c.handles[e].inCache
<1> DEFINE h == Dropped(c.handles[e])
           m == held[e] - 1
           g == [held EXCEPT ![e] = m]
           x == [c EXCEPT !.handles[e] = h]
           d == Unref(c, e)
<1>1. e \in Nat /\ c.handles[e] \in HandleSet /\ held[e] \in Nat /\ c.handles \in Seq(HandleSet)
      /\ c.handles[e].refs = held[e] + (IF c.handles[e].inCache THEN 1 ELSE 0)
      /\ c.handles[e].inCache \in BOOLEAN /\ c.lru \in Seq(Nat) /\ c.inUse \in SUBSET Nat
  BY HandleTypes DEF References, ShardSet
<1>2. h \in HandleSet /\ h.key = c.handles[e].key /\ h.inCache = c.handles[e].inCache
      /\ h.refs = c.handles[e].refs - 1
      /\ h.deletions = IF c.handles[e].refs = 1 THEN c.handles[e].deletions + 1 ELSE c.handles[e].deletions
  BY <1>1, DroppedRight
<1> HIDE DEF h
<1>3. x \in ShardSet /\ x.handles = [c.handles EXCEPT ![e] = h] /\ x.handles[e] = h /\ x.lru = c.lru /\ x.inUse = c.inUse
      /\ x.usage = c.usage /\ x.list = c.list /\ x.elems = c.elems
  <2>1. [c.handles EXCEPT ![e] = h] \in Seq(HandleSet) /\ [c.handles EXCEPT ![e] = h][e] = h
    BY <1>1, <1>2, EntryUpdate
  <2>2. x = [c EXCEPT !.handles = [c.handles EXCEPT ![e] = h], !.lru = c.lru, !.inUse = c.inUse]
    BY DEF ShardSet
  <2> HIDE DEF x
  <2>3. ShardBecomes(c, x, [c.handles EXCEPT ![e] = h], c.lru, c.inUse)
    BY <1>1, <2>1, <2>2 DEF ShardBecomes
  <2> QED BY <2>1, <2>3, ShardUpdate
<1>4. d = IF h.refs = 1 /\ h.inCache THEN [LruRemove(x, e) EXCEPT !.lru = Append(@, e)] ELSE x
  <2> HIDE DEF x
  <2> QED BY <1>3 DEF Unref, x, h
<1>5. \E s \in Seq(Nat), u \in SUBSET Nat:
        /\ d = [x EXCEPT !.lru = s, !.inUse = u]
        /\ IsInjective(s)
        /\ ToSet(s) = IF m = 0 /\ h.inCache THEN ToSet(c.lru) \cup {e} ELSE ToSet(c.lru)
        /\ u = IF m = 0 /\ h.inCache THEN c.inUse \ {e} ELSE c.inUse
  <2>1. h.refs = 1 /\ h.inCache <=> m = 0 /\ h.inCache
    BY <1>1, <1>2
  <2>2. CASE h.refs = 1 /\ h.inCache
    <3>1. e \notin ToSet(c.lru)
      BY <1>1 DEF Lists
    <3>2. PICK s \in Seq(Nat): /\ LruRemove(x, e) = [x EXCEPT !.lru = s, !.inUse = @ \ {e}]
                               /\ IsInjective(s) /\ ToSet(s) = ToSet(x.lru) \ {e}
      BY <1>1, <1>3, LruRemoveRight DEF Lists
    <3> HIDE DEF x
    <3>3. Append(s, e) \in Seq(Nat) /\ IsInjective(Append(s, e)) /\ ToSet(Append(s, e)) = ToSet(c.lru) \cup {e}
      <4>1. e \notin ToSet(s) /\ ToSet(s) \cup {e} = ToSet(c.lru) \cup {e}
        BY <1>3, <3>2
      <4>2. /\ Append(s, e) \in Seq(Nat) /\ IsInjective(Append(s, e))
            /\ ToSet(Append(s, e)) = ToSet(s) \cup {e}
        <5>1. e \in Nat /\ s \in Seq(Nat) /\ IsInjective(s) /\ e \notin ToSet(s)
          BY <1>1, <3>2, <4>1
        <5> QED BY ONLY <5>1, AddedLast
      <4> QED BY <4>1, <4>2
    <3>4. d = [x EXCEPT !.lru = Append(s, e), !.inUse = c.inUse \ {e}]
      <4> DEFINE y == [x EXCEPT !.lru = s, !.inUse = c.inUse \ {e}]
      <4>1. y = LruRemove(x, e) /\ y.lru = s
        BY <1>3, <3>2 DEF ShardSet
      <4>2. d = [y EXCEPT !.lru = Append(y.lru, e)]
        BY <1>4, <2>2, <4>1
      <4>3. [y EXCEPT !.lru = Append(s, e)] = [x EXCEPT !.lru = Append(s, e), !.inUse = c.inUse \ {e}]
        BY <1>3 DEF ShardSet
      <4> HIDE DEF y
      <4> QED BY <4>1, <4>2, <4>3
    <3>5. c.inUse \ {e} \in SUBSET Nat
      BY <1>1
    <3> QED BY <2>1, <2>2, <3>3, <3>4, <3>5
  <2>3. CASE ~(h.refs = 1 /\ h.inCache)
    <3> HIDE DEF x
    <3>1. d = [x EXCEPT !.lru = c.lru, !.inUse = c.inUse]
      BY <1>3, <1>4, <2>3 DEF ShardSet
    <3>2. IsInjective(c.lru)
      BY DEF Lists
    <3> QED BY <1>1, <2>1, <2>3, <3>1, <3>2
  <2> QED BY <2>2, <2>3
<1> HIDE DEF d
<1>6. PICK s \in Seq(Nat), u \in SUBSET Nat:
        /\ d = [x EXCEPT !.lru = s, !.inUse = u]
        /\ IsInjective(s)
        /\ ToSet(s) = IF m = 0 /\ h.inCache THEN ToSet(c.lru) \cup {e} ELSE ToSet(c.lru)
        /\ u = IF m = 0 /\ h.inCache THEN c.inUse \ {e} ELSE c.inUse
  BY <1>5
<1>7. OneEntry(c, d, e, h) /\ d.lru = s /\ d.inUse = u /\ d.usage = c.usage
  <2> HIDE DEF x
  <2>1. d = [x EXCEPT !.handles = x.handles, !.lru = s, !.inUse = u] /\ x.handles \in Seq(HandleSet)
    BY <1>3, <1>6 DEF ShardSet
  <2>2. ShardBecomes(x, d, x.handles, s, u)
    BY <2>1 DEF ShardBecomes
  <2> QED BY <1>2, <1>3, <2>2, ShardUpdate DEF OneEntry
<1>8. m \in Nat /\ h.refs = m + (IF h.inCache THEN 1 ELSE 0) /\ h.deletions = IF h.refs = 0 THEN 1 ELSE 0
  BY <1>1, <1>2 DEF References
<1>9. References(d, g)
  BY <1>7, <1>8, ReferencesChange
<1>10. Lists(d, g)
  <2>1. Cached(d) = Cached(c)
    BY <1>1, <1>2, <1>7 DEF OneEntry, Cached, ShardSet
  <2>2. held \in [DOMAIN c.handles -> Nat]
    BY DEF References
  <2>3. g[e] = m /\ \A f \in Cached(c): f # e => g[f] = held[f]
    BY <2>2 DEF Cached
  <2>4. e \in Cached(c) <=> h.inCache
    BY <1>2 DEF Cached
  <2> HIDE DEF g, m
  <2>5. held[e] # 0
    BY <1>1
  <2>6. ToSet(d.lru) = {f \in Cached(c): g[f] = 0}
    BY <1>6, <1>7, <2>3, <2>4, <2>5 DEF Lists
  <2>7. d.inUse = {f \in Cached(c): g[f] # 0}
    BY <1>6, <1>7, <2>3, <2>4, <2>5 DEF Lists
  <2> QED BY <1>6, <1>7, <2>1, <2>6, <2>7 DEF Lists
<1> QED BY <1>2, <1>7, <1>9, <1>10 DEF d

\* An entry that has left the hash table leaves the cache.
LEMMA FinishEraseRight ==
  ASSUME NEW c \in ShardSet, NEW held, References(c, held), Lists(c, held),
         c.usage = Charged(c.handles), NEW e \in Cached(c)
  PROVE  LET d == FinishErase(c, e)
         IN /\ References(d, held) /\ Lists(d, held) /\ d.usage = Charged(d.handles)
            /\ \E h \in HandleSet: OneEntry(c, d, e, h) /\ ~h.inCache
<1> DEFINE o == c.handles[e]
           p == [o EXCEPT !.inCache = FALSE]
           h == Dropped(p)
           d == FinishErase(c, e)
<1>1. e \in DOMAIN c.handles /\ e \in Nat /\ o \in HandleSet /\ o.inCache /\ held[e] \in Nat
      /\ o.refs = held[e] + 1 /\ o.deletions = 0 /\ c.handles \in Seq(HandleSet) /\ o.key \in CacheKeys
      /\ c.inUse \in SUBSET Nat /\ e # NoHandle
  <2>1. e \in DOMAIN c.handles /\ o.inCache
    BY DEF Cached
  <2>2. e \in Nat /\ o \in HandleSet /\ o.key \in CacheKeys
    BY <2>1, HandleTypes
  <2>3. held[e] \in Nat /\ o.refs = held[e] + 1 /\ o.deletions = IF o.refs = 0 THEN 1 ELSE 0
    BY <2>1 DEF References
  <2> HIDE DEF o
  <2> QED BY <2>1, <2>2, <2>3, CacheAssumption DEF ShardSet
<1>2. p \in HandleSet /\ p.key = o.key /\ p.refs = o.refs /\ p.deletions = o.deletions /\ p.inCache = FALSE
  <2> HIDE DEF o
  <2>1. HandleBecomes(o, p, o.refs, o.deletions, FALSE)
    BY <1>1 DEF HandleBecomes, HandleSet
  <2> HIDE DEF p
  <2> QED BY <1>1, <2>1, HandleUpdate
<1> HIDE DEF p
<1>3. h \in HandleSet /\ h.key = o.key /\ h.inCache = FALSE /\ h.refs = held[e]
      /\ h.deletions = IF held[e] = 0 THEN 1 ELSE 0
  <2>1. p.refs > 0 /\ p.refs - 1 = held[e] /\ (p.refs = 1 <=> held[e] = 0) /\ p.deletions = 0
    BY <1>1, <1>2
  <2> QED BY <1>2, <2>1, DroppedRight
<1> HIDE DEF h
<1>4. PICK s \in Seq(Nat): /\ LruRemove(c, e) = [c EXCEPT !.lru = s, !.inUse = @ \ {e}]
                           /\ IsInjective(s) /\ ToSet(s) = ToSet(c.lru) \ {e}
  BY <1>1, LruRemoveRight DEF Lists
<1> DEFINE u == c.inUse \ {e}
           y == [c EXCEPT !.handles = [@ EXCEPT ![e] = p], !.lru = s, !.inUse = u,
                          !.usage = @ - o.key.charge]
<1>5. d = Unref(y, e)
  <2>1. [[c EXCEPT !.lru = s, !.inUse = u] EXCEPT !.handles[e].inCache = FALSE,
                                                 !.usage = @ - o.key.charge] = y
    BY DEF ShardSet, p
  <2>2. LruRemove(c, e) = [c EXCEPT !.lru = s, !.inUse = u]
    BY <1>4
  <2> HIDE DEF y, u
  <2>3. d = Unref([LruRemove(c, e) EXCEPT !.handles[e].inCache = FALSE,
                                          !.usage = @ - o.key.charge], e)
    BY <1>1 DEF FinishErase
  <2> QED BY <2>1, <2>2, <2>3
<1> HIDE DEF d
<1>6. d = [c EXCEPT !.handles = [@ EXCEPT ![e] = h], !.lru = s, !.inUse = u,
                    !.usage = @ - o.key.charge]
  <2> DEFINE z == [y EXCEPT !.handles[e] = Dropped(@)]
  <2>1. [c.handles EXCEPT ![e] = p] \in Seq(HandleSet) /\ [c.handles EXCEPT ![e] = p][e] = p
    BY <1>1, <1>2, EntryUpdate
  <2>2. y.handles = [c.handles EXCEPT ![e] = p] /\ y \in ShardSet
    <3>1. c.usage - o.key.charge \in Int
      BY <1>1, CacheAssumption DEF ShardSet
    <3> HIDE DEF o
    <3> QED BY <1>1, <2>1, <3>1 DEF ShardSet
  <2>3. z = [c EXCEPT !.handles = [@ EXCEPT ![e] = h], !.lru = s, !.inUse = u,
                      !.usage = @ - o.key.charge]
    <3>1. [y.handles EXCEPT ![e] = h] = [c.handles EXCEPT ![e] = h]
      BY <1>1, <2>1, <2>2
    <3>2. z = [y EXCEPT !.handles = [y.handles EXCEPT ![e] = h]]
      <4> HIDE DEF y
      <4> QED BY <2>1, <2>2 DEF ShardSet, h
    <3> HIDE DEF z, o
    <3> QED BY <3>1, <3>2 DEF ShardSet
  <2> HIDE DEF y
  <2>4. z.handles[e] = h
    BY <1>1, <2>1, <2>2 DEF ShardSet, h
  <2> HIDE DEF z
  <2>5. Unref(y, e) = z
    BY <1>3, <2>4 DEF Unref, z
  <2> QED BY <1>5, <2>3, <2>5
<1> HIDE DEF y
<1>7. d \in ShardSet /\ d.handles = [c.handles EXCEPT ![e] = h] /\ d.lru = s /\ d.inUse = u
      /\ d.usage = c.usage - o.key.charge /\ d.list = c.list /\ d.elems = c.elems
  <2>1. [c.handles EXCEPT ![e] = h] \in Seq(HandleSet)
    BY <1>1, <1>3, EntryUpdate
  <2>2. c.usage - o.key.charge \in Int
    BY <1>1, CacheAssumption DEF ShardSet
  <2> HIDE DEF o
  <2> QED BY <1>1, <1>4, <1>6, <2>1, <2>2 DEF ShardSet
<1>8. OneEntry(c, d, e, h)
  BY <1>3, <1>7 DEF OneEntry
<1>9. References(d, held)
  <2>1. References(d, [held EXCEPT ![e] = held[e]])
    BY <1>1, <1>3, <1>8, ReferencesChange
  <2>2. [held EXCEPT ![e] = held[e]] = held
    BY <1>1 DEF References
  <2> QED BY <2>1, <2>2
<1>10. Lists(d, held)
  <2>1. Cached(d) = Cached(c) \ {e}
    BY <1>1, <1>3, <1>7, EntryUpdate DEF Cached
  <2> QED BY <1>4, <1>7, <2>1 DEF Lists
<1>11. d.usage = Charged(d.handles)
  <2> DEFINE hs == c.handles
             gs == d.handles
  <2>1. hs \in Seq(HandleSet) /\ gs \in Seq(HandleSet) /\ Len(gs) = Len(hs) /\ e \in 1..Len(hs)
        /\ gs[e] = h /\ \A i \in 1..Len(hs): i # e => gs[i] = hs[i]
    BY <1>1, <1>3, <1>7
  <2>2. Cost(gs[e]) = 0 /\ Cost(hs[e]) = o.key.charge /\ o.key.charge \in Nat
    BY <1>1, <1>3, <2>1, CacheAssumption DEF Cost
  <2> HIDE DEF hs, gs
  <2>3. Charged(gs) = Charged(hs) + Cost(gs[e]) - Cost(hs[e])
    BY <2>1, ChargedChange
  <2>4. Charged(hs) \in Int
    BY DEF hs, ShardSet
  <2> QED BY <1>7, <2>2, <2>3, <2>4 DEF hs, gs
<1> QED BY <1>3, <1>8, <1>9, <1>10, <1>11 DEF d

\* FinishErase(TableRemove(..), ..): the entry of a key, if there is one, goes.
LEMMA EraseKeyRight ==
  ASSUME NEW c, NEW held, Sound(c, held), NEW k \in CacheKeys
  PROVE  LET d == EraseKey(c, k)
         IN /\ Sound(d, held) /\ Follows(c, d)
            /\ \A e \in Cached(d): c.handles[e].key # k
<1> DEFINE x == TableRemove(c, k)
           e == TableLookup(c, k)
           d == EraseKey(c, k)
           S == Cached(c)
<1>1. c \in ShardSet /\ Table(c, S) /\ References(c, held) /\ Lists(c, held)
      /\ c.usage = Charged(c.handles)
  BY DEF Sound
<1>2. PICK l \in Seq(SUBSET Nat), n \in Int:
         x = [c EXCEPT !.list = l, !.elems = n] /\ Table(x, S \ Pointed(c, k))
  BY <1>1, TableRemoveRight
<1> HIDE DEF x
<1>3. x \in ShardSet /\ x.handles = c.handles /\ x.lru = c.lru /\ x.inUse = c.inUse /\ x.usage = c.usage
  BY <1>1, <1>2 DEF ShardSet
<1>4. References(x, held) /\ Lists(x, held) /\ Cached(x) = S /\ x.usage = Charged(x.handles)
  BY <1>1, <1>3 DEF References, Lists, Cached
<1>5. d = FinishErase(x, e)
  BY DEF EraseKey, x
<1>6. IF e = NoHandle THEN Pointed(c, k) = {} /\ \A f \in S: c.handles[f].key # k
      ELSE Pointed(c, k) = {e} /\ e \in S /\ c.handles[e].key = k
  BY <1>1, LookupRight
<1> HIDE DEF e, d, S
<1>7. CASE e = NoHandle
  <2>1. d = x /\ S \ Pointed(c, k) = S
    BY <1>5, <1>6, <1>7 DEF FinishErase
  <2> QED BY <1>2, <1>3, <1>4, <1>6, <1>7, <2>1 DEF Sound, Follows, S, d
<1>8. CASE e # NoHandle
  <2>1. e \in Cached(x)
    BY <1>4, <1>6, <1>8
  <2>2. /\ References(d, held) /\ Lists(d, held) /\ d.usage = Charged(d.handles)
        /\ \E h \in HandleSet: OneEntry(x, d, e, h) /\ ~h.inCache
    BY <1>3, <1>4, <1>5, <2>1, FinishEraseRight
  <2>3. PICK h \in HandleSet: OneEntry(x, d, e, h) /\ ~h.inCache
    BY <2>2
  <2>4. e \in DOMAIN x.handles
    BY <2>1 DEF Cached
  <2>5. Table(d, S \ {e})
    BY <1>2, <1>3, <1>6, <1>8, <2>3, <2>4, TableStays
  <2>6. DOMAIN d.handles = DOMAIN c.handles /\ d.handles[e] = h
        /\ \A f \in DOMAIN c.handles: f # e => d.handles[f] = c.handles[f]
    BY <1>3, <2>3, <2>4 DEF OneEntry, ShardSet
  <2>7. Cached(d) = S \ {e}
    BY <2>3, <2>6 DEF Cached, S
  <2>8. Sound(d, held)
    BY <2>2, <2>3, <2>5, <2>7 DEF Sound, OneEntry
  <2>9. Follows(c, d)
    BY <1>3, <2>3, <2>6, <2>7 DEF Follows, OneEntry, S
  <2>10. \A f \in S \ {e}: c.handles[f].key # k
    BY <1>1, <1>6, <1>8 DEF Table, KeysOnce
  <2> QED BY <2>7, <2>8, <2>9, <2>10 DEF d
<1> QED BY <1>7, <1>8

LEMMA FollowsOn ==
  ASSUME NEW c, NEW d, NEW b, Follows(c, d), Follows(d, b)
  PROVE  Follows(c, b)
  BY DEF Follows

LEMMA EraseOldestRight ==
  ASSUME NEW c, NEW held, Sound(c, held), NEW all
  PROVE  Sound(EraseOldest(c, all), held) /\ Follows(c, EraseOldest(c, all))
<1>1. CASE EraseOldest(c, all) = c
  BY <1>1 DEF Follows
<1>2. CASE EraseOldest(c, all) # c
  <2> DEFINE k == c.handles[Head(c.lru)].key
  <2>1. c.lru # <<>> /\ EraseOldest(c, all) = EraseKey(c, k)
    BY <1>2 DEF EraseOldest
  <2>2. c.lru \in Seq(Nat) /\ c \in ShardSet
    BY DEF Sound, ShardSet
  <2>3. Head(c.lru) \in ToSet(c.lru)
    <3>1. 1 \in DOMAIN c.lru /\ Head(c.lru) = c.lru[1]
      BY <2>1, <2>2
    <3> QED BY <3>1 DEF ToSet
  <2>4. Head(c.lru) \in DOMAIN c.handles
    BY <2>3 DEF Sound, Lists, Cached
  <2>5. k \in CacheKeys
    BY <2>2, <2>4, HandleTypes
  <2> HIDE DEF k
  <2> QED BY <2>1, <2>5, EraseKeyRight
<1> QED BY <1>1, <1>2

\* The loops of Insert and Prune.
LEMMA ShrunkRight ==
  ASSUME NEW c, NEW held, Sound(c, held), NEW all
  PROVE  Sound(Shrunk(c, all), held) /\ Follows(c, Shrunk(c, all))
<1> DEFINE m == Len(c.lru)
           T == {d \in ShardSet: Sound(d, held) /\ Follows(c, d)}
           Erased(d) == EraseOldest(d, all)
           Value(g, n) == IF n = 0 THEN c ELSE Erased(g[n - 1])
<1>1. m \in Nat /\ c \in T /\ \A d \in T: Erased(d) \in T
  <2>1. c \in ShardSet /\ Follows(c, c)
    BY DEF Sound, Follows
  <2>2. m \in Nat
    BY <2>1 DEF ShardSet
  <2>3. ASSUME NEW d \in T PROVE Erased(d) \in T
    <3>1. Sound(Erased(d), held) /\ Follows(d, Erased(d))
      BY EraseOldestRight
    <3> HIDE DEF Erased
    <3>2. Follows(c, Erased(d))
      BY <3>1, FollowsOn
    <3> QED BY <3>1, <3>2 DEF Sound
  <2> HIDE DEF m, Erased
  <2> QED BY <2>1, <2>2, <2>3
<1>2. Shrunk(c, all) = (CHOOSE f: f = [n \in 0..m |-> Value(f, n)])[m]
  BY DEF Shrunk
<1> HIDE DEF m, T, Erased
<1>3. PICK g \in [0..m -> T]: \A n \in 0..m: g[n] = Value(g, n)
  <2> DEFINE G == [n \in 1..m |-> [r \in T |-> Erased(r)]]
  <2>1. G \in [1..m -> [T -> T]] /\ \A n \in 1..m, r \in T: G[n][r] = Erased(r)
    BY <1>1
  <2> HIDE DEF G
  <2>2. PICK g: Iterates(g, T, c, m, G)
    BY <1>1, <2>1, Recursion
  <2>3. ASSUME NEW n \in 0..m, n # 0 PROVE g[n] = Erased(g[n - 1])
    <3>1. n \in 1..m /\ n - 1 \in 0..m
      BY <1>1, <2>3
    <3>2. g[n - 1] \in T /\ g[n] = G[n][g[n - 1]]
      BY <2>2, <2>3, <3>1 DEF Iterates
    <3> QED BY <2>1, <3>1, <3>2
  <2> QED BY <2>2, <2>3 DEF Iterates
<1>4. g = [n \in 0..m |-> Value(g, n)]
  <2> HIDE DEF Value
  <2> QED BY <1>3
<1> DEFINE f == CHOOSE f: f = [n \in 0..m |-> Value(f, n)]
<1>5. f = [n \in 0..m |-> Value(f, n)]
  <2> HIDE DEF Value
  <2> QED BY <1>4
<1> HIDE DEF f
<1>6. \A n \in 0..m: f[n] = Value(f, n)
  <2> HIDE DEF Value
  <2> QED BY <1>5
<1> DEFINE M == {n \in Nat: n <= m => f[n] \in T}
<1>7. 0 \in M
  BY <1>1, <1>6
<1>8. ASSUME NEW n \in M PROVE n + 1 \in M
  <2> SUFFICES ASSUME n + 1 <= m PROVE f[n + 1] \in T
    OBVIOUS
  <2>1. n + 1 \in 0..m /\ n + 1 # 0 /\ (n + 1) - 1 = n /\ f[n] \in T
    BY <1>1
  <2> QED BY <1>1, <1>6, <2>1
<1>9. m \in M
  <2>1. M \in SUBSET Nat
    OBVIOUS
  <2> HIDE DEF M
  <2> QED BY <1>1, <1>7, <1>8, <2>1, Induction
<1>10. f[m] \in T
  BY <1>1, <1>9
<1> QED BY <1>2, <1>10 DEF f, T

\* What callers hold once the one who inserts e holds it.
Holding(c, held, e) == [f \in DOMAIN c.handles \cup {e} |-> IF f = e THEN 1 ELSE held[f]]
\* d has one entry more than c, of key k.
Extends(c, d, k) ==
  LET e == Len(c.handles) + 1
  IN /\ DOMAIN d.handles = DOMAIN c.handles \cup {e} /\ d.handles[e].key = k
     /\ \A f \in DOMAIN c.handles: d.handles[f].key = c.handles[f].key

\* One entry is allocated, and nothing else done.
Allocated(c, held, k, in, d) ==
  LET e == Len(c.handles) + 1
  IN /\ d \in ShardSet /\ Extends(c, d, k) /\ e \notin DOMAIN c.handles /\ e \in Nat
     /\ References(d, Holding(c, held, e))
     /\ d.handles[e].inCache = in
     /\ \A f \in DOMAIN c.handles: d.handles[f] = c.handles[f]
     /\ d.lru = c.lru /\ d.inUse = c.inUse /\ d.usage = c.usage
     /\ d.list = c.list /\ d.elems = c.elems
     /\ Charged(d.handles) = Charged(c.handles) + IF in THEN k.charge ELSE 0

LEMMA NewHandleRight ==
  ASSUME NEW c \in ShardSet, NEW held, References(c, held), NEW k \in CacheKeys, NEW in \in BOOLEAN,
         NEW r, r = 1 + IF in THEN 1 ELSE 0
  PROVE  Allocated(c, held, k, in, NewHandle(c, k, r, in))
<1> DEFINE e == Len(c.handles) + 1
           h == [key |-> k, refs |-> r, inCache |-> in, deletions |-> 0]
           d == NewHandle(c, k, r, in)
<1>1. c.handles \in Seq(HandleSet) /\ h \in HandleSet /\ r \in Nat /\ r # 0
  BY DEF ShardSet, HandleSet
<1>2. Append(c.handles, h) \in Seq(HandleSet) /\ DOMAIN Append(c.handles, h) = DOMAIN c.handles \cup {e}
      /\ Append(c.handles, h)[e] = h /\ e \notin DOMAIN c.handles /\ e \in Nat
      /\ \A f \in DOMAIN c.handles: Append(c.handles, h)[f] = c.handles[f]
  BY <1>1
<1>3. d = [c EXCEPT !.handles = Append(@, h)]
  BY DEF NewHandle
<1>4. Charged(Append(c.handles, h)) = Charged(c.handles) + Cost(h) /\ Cost(h) = IF in THEN k.charge ELSE 0
  BY <1>1, ChargedAppend DEF Cost
<1>5. h.key = k /\ h.inCache = in /\ h.refs = r /\ h.deletions = 0
  OBVIOUS
<1> HIDE DEF d, h
<1>6. d \in ShardSet /\ d.handles = Append(c.handles, h) /\ d.lru = c.lru /\ d.inUse = c.inUse
      /\ d.usage = c.usage /\ d.list = c.list /\ d.elems = c.elems
  BY <1>2, <1>3 DEF ShardSet
<1> HIDE DEF e
<1>7. References(d, Holding(c, held, e))
  BY <1>1, <1>2, <1>5, <1>6 DEF References, Holding
<1>8. Extends(c, d, k)
  BY <1>2, <1>5, <1>6 DEF Extends, e
<1> QED BY <1>2, <1>4, <1>5, <1>6, <1>7, <1>8 DEF Allocated, d, e

\* It is cached, and whatever had its key is not.
Entered(c, held, k, d) ==
  LET e == Len(c.handles) + 1
  IN /\ Sound(d, Holding(c, held, e)) /\ Extends(c, d, k)
     /\ \A f \in Cached(d): f = e \/ (f \in Cached(c) /\ c.handles[f].key # k)

\* The entry and its place in the hash table, before others make room for it.
LEMMA EnteredRight ==
  ASSUME NEW c, NEW held, Sound(c, held), NEW k \in CacheKeys
  PROVE  LET e == Len(c.handles) + 1
             added == [NewHandle(c, k, 2, TRUE) EXCEPT !.inUse = @ \cup {e}, !.usage = @ + k.charge]
         IN Entered(c, held, k, FinishErase(TableInsert(added, e), TableLookup(c, k)))
<1> DEFINE e == Len(c.handles) + 1
           g == Holding(c, held, e)
           x == NewHandle(c, k, 2, TRUE)
           a == [x EXCEPT !.inUse = @ \cup {e}, !.usage = @ + k.charge]
           y == TableInsert(a, e)
           o == TableLookup(c, k)
           d == FinishErase(y, o)
           S == Cached(c)
           R == (S \ Pointed(c, k)) \cup {e}
<1>1. c \in ShardSet /\ Table(c, S) /\ References(c, held) /\ Lists(c, held)
      /\ c.usage = Charged(c.handles) /\ k.charge \in Nat
  BY CacheAssumption DEF Sound
<1>2. /\ x \in ShardSet /\ Extends(c, x, k) /\ e \notin DOMAIN c.handles /\ e \in Nat
      /\ References(x, g) /\ x.handles[e].inCache = TRUE
      /\ \A f \in DOMAIN c.handles: x.handles[f] = c.handles[f]
      /\ x.lru = c.lru /\ x.inUse = c.inUse /\ x.usage = c.usage
      /\ x.list = c.list /\ x.elems = c.elems
      /\ Charged(x.handles) = Charged(c.handles) + k.charge
  <2> DEFINE in == TRUE
             r == 2
  <2>1. r = 1 + (IF in THEN 1 ELSE 0) /\ in \in BOOLEAN
    OBVIOUS
  <2> HIDE DEF in, r, x, g, e
  <2>2. Allocated(c, held, k, in, NewHandle(c, k, r, in))
    BY ONLY <1>1, <2>1, k \in CacheKeys, NewHandleRight
  <2>3. Allocated(c, held, k, TRUE, x)
    BY <2>2 DEF in, r, x
  <2> QED BY <2>3 DEF Allocated, e, g
<1>3. DOMAIN x.handles = DOMAIN c.handles \cup {e} /\ x.handles[e].key = k
      /\ g[e] = 1 /\ \A f \in DOMAIN c.handles: g[f] = held[f]
  BY <1>2 DEF Extends, Holding
<1> HIDE DEF x, e, g
<1>4. a \in ShardSet /\ a.handles = x.handles /\ a.lru = c.lru /\ a.inUse = c.inUse \cup {e}
      /\ a.usage = c.usage + k.charge /\ a.list = c.list /\ a.elems = c.elems
  <2>1. x.inUse \cup {e} \in SUBSET Nat /\ x.usage + k.charge \in Int
    BY <1>1, <1>2 DEF ShardSet
  <2> QED BY <1>2, <2>1 DEF ShardSet
<1> HIDE DEF a, S
<1>5. Cached(a) = S \cup {e}
  BY <1>2, <1>3, <1>4 DEF Cached, S
<1>6. References(a, g) /\ a.usage = Charged(a.handles)
  BY <1>1, <1>2, <1>4 DEF References
<1>7. Lists(a, g)
  <2>1. S \subseteq DOMAIN c.handles
    BY DEF S, Cached
  <2> QED BY <1>1, <1>2, <1>3, <1>4, <1>5, <2>1 DEF Lists, S
<1>8. Table(a, S) /\ e \in DOMAIN a.handles /\ e \notin S /\ a.handles[e].key = k
  <2>1. S \subseteq DOMAIN c.handles /\ \A f \in S: a.handles[f] = c.handles[f]
    BY <1>2, <1>4 DEF S, Cached
  <2> QED BY <1>1, <1>2, <1>3, <1>4, <2>1 DEF Table, KeysOnce, Chains
<1>9. Pointed(a, k) = Pointed(c, k)
  <2>1. Pointed(a, k) = {f \in S: a.handles[f].key = k} /\ Pointed(c, k) = {f \in S: c.handles[f].key = k}
    BY <1>1, <1>4, <1>8, PointedRight
  <2> QED BY <1>2, <1>4, <2>1 DEF S, Cached
<1>10. PICK l \in Seq(SUBSET Nat), n \in Int: y = [a EXCEPT !.list = l, !.elems = n] /\ Table(y, R)
  <2>1. \E l \in Seq(SUBSET Nat), n \in Int:
          /\ y = [a EXCEPT !.list = l, !.elems = n]
          /\ Table(y, (S \ Pointed(a, a.handles[e].key)) \cup {e})
    BY <1>4, <1>8, TableInsertRight
  <2>2. R = (S \ Pointed(a, a.handles[e].key)) \cup {e}
    BY <1>8, <1>9
  <2> HIDE DEF y, R
  <2> QED BY <2>1, <2>2
<1> HIDE DEF y
<1>11. y \in ShardSet /\ y.handles = a.handles /\ y.lru = a.lru /\ y.inUse = a.inUse /\ y.usage = a.usage
  BY <1>4, <1>10 DEF ShardSet
<1>12. References(y, g) /\ Lists(y, g) /\ Cached(y) = S \cup {e} /\ y.usage = Charged(y.handles)
  BY <1>5, <1>6, <1>7, <1>11 DEF References, Lists, Cached
<1>13. IF o = NoHandle THEN Pointed(c, k) = {} /\ \A f \in S: c.handles[f].key # k
      ELSE Pointed(c, k) = {o} /\ o \in S /\ c.handles[o].key = k
  BY <1>1, LookupRight
<1>14. Extends(c, y, k)
  BY <1>2, <1>4, <1>11 DEF Extends
<1> HIDE DEF o, d
<1>15. ASSUME o = NoHandle PROVE Entered(c, held, k, d)
  <2>1. d = y /\ R = S \cup {e}
    BY <1>13, <1>15 DEF FinishErase, d
  <2>2. Sound(d, g)
    BY <1>10, <1>11, <1>12, <2>1 DEF Sound
  <2>3. \A f \in Cached(d): f = e \/ (f \in Cached(c) /\ c.handles[f].key # k)
    BY <1>12, <1>13, <1>15, <2>1 DEF S
  <2>4. Extends(c, d, k)
    BY <1>14, <2>1
  <2> HIDE DEF R
  <2> QED BY ONLY <2>2, <2>3, <2>4 DEF Entered, e, g
<1>16. ASSUME o # NoHandle PROVE Entered(c, held, k, d)
  <2>1. o \in Cached(y) /\ R = (S \cup {e}) \ {o} /\ o # e
    BY <1>8, <1>12, <1>13, <1>16
  <2>2. /\ References(d, g) /\ Lists(d, g) /\ d.usage = Charged(d.handles)
        /\ \E h \in HandleSet: OneEntry(y, d, o, h) /\ ~h.inCache
    BY <1>11, <1>12, <2>1, FinishEraseRight DEF d
  <2>3. PICK h \in HandleSet: OneEntry(y, d, o, h) /\ ~h.inCache
    BY <2>2
  <2>4. o \in DOMAIN y.handles
    BY <2>1 DEF Cached
  <2>5. Table(d, R)
    <3> HIDE DEF R
    <3> QED BY <1>10, <1>11, <2>3, <2>4, TableStays
  <2>6. DOMAIN d.handles = DOMAIN y.handles /\ d.handles[o] = h /\ h.key = y.handles[o].key
        /\ \A f \in DOMAIN y.handles: f # o => d.handles[f] = y.handles[f]
    BY <1>11, <2>3, <2>4 DEF OneEntry, ShardSet
  <2>7. Cached(d) = (S \cup {e}) \ {o}
    BY <1>12, <2>3, <2>6 DEF Cached
  <2>8. Sound(d, g)
    BY <2>1, <2>2, <2>3, <2>5, <2>7 DEF Sound, OneEntry
  <2>9. Extends(c, d, k)
    <3>1. \A f \in DOMAIN y.handles: d.handles[f].key = y.handles[f].key
      BY <2>6
    <3>2. e \in DOMAIN y.handles /\ DOMAIN c.handles \subseteq DOMAIN y.handles
      BY <1>14 DEF Extends, e
    <3> QED BY <1>14, <2>6, <3>1, <3>2 DEF Extends, e
  <2>10. \A f \in S \ {o}: c.handles[f].key # k
    BY <1>1, <1>13, <1>16 DEF Table, KeysOnce
  <2>11. \A f \in Cached(d): f = e \/ (f \in Cached(c) /\ c.handles[f].key # k)
    BY <2>7, <2>10 DEF S
  <2> HIDE DEF R
  <2> QED BY ONLY <2>8, <2>9, <2>11 DEF Entered, e, g
<1>17. Entered(c, held, k, d)
  BY <1>15, <1>16
<1> QED BY <1>17 DEF d, y, a, o, x, e

LEMMA InsertedRight ==
  ASSUME NEW c, NEW held, Sound(c, held), NEW k \in CacheKeys
  PROVE  LET e == Len(c.handles) + 1
             d == Inserted(c, k)
         IN /\ Sound(d, Holding(c, held, e)) /\ Extends(c, d, k)
            /\ IF capacity = 0 THEN Cached(d) \subseteq Cached(c)
               ELSE \A f \in Cached(d): f = e \/ (f \in Cached(c) /\ c.handles[f].key # k)
<1> DEFINE e == Len(c.handles) + 1
           g == Holding(c, held, e)
           added == [NewHandle(c, k, 2, TRUE) EXCEPT !.inUse = @ \cup {e}, !.usage = @ + k.charge]
           x == IF capacity = 0 THEN NewHandle(c, k, 1, FALSE)
                ELSE FinishErase(TableInsert(added, e), TableLookup(c, k))
           d == Shrunk(x, FALSE)
<1>1. Inserted(c, k) = d
  BY DEF Inserted
<1>2. /\ Sound(x, g) /\ Extends(c, x, k)
      /\ IF capacity = 0 THEN Cached(x) \subseteq Cached(c)
         ELSE \A f \in Cached(x): f = e \/ (f \in Cached(c) /\ c.handles[f].key # k)
  <2>1. CASE capacity = 0
    <3> DEFINE y == NewHandle(c, k, 1, FALSE)
    <3>1. c \in ShardSet /\ Table(c, Cached(c)) /\ References(c, held) /\ Lists(c, held)
          /\ c.usage = Charged(c.handles)
      BY DEF Sound
    <3> DEFINE in == FALSE
               r == 1
    <3>2. r = 1 + (IF in THEN 1 ELSE 0) /\ in \in BOOLEAN
      OBVIOUS
    <3>3. /\ y \in ShardSet /\ Extends(c, y, k) /\ e \notin DOMAIN c.handles
          /\ References(y, g) /\ y.handles[e].inCache = FALSE
          /\ \A f \in DOMAIN c.handles: y.handles[f] = c.handles[f]
          /\ y.lru = c.lru /\ y.inUse = c.inUse /\ y.usage = c.usage
          /\ y.list = c.list /\ y.elems = c.elems
          /\ Charged(y.handles) = Charged(c.handles) + 0
      <4> HIDE DEF in, r, y, g, e
      <4>1. Allocated(c, held, k, in, NewHandle(c, k, r, in))
        BY ONLY <3>1, <3>2, k \in CacheKeys, NewHandleRight
      <4>2. Allocated(c, held, k, FALSE, y)
        BY <4>1 DEF in, r, y
      <4> QED BY <4>2 DEF Allocated, e, g
    <3>4. x = y
      BY <2>1
    <3> HIDE DEF y, x
    <3>5. Cached(y) = Cached(c)
      BY <3>3 DEF Extends, Cached
    <3>6. y.usage = Charged(y.handles)
      BY <3>1, <3>3 DEF ShardSet
    <3>7. \A f \in Cached(c): f \in DOMAIN c.handles /\ g[f] = held[f] /\ f \in DOMAIN y.handles
      BY <3>3 DEF Cached, Extends, Holding
    <3>8. Lists(y, g)
      BY <3>1, <3>3, <3>5, <3>7 DEF Lists
    <3>9. Table(y, Cached(y))
      BY <3>1, <3>3, <3>5, <3>7 DEF Table, KeysOnce, Chains
    <3>10. Sound(y, g)
      BY <3>3, <3>6, <3>8, <3>9 DEF Sound
    <3> QED BY <2>1, <3>3, <3>4, <3>5, <3>10
  <2>2. CASE capacity # 0
    <3>1. x = FinishErase(TableInsert(added, e), TableLookup(c, k))
      BY <2>2
    <3> HIDE DEF x
    <3>2. Entered(c, held, k, FinishErase(TableInsert(added, e), TableLookup(c, k)))
      BY EnteredRight
    <3> HIDE DEF added
    <3> QED BY <2>2, <3>1, <3>2 DEF Entered
  <2> QED BY <2>1, <2>2
<1> HIDE DEF x
<1>3. Sound(d, g) /\ Follows(x, d)
  BY <1>2, ShrunkRight
<1> HIDE DEF d
<1>4. Extends(c, d, k)
  BY <1>2, <1>3 DEF Extends, Follows
<1> QED BY <1>1, <1>2, <1>3, <1>4 DEF Follows

-----------------------------------------------------------------------------
(* What a lookup and a release do to the whole.                            *)

\* d caches the entries of c.
Keeps(c, d) ==
  /\ DOMAIN d.handles = DOMAIN c.handles /\ Cached(d) = Cached(c)
  /\ \A e \in DOMAIN c.handles: d.handles[e].key = c.handles[e].key

LEMMA EntrySound ==
  ASSUME NEW c, NEW held, Sound(c, held), NEW e \in DOMAIN c.handles, NEW d, NEW g,
         NEW h \in HandleSet, OneEntry(c, d, e, h), h.inCache = c.handles[e].inCache,
         References(d, g), Lists(d, g), d.usage = c.usage
  PROVE  Sound(d, g) /\ Keeps(c, d)
<1>1. c \in ShardSet /\ c.handles \in Seq(HandleSet) /\ Table(c, Cached(c)) /\ c.usage = Charged(c.handles)
  BY DEF Sound, ShardSet
<1>2. d \in ShardSet /\ d.handles = [c.handles EXCEPT ![e] = h] /\ h.key = c.handles[e].key
  BY DEF OneEntry
<1>3. /\ d.handles \in Seq(HandleSet) /\ DOMAIN d.handles = DOMAIN c.handles /\ d.handles[e] = h
      /\ \A f \in DOMAIN c.handles: f # e => d.handles[f] = c.handles[f]
  BY <1>1, <1>2, EntryUpdate
<1>4. Keeps(c, d)
  BY <1>2, <1>3 DEF Keeps, Cached
<1>5. Table(d, Cached(c))
  BY <1>1, TableStays
<1>6. Charged(d.handles) = Charged(c.handles)
  <2> DEFINE hs == c.handles
             gs == d.handles
  <2>1. Len(gs) = Len(hs) /\ e \in 1..Len(hs) /\ hs \in Seq(HandleSet) /\ gs \in Seq(HandleSet)
    BY <1>1, <1>3
  <2>2. \A i \in 1..Len(hs): i # e => Cost(gs[i]) = Cost(hs[i])
    BY <1>1, <1>3
  <2>3. Cost(gs[e]) = Cost(hs[e]) /\ hs[e] \in HandleSet
    BY <1>1, <1>2, <1>3 DEF Cost
  <2>4. Charged(hs) \in Int /\ Cost(hs[e]) \in Nat
    BY <1>1, <2>3, CostNat DEF ShardSet
  <2> HIDE DEF hs, gs
  <2>5. Charged(gs) = Charged(hs) + Cost(gs[e]) - Cost(hs[e])
    BY <2>1, <2>2, ChargedChange
  <2>6. Charged(gs) = Charged(hs)
    BY <2>3, <2>4, <2>5
  <2> QED BY <2>6 DEF hs, gs
<1> QED BY <1>1, <1>2, <1>4, <1>5, <1>6 DEF Sound, Keeps

LEMMA RefSound ==
  ASSUME NEW c, NEW held, Sound(c, held), NEW e \in Cached(c)
  PROVE  Sound(Ref(c, e), [held EXCEPT ![e] = @ + 1]) /\ Keeps(c, Ref(c, e))
<1> DEFINE d == Ref(c, e)
           g == [held EXCEPT ![e] = @ + 1]
<1>1. c \in ShardSet /\ References(c, held) /\ Lists(c, held) /\ e \in DOMAIN c.handles
      /\ c.handles[e].inCache
  BY DEF Sound, Cached
<1>2. References(d, g) /\ Lists(d, g) /\ d.usage = c.usage
      /\ \E h \in HandleSet: OneEntry(c, d, e, h) /\ h.inCache
  BY <1>1, RefRight
<1>3. PICK h \in HandleSet: OneEntry(c, d, e, h) /\ h.inCache
  BY <1>2
<1> HIDE DEF d, g
<1>4. h.inCache = c.handles[e].inCache
  BY <1>1, <1>3, HandleTypes DEF HandleSet
<1>5. Sound(d, g) /\ Keeps(c, d)
  BY <1>1, <1>2, <1>3, <1>4, EntrySound
<1> QED BY <1>5 DEF d, g

LEMMA UnrefSound ==
  ASSUME NEW c, NEW held, Sound(c, held), NEW e \in DOMAIN c.handles, held[e] > 0
  PROVE  Sound(Unref(c, e), [held EXCEPT ![e] = @ - 1]) /\ Keeps(c, Unref(c, e))
<1> DEFINE d == Unref(c, e)
           g == [held EXCEPT ![e] = @ - 1]
<1>1. c \in ShardSet /\ References(c, held) /\ Lists(c, held)
  BY DEF Sound
<1>2. References(d, g) /\ Lists(d, g) /\ d.usage = c.usage
      /\ \E h \in HandleSet: OneEntry(c, d, e, h) /\ h.inCache = c.handles[e].inCache
  BY <1>1, UnrefRight
<1>3. PICK h \in HandleSet: OneEntry(c, d, e, h) /\ h.inCache = c.handles[e].inCache
  BY <1>2
<1> HIDE DEF d, g
<1>4. Sound(d, g) /\ Keeps(c, d)
  BY <1>1, <1>2, <1>3, EntrySound
<1> QED BY <1>4 DEF d, g

-----------------------------------------------------------------------------
(* The threads and what they hold.                                         *)

Users(th, e) == {t \in Threads: th[t].handle = e}

LEMMA UsersFinite == \A th, e: IsFiniteSet(Users(th, e)) /\ Cardinality(Users(th, e)) \in Nat
<1>1. ASSUME NEW th, NEW e PROVE IsFiniteSet(Users(th, e)) /\ Cardinality(Users(th, e)) \in Nat
  <2>1. Users(th, e) \subseteq Threads /\ IsFiniteSet(Threads)
    BY CacheAssumption DEF Users
  <2> QED BY <2>1, FS_Subset, FS_CardinalityType
<1> QED BY <1>1

\* t takes up e, or puts it down.
LEMMA UsersChange ==
  ASSUME NEW th, NEW up, NEW t \in Threads, NEW e,
         \A u \in Threads: u # t => up[u].handle = th[u].handle
  PROVE  /\ up[t].handle = e /\ th[t].handle # e =>
              Cardinality(Users(up, e)) = Cardinality(Users(th, e)) + 1
         /\ th[t].handle = e /\ up[t].handle # e =>
              Cardinality(Users(up, e)) = Cardinality(Users(th, e)) - 1
              /\ Cardinality(Users(th, e)) > 0
         /\ up[t].handle # e /\ th[t].handle # e => Users(up, e) = Users(th, e)
<1>1. IsFiniteSet(Users(th, e)) /\ IsFiniteSet(Users(up, e))
      /\ Cardinality(Users(th, e)) \in Nat /\ Cardinality(Users(up, e)) \in Nat
  BY UsersFinite
<1>2. ASSUME up[t].handle = e, th[t].handle # e
      PROVE  Cardinality(Users(up, e)) = Cardinality(Users(th, e)) + 1
  <2>1. Users(up, e) = Users(th, e) \cup {t} /\ t \notin Users(th, e)
    BY <1>2 DEF Users
  <2> QED BY <1>1, <2>1, FS_AddElement
<1>3. ASSUME th[t].handle = e, up[t].handle # e
      PROVE  Cardinality(Users(th, e)) = Cardinality(Users(up, e)) + 1
  <2>1. Users(th, e) = Users(up, e) \cup {t} /\ t \notin Users(up, e)
    BY <1>3 DEF Users
  <2> QED BY <1>1, <2>1, FS_AddElement
<1>4. ASSUME up[t].handle # e, th[t].handle # e PROVE Users(up, e) = Users(th, e)
  BY <1>4 DEF Users
<1> QED BY <1>1, <1>2, <1>3, <1>4

HeldBy(hs, th) == [e \in DOMAIN hs |-> Cardinality(Users(th, e))]

\* A thread has a handle from the lookup, or insertion, to the release.
ThreadsRight(hs, th) ==
  /\ th \in [Threads -> [at: {"idle", "opening", "using"}, key: CacheKeys \cup {NoHandle},
                         handle: Nat \cup {NoHandle}]]
  /\ \A t \in Threads:
       /\ IF th[t].at = "using" THEN th[t].handle \in DOMAIN hs ELSE th[t].handle = NoHandle
       /\ th[t].at = "opening" => th[t].key \in CacheKeys

\* What is cached is what was inserted last, and nothing if there is no room.
LastCached(c, last, room) ==
  /\ \A e \in Cached(c): last[c.handles[e].key] = e
  /\ room = 0 => Cached(c) = {}

CacheOK(c, th, last, room, gone) ==
  /\ c \in ShardSet /\ References(c, HeldBy(c.handles, th)) /\ ThreadsRight(c.handles, th)
  /\ room \in Nat /\ last \in [CacheKeys -> Nat \cup {NoHandle}] /\ gone \in BOOLEAN
  /\ IF gone THEN \A t \in Threads: th[t].at = "idle"
     ELSE Sound(c, HeldBy(c.handles, th)) /\ LastCached(c, last, room)

CacheInv == CacheOK(Shard, thread, latest, capacity, closed)

LEMMA BecomesRight ==
  ASSUME NEW c \in ShardSet, Becomes(c)
  PROVE  Shard' = c
BY DEF Becomes, Shard, ShardSet

LEMMA ProtectedStays == UNCHANGED protected => Shard' = Shard
BY DEF protected, Shard

-----------------------------------------------------------------------------
(* The steps.                                                              *)

LEMMA CacheInitRight == CacheInit => CacheInv
<1> SUFFICES ASSUME CacheInit PROVE CacheInv
  OBVIOUS
<1> DEFINE c == Shard
<1>1. /\ c.handles = <<>> /\ c.lru = <<>> /\ c.inUse = {} /\ c.usage = 0 /\ c.elems = 0
      /\ c.list = [i \in 1..MinLength |-> {}] /\ MinLength \in Nat \ {0}
      /\ c = [handles |-> <<>>, lru |-> <<>>, inUse |-> {}, usage |-> 0, elems |-> 0, list |-> c.list]
  BY CacheAssumption DEF CacheInit, Shard
<1>2. c.list \in Seq(SUBSET Nat) /\ Len(c.list) = MinLength
  BY <1>1
<1>3. thread = [t \in Threads |-> Resting] /\ closed = FALSE /\ capacity \in Nat
      /\ latest \in [CacheKeys -> Nat \cup {NoHandle}]
  BY CacheAssumption DEF CacheInit
<1> HIDE DEF c
<1>4. c \in ShardSet
  <2>1. <<>> \in Seq(HandleSet) /\ <<>> \in Seq(Nat)
    OBVIOUS
  <2>2. [handles |-> <<>>, lru |-> <<>>, inUse |-> {}, usage |-> 0, elems |-> 0, list |-> c.list] \in ShardSet
    BY <1>2, <2>1 DEF ShardSet
  <2> QED BY ONLY <1>1, <2>2
<1>5. DOMAIN c.handles = {} /\ Cached(c) = {}
  BY <1>1 DEF Cached
<1>6. References(c, HeldBy(c.handles, thread))
  BY <1>5 DEF References, HeldBy
<1>7. ThreadsRight(c.handles, thread)
  BY <1>3 DEF ThreadsRight, Resting
<1>8. Sound(c, HeldBy(c.handles, thread))
  <2>1. Charged(c.handles) = 0
    <3>1. c.handles \in Seq(HandleSet) /\ Len(c.handles) = 0
      BY <1>1
    <3>2. PICK f: Sums(f, c.handles) /\ Charged(c.handles) = f[Len(c.handles)]
      BY <3>1, ChargedDefined
    <3> QED BY <3>1, <3>2 DEF Sums
  <2>2. Lists(c, HeldBy(c.handles, thread))
    BY <1>1, <1>5 DEF Lists, ToSet, IsInjective
  <2>3. Table(c, Cached(c))
    BY <1>1, <1>2, <1>5, FS_EmptySet DEF Table, KeysOnce, Chains
  <2> QED BY <1>1, <1>4, <1>6, <2>1, <2>2, <2>3 DEF Sound
<1> QED BY <1>3, <1>4, <1>5, <1>6, <1>7, <1>8 DEF CacheInv, CacheOK, LastCached, c

\* What is known of the state before a step.
LEMMA CacheParts ==
  ASSUME CacheInv
  PROVE  /\ Shard \in ShardSet /\ Shard.handles = handles
         /\ References(Shard, HeldBy(handles, thread)) /\ ThreadsRight(handles, thread)
         /\ capacity \in Nat /\ latest \in [CacheKeys -> Nat \cup {NoHandle}] /\ closed \in BOOLEAN
         /\ closed => \A t \in Threads: thread[t].at = "idle"
         /\ ~closed => Sound(Shard, HeldBy(handles, thread)) /\ LastCached(Shard, latest, capacity)
         /\ DOMAIN handles = 1..Len(handles) /\ Len(handles) \in Nat
<1>1. Shard.handles = handles
  BY DEF Shard
<1>2. Shard \in ShardSet
  BY DEF CacheInv, CacheOK
<1>3. DOMAIN handles = 1..Len(handles) /\ Len(handles) \in Nat
  BY <1>1, <1>2, HandleTypes
<1> QED BY <1>1, <1>2, <1>3 DEF CacheInv, CacheOK

\* A step of t, to what it may do.
Doing(hs, at, key, handle) ==
  /\ at \in {"idle", "opening", "using"}
  /\ key \in CacheKeys \cup {NoHandle} /\ (at = "opening" => key \in CacheKeys)
  /\ handle \in Nat \cup {NoHandle}
  /\ IF at = "using" THEN handle \in DOMAIN hs ELSE handle = NoHandle
ThreadGoes(th, up, t, at, key, handle) ==
  up = [th EXCEPT ![t] = [at |-> at, key |-> key, handle |-> handle]]

LEMMA ThreadChange ==
  ASSUME NEW hs, NEW th, ThreadsRight(hs, th), NEW gs, DOMAIN hs \subseteq DOMAIN gs,
         NEW t \in Threads, NEW at, NEW key, NEW handle, Doing(gs, at, key, handle),
         NEW up, ThreadGoes(th, up, t, at, key, handle)
  PROVE  /\ ThreadsRight(gs, up) /\ up[t].handle = handle /\ up[t].at = at
         /\ \A u \in Threads: u # t => up[u] = th[u]
<1>1. /\ up \in [Threads -> [at: {"idle", "opening", "using"}, key: CacheKeys \cup {NoHandle},
                             handle: Nat \cup {NoHandle}]]
      /\ up[t] = [at |-> at, key |-> key, handle |-> handle]
      /\ \A u \in Threads: u # t => up[u] = th[u]
  BY DEF ThreadsRight, ThreadGoes, Doing
<1> QED BY <1>1 DEF ThreadsRight, Doing

\* A step that leaves the entries and their users.
LEMMA HeldStays ==
  ASSUME NEW hs, NEW gs, DOMAIN gs = DOMAIN hs, NEW th, NEW up,
         \A t \in Threads: up[t].handle = th[t].handle
  PROVE  HeldBy(gs, up) = HeldBy(hs, th)
BY DEF HeldBy, Users

LEMMA LastKept ==
  ASSUME NEW c, NEW d, Follows(c, d), NEW last, NEW room, LastCached(c, last, room)
  PROVE  LastCached(d, last, room)
<1>1. Cached(d) \subseteq DOMAIN d.handles
  BY DEF Cached
<1> QED BY <1>1 DEF Follows, LastCached

LEMMA LookUpRight ==
  ASSUME CacheInv, NEW t \in Threads, NEW key \in CacheKeys, LookUp(t, key)
  PROVE  CacheInv'
<1> DEFINE c == Shard
           e == TableLookup(c, key)
           held == HeldBy(handles, thread)
<1>1. /\ c \in ShardSet /\ c.handles = handles /\ References(c, held) /\ ThreadsRight(handles, thread)
      /\ capacity \in Nat /\ latest \in [CacheKeys -> Nat \cup {NoHandle}] /\ closed = FALSE
      /\ Sound(c, held) /\ LastCached(c, latest, capacity)
  BY CacheParts DEF LookUp
<1>2. IF e = NoHandle THEN TRUE ELSE e \in Cached(c)
  BY <1>1, LookupRight DEF Sound
<1>3. thread[t].handle = NoHandle /\ UNCHANGED <<capacity, latest, closed>>
      /\ thread \in [Threads -> [at: {"idle", "opening", "using"}, key: CacheKeys \cup {NoHandle},
                                 handle: Nat \cup {NoHandle}]]
  BY <1>1 DEF ThreadsRight, LookUp
<1>4. CASE e = NoHandle
  <2>1. ThreadGoes(thread, thread', t, "opening", key, NoHandle) /\ Shard' = c
    BY <1>4, ProtectedStays DEF LookUp, Goes, ThreadGoes
  <2> HIDE DEF c, e
  <2>2. Doing(handles, "opening", key, NoHandle)
    BY DEF Doing
  <2>3. ThreadsRight(handles, thread') /\ \A u \in Threads: thread'[u].handle = thread[u].handle
    BY <1>1, <1>3, <2>1, <2>2, ThreadChange
  <2>4. HeldBy(handles, thread') = held
    BY <2>3, HeldStays
  <2> HIDE DEF held
  <2>5. CacheOK(c, thread', latest, capacity, closed)
    BY <1>1, <2>3, <2>4 DEF CacheOK
  <2> QED BY <1>3, <2>1, <2>5 DEF CacheInv
<1>5. CASE e # NoHandle
  <2> DEFINE d == Ref(c, e)
             g == [held EXCEPT ![e] = @ + 1]
  <2>1. ThreadGoes(thread, thread', t, "using", key, e) /\ Becomes(d)
    BY <1>5 DEF LookUp, Goes, ThreadGoes
  <2>2. e \in Cached(c) /\ e \in DOMAIN handles /\ e \in Nat
    BY <1>1, <1>2, <1>5, HandleTypes DEF Cached
  <2>3. Sound(d, g) /\ Keeps(c, d)
    BY <1>1, <2>2, RefSound
  <2>4. d \in ShardSet
    BY <2>3 DEF Sound
  <2> HIDE DEF c, d, e
  <2>5. Shard' = d
    BY <2>1, <2>4, BecomesRight
  <2>6. ThreadsRight(d.handles, thread') /\ thread'[t].handle = e
        /\ \A u \in Threads: u # t => thread'[u] = thread[u]
    <3>1. DOMAIN d.handles = DOMAIN handles
      BY <1>1, <2>3 DEF Keeps
    <3>2. Doing(d.handles, "using", key, e)
      BY <2>2, <3>1 DEF Doing
    <3> QED BY <1>1, <2>1, <3>1, <3>2, ThreadChange
  <2>7. HeldBy(d.handles, thread') = g
    <3>1. Cardinality(Users(thread', e)) = Cardinality(Users(thread, e)) + 1
      BY <1>3, <1>5, <2>6, UsersChange
    <3>2. ASSUME NEW f \in DOMAIN handles, f # e PROVE Users(thread', f) = Users(thread, f)
      <4>1. f \in Nat /\ f # NoHandle
        BY <1>1, HandleTypes, CacheAssumption
      <4>2. thread'[t].handle # f /\ thread[t].handle # f
            /\ \A u \in Threads: u # t => thread'[u].handle = thread[u].handle
        BY <1>3, <2>6, <3>2, <4>1
      <4> QED BY <4>2, UsersChange
    <3>3. DOMAIN d.handles = DOMAIN handles
      BY <1>1, <2>3 DEF Keeps
    <3> QED BY <2>2, <3>1, <3>2, <3>3 DEF HeldBy
  <2>8. LastCached(d, latest, capacity)
    BY <1>1, <2>3, LastKept DEF Keeps, Follows
  <2>9. References(d, g)
    BY <2>3 DEF Sound
  <2> HIDE DEF g, held
  <2>10. CacheOK(d, thread', latest, capacity, closed)
    BY <1>1, <2>3, <2>4, <2>6, <2>7, <2>8, <2>9 DEF CacheOK
  <2> QED BY <1>3, <2>5, <2>10 DEF CacheInv
<1> QED BY <1>4, <1>5

LEMMA InsertOpenedRight ==
  ASSUME CacheInv, NEW t \in Threads, InsertOpened(t)
  PROVE  CacheInv'
<1> DEFINE c == Shard
           held == HeldBy(handles, thread)
           k == thread[t].key
           e == Len(handles) + 1
           d == Inserted(c, k)
           g == Holding(c, held, e)
           last == [latest EXCEPT ![k] = IF capacity = 0 THEN NoHandle ELSE e]
<1>1. /\ c \in ShardSet /\ c.handles = handles /\ ThreadsRight(handles, thread)
      /\ capacity \in Nat /\ latest \in [CacheKeys -> Nat \cup {NoHandle}] /\ closed = FALSE
      /\ Sound(c, held) /\ LastCached(c, latest, capacity)
      /\ DOMAIN handles = 1..Len(handles) /\ Len(handles) \in Nat
  BY CacheParts DEF InsertOpened
<1>2. /\ Becomes(d) /\ ThreadGoes(thread, thread', t, "using", k, e) /\ latest' = last
      /\ capacity' = capacity /\ closed' = closed
  BY DEF InsertOpened, Goes, ThreadGoes
<1>3. k \in CacheKeys /\ thread[t].handle = NoHandle
  BY <1>1 DEF ThreadsRight, InsertOpened
<1>4. e \in Nat /\ e \notin DOMAIN handles
  BY <1>1
<1> HIDE DEF k
<1>5. /\ Sound(d, g) /\ Extends(c, d, k)
      /\ IF capacity = 0 THEN Cached(d) \subseteq Cached(c)
         ELSE \A f \in Cached(d): f = e \/ (f \in Cached(c) /\ c.handles[f].key # k)
  BY <1>1, <1>3, InsertedRight
<1>6. DOMAIN d.handles = DOMAIN handles \cup {e} /\ d.handles[e].key = k
      /\ \A f \in DOMAIN handles: d.handles[f].key = handles[f].key
  BY <1>1, <1>5 DEF Extends
<1>7. d \in ShardSet /\ References(d, g)
  BY <1>5 DEF Sound
<1> HIDE DEF d, e, c
<1>8. Shard' = d
  BY <1>2, <1>7, BecomesRight
<1>9. ThreadsRight(d.handles, thread') /\ thread'[t].handle = e
      /\ \A u \in Threads: u # t => thread'[u] = thread[u]
  <2>1. Doing(d.handles, "using", k, e)
    BY <1>3, <1>4, <1>6 DEF Doing
  <2> QED BY <1>1, <1>2, <1>6, <2>1, ThreadChange
<1>10. HeldBy(d.handles, thread') = g
  <2>1. \A u \in Threads: u # t => thread'[u].handle = thread[u].handle
    BY <1>9
  <2>2. Cardinality(Users(thread', e)) = 1
    <3>1. \A u \in Threads: thread[u].handle = NoHandle \/ thread[u].handle \in DOMAIN handles
      BY <1>1 DEF ThreadsRight
    <3>2. e # NoHandle
      BY <1>4, CacheAssumption
    <3>3. Users(thread', e) = {t}
      BY <1>4, <1>9, <2>1, <3>1, <3>2 DEF Users
    <3> QED BY <3>3, FS_Singleton
  <2>3. ASSUME NEW f \in DOMAIN handles PROVE Users(thread', f) = Users(thread, f)
    <3>1. f \in Nat /\ f # NoHandle /\ f # e
      BY <1>1, <1>4, CacheAssumption
    <3>2. thread'[t].handle # f /\ thread[t].handle # f
      BY <1>3, <1>9, <3>1
    <3> QED BY <2>1, <3>2, UsersChange
  <2>4. g = [f \in DOMAIN handles \cup {e} |-> IF f = e THEN 1 ELSE Cardinality(Users(thread, f))]
    BY <1>1 DEF Holding, HeldBy
  <2> HIDE DEF g
  <2> QED BY <1>6, <2>2, <2>3, <2>4 DEF HeldBy
<1>11. LastCached(d, last, capacity) /\ last \in [CacheKeys -> Nat \cup {NoHandle}]
  <2>1. last \in [CacheKeys -> Nat \cup {NoHandle}]
    BY <1>1, <1>3, <1>4
  <2>2. CASE capacity = 0
    BY <1>1, <1>5, <2>2 DEF LastCached
  <2>3. CASE capacity # 0
    <3>1. last[k] = e /\ \A j \in CacheKeys: j # k => last[j] = latest[j]
      BY <1>1, <1>3, <2>3
    <3>2. ASSUME NEW f \in Cached(d) PROVE last[d.handles[f].key] = f
      <4>1. CASE f = e
        BY <1>6, <3>1, <4>1
      <4>2. CASE f \in Cached(c) /\ c.handles[f].key # k
        <5>1. f \in DOMAIN handles /\ d.handles[f].key = c.handles[f].key /\ c.handles[f].key \in CacheKeys
          BY <1>1, <1>6, <4>2, HandleTypes DEF Cached
        <5> QED BY <1>1, <3>1, <4>2, <5>1 DEF LastCached
      <4> QED BY <1>5, <2>3, <4>1, <4>2
    <3> HIDE DEF last
    <3> QED BY <2>1, <2>3, <3>2 DEF LastCached
  <2> QED BY <2>1, <2>2, <2>3
<1> HIDE DEF g, last, held
<1>12. CacheOK(d, thread', last, capacity, closed)
  BY <1>1, <1>5, <1>7, <1>9, <1>10, <1>11 DEF CacheOK
<1> QED BY <1>2, <1>8, <1>12 DEF CacheInv

LEMMA NotInsertedRight ==
  ASSUME CacheInv, NEW t \in Threads, NotInserted(t)
  PROVE  CacheInv'
<1> DEFINE c == Shard
           held == HeldBy(handles, thread)
<1>1. /\ c \in ShardSet /\ c.handles = handles /\ References(c, held) /\ ThreadsRight(handles, thread)
      /\ capacity \in Nat /\ latest \in [CacheKeys -> Nat \cup {NoHandle}] /\ closed = FALSE
      /\ Sound(c, held) /\ LastCached(c, latest, capacity)
  BY CacheParts DEF NotInserted
<1>2. /\ ThreadGoes(thread, thread', t, "idle", NoHandle, NoHandle)
      /\ Shard' = c /\ UNCHANGED <<capacity, latest, closed>>
  BY ProtectedStays DEF NotInserted, Resting, ThreadGoes
<1>3. Doing(handles, "idle", NoHandle, NoHandle)
  BY DEF Doing
<1>4. thread[t].handle = NoHandle
  BY <1>1 DEF ThreadsRight, NotInserted
<1> HIDE DEF c
<1>5. ThreadsRight(handles, thread') /\ \A u \in Threads: thread'[u].handle = thread[u].handle
  BY <1>1, <1>2, <1>3, <1>4, ThreadChange
<1>6. HeldBy(handles, thread') = held
  BY <1>5, HeldStays
<1> HIDE DEF held
<1>7. CacheOK(c, thread', latest, capacity, closed)
  BY <1>1, <1>5, <1>6 DEF CacheOK
<1> QED BY <1>2, <1>7 DEF CacheInv

LEMMA ReleaseRight ==
  ASSUME CacheInv, NEW t \in Threads, Release(t)
  PROVE  CacheInv'
<1> DEFINE c == Shard
           held == HeldBy(handles, thread)
           e == thread[t].handle
           d == Unref(c, e)
           g == [held EXCEPT ![e] = @ - 1]
<1>1. /\ c \in ShardSet /\ c.handles = handles /\ ThreadsRight(handles, thread)
      /\ capacity \in Nat /\ latest \in [CacheKeys -> Nat \cup {NoHandle}] /\ closed = FALSE
      /\ Sound(c, held) /\ LastCached(c, latest, capacity)
      /\ DOMAIN handles = 1..Len(handles)
  BY CacheParts DEF Release
<1>2. /\ Becomes(d) /\ ThreadGoes(thread, thread', t, "idle", NoHandle, NoHandle)
      /\ UNCHANGED <<capacity, latest, closed>>
  BY DEF Release, Resting, ThreadGoes
<1>3. e \in DOMAIN handles /\ e # NoHandle
  BY <1>1, CacheAssumption DEF ThreadsRight, Release
<1>4. thread[t].handle = e
  OBVIOUS
<1> HIDE DEF c, e, d
<1>5. Doing(handles, "idle", NoHandle, NoHandle)
  BY DEF Doing
<1>6. ThreadsRight(handles, thread') /\ thread'[t].handle = NoHandle
      /\ \A u \in Threads: u # t => thread'[u] = thread[u]
  BY <1>1, <1>2, <1>5, ThreadChange
<1>7. \A u \in Threads: u # t => thread'[u].handle = thread[u].handle
  BY <1>6
<1>8. Cardinality(Users(thread', e)) = Cardinality(Users(thread, e)) - 1 /\ Cardinality(Users(thread, e)) > 0
  BY <1>3, <1>4, <1>6, <1>7, UsersChange
<1>9. held[e] > 0
  BY <1>3, <1>8 DEF HeldBy
<1>10. Sound(d, g) /\ Keeps(c, d)
  <2> HIDE DEF held
  <2> QED BY <1>1, <1>3, <1>9, UnrefSound DEF d
<1>11. d \in ShardSet /\ References(d, g) /\ DOMAIN d.handles = DOMAIN handles
  BY <1>1, <1>10 DEF Sound, Keeps
<1>12. Shard' = d
  BY <1>2, <1>11, BecomesRight
<1>13. HeldBy(d.handles, thread') = g
  <2>1. ASSUME NEW f \in DOMAIN handles, f # e PROVE Users(thread', f) = Users(thread, f)
    <3>1. f # NoHandle
      BY <1>1, CacheAssumption
    <3> QED BY <1>4, <1>6, <1>7, <2>1, <3>1, UsersChange
  <2> QED BY <1>3, <1>8, <1>11, <2>1 DEF HeldBy
<1>14. LastCached(d, latest, capacity)
  BY <1>1, <1>10, LastKept DEF Keeps, Follows
<1>15. ThreadsRight(d.handles, thread')
  BY <1>6, <1>11 DEF ThreadsRight
<1> HIDE DEF g, held
<1>16. CacheOK(d, thread', latest, capacity, closed)
  BY <1>1, <1>10, <1>11, <1>13, <1>14, <1>15 DEF CacheOK
<1> QED BY <1>2, <1>12, <1>16 DEF CacheInv

\* A step that only makes the cache hold less.
LEMMA FollowsRight ==
  ASSUME CacheInv, ~closed, NEW d, Becomes(d), Sound(d, HeldBy(handles, thread)), Follows(Shard, d),
         UNCHANGED <<capacity, thread, closed>>,
         latest' \in [CacheKeys -> Nat \cup {NoHandle}], LastCached(d, latest', capacity)
  PROVE  CacheInv'
<1> DEFINE c == Shard
<1>1. /\ c.handles = handles /\ ThreadsRight(handles, thread) /\ capacity \in Nat /\ closed = FALSE
  BY CacheParts
<1>2. d \in ShardSet /\ References(d, HeldBy(handles, thread)) /\ DOMAIN d.handles = DOMAIN handles
  BY <1>1 DEF Sound, Follows
<1>3. Shard' = d
  BY <1>2, BecomesRight
<1>4. HeldBy(d.handles, thread) = HeldBy(handles, thread)
  BY <1>2 DEF HeldBy
<1>5. ThreadsRight(d.handles, thread)
  BY <1>1, <1>2 DEF ThreadsRight
<1>6. CacheOK(d, thread, latest', capacity, closed)
  BY <1>1, <1>2, <1>4, <1>5 DEF CacheOK
<1> QED BY <1>3, <1>6 DEF CacheInv

LEMMA EraseRight ==
  ASSUME CacheInv, NEW key \in CacheKeys, Erase(key)
  PROVE  CacheInv'
<1> DEFINE c == Shard
           held == HeldBy(handles, thread)
           d == EraseKey(c, key)
<1>1. /\ c \in ShardSet /\ latest \in [CacheKeys -> Nat \cup {NoHandle}] /\ Sound(c, held)
      /\ LastCached(c, latest, capacity)
  BY CacheParts DEF Erase
<1>2. ~closed /\ Becomes(d) /\ latest' = [latest EXCEPT ![key] = NoHandle]
      /\ UNCHANGED <<capacity, thread, closed>>
  BY DEF Erase
<1>3. Sound(d, held) /\ Follows(c, d) /\ \A f \in Cached(d): c.handles[f].key # key
  BY <1>1, EraseKeyRight
<1> HIDE DEF c, d, held
<1>4. latest' \in [CacheKeys -> Nat \cup {NoHandle}]
  BY <1>1, <1>2
<1>5. LastCached(d, latest', capacity)
  <2>1. ASSUME NEW f \in Cached(d) PROVE latest'[d.handles[f].key] = f
    <3>1. f \in Cached(c) /\ f \in DOMAIN c.handles /\ d.handles[f].key = c.handles[f].key
          /\ c.handles[f].key \in CacheKeys /\ c.handles[f].key # key
      BY <1>1, <1>3, HandleTypes DEF Follows, Cached
    <3>2. latest[c.handles[f].key] = f
      BY <1>1, <3>1 DEF LastCached
    <3> QED BY <1>1, <1>2, <3>1, <3>2
  <2>2. capacity = 0 => Cached(d) = {}
    BY <1>1, <1>3 DEF LastCached, Follows
  <2> QED BY <2>1, <2>2 DEF LastCached
<1> QED BY <1>2, <1>3, <1>4, <1>5, FollowsRight DEF c, held

LEMMA PruneRight ==
  ASSUME CacheInv, Prune
  PROVE  CacheInv'
<1> DEFINE c == Shard
           held == HeldBy(handles, thread)
           d == Shrunk(c, TRUE)
<1>1. /\ latest \in [CacheKeys -> Nat \cup {NoHandle}] /\ Sound(c, held)
      /\ LastCached(c, latest, capacity)
  BY CacheParts DEF Prune
<1>2. ~closed /\ Becomes(d) /\ latest' = latest /\ UNCHANGED <<capacity, thread, closed>>
  BY DEF Prune
<1>3. Sound(d, held) /\ Follows(c, d)
  BY <1>1, ShrunkRight
<1> HIDE DEF c, d, held
<1>4. LastCached(d, latest', capacity)
  BY <1>1, <1>2, <1>3, LastKept
<1> QED BY <1>1, <1>2, <1>3, <1>4, FollowsRight DEF c, held

LEMMA CloseRight ==
  ASSUME CacheInv, Close
  PROVE  CacheInv'
<1> DEFINE c == Shard
           held == HeldBy(handles, thread)
           p(e) == [handles[e] EXCEPT !.inCache = FALSE]
           hs == [e \in DOMAIN handles |-> IF e \in ToSet(lru) THEN Dropped(p(e)) ELSE handles[e]]
           d == [c EXCEPT !.handles = hs]
<1>1. /\ c \in ShardSet /\ c.handles = handles /\ ThreadsRight(handles, thread) /\ capacity \in Nat
      /\ latest \in [CacheKeys -> Nat \cup {NoHandle}] /\ Sound(c, held)
      /\ DOMAIN handles = 1..Len(handles) /\ Len(handles) \in Nat /\ c.lru = lru
      /\ handles \in Seq(HandleSet)
  BY CacheParts DEF Close, Shard, ShardSet
<1>2. /\ closed' = TRUE /\ handles' = hs /\ \A t \in Threads: thread[t].at = "idle"
      /\ UNCHANGED <<capacity, lru, inUse, usage, elems, list, thread, latest>>
  BY DEF Close
<1>3. Shard' = d
  <2> HIDE DEF hs
  <2> QED BY <1>2 DEF Shard
<1>4. \A e \in DOMAIN handles: held[e] = 0
  <2>1. ASSUME NEW e \in DOMAIN handles PROVE Users(thread, e) = {}
    <3>1. e # NoHandle
      BY <1>1, CacheAssumption
    <3> QED BY <1>1, <1>2, <3>1 DEF Users, ThreadsRight
  <2> QED BY <2>1, FS_EmptySet DEF HeldBy
<1>5. References(c, held) /\ ToSet(lru) = {e \in Cached(c): held[e] = 0}
  BY <1>1 DEF Sound, Lists
<1>6. ToSet(lru) = Cached(c)
  <2> HIDE DEF held
  <2> QED BY <1>1, <1>4, <1>5 DEF Cached
<1>7. ASSUME NEW e \in DOMAIN handles
      PROVE  /\ hs[e] \in HandleSet /\ hs[e].refs = 0 /\ hs[e].inCache = FALSE /\ hs[e].deletions = 1
  <2> DEFINE h == handles[e]
  <2>1. h \in HandleSet /\ h.inCache \in BOOLEAN
        /\ h.refs = (IF h.inCache THEN 1 ELSE 0) /\ h.deletions = (IF h.refs = 0 THEN 1 ELSE 0)
    <3> HIDE DEF held
    <3> QED BY <1>1, <1>4, <1>5, HandleTypes DEF References
  <2>2. CASE e \in ToSet(lru)
    <3>1. hs[e] = Dropped(p(e))
      BY <2>2
    <3>2. h.inCache = TRUE /\ h.refs = 1 /\ h.deletions = 0
      BY <1>1, <1>6, <2>1, <2>2 DEF Cached
    <3> DEFINE q == p(e)
    <3> HIDE DEF h, hs
    <3>3. q = [h EXCEPT !.inCache = FALSE]
      BY DEF h
    <3> HIDE DEF q
    <3>4. q \in HandleSet /\ q.refs = 1 /\ q.deletions = 0 /\ q.inCache = FALSE
      BY <2>1, <3>2, <3>3 DEF HandleSet
    <3>5. Dropped(q) \in HandleSet /\ Dropped(q).refs = 0 /\ Dropped(q).inCache = FALSE /\ Dropped(q).deletions = 1
      BY <3>4, DroppedRight
    <3>6. hs[e] = Dropped(q)
      BY <3>1 DEF q
    <3> QED BY <3>5, <3>6
  <2>3. CASE e \notin ToSet(lru)
    <3>1. hs[e] = h
      BY <2>3
    <3>2. h.inCache = FALSE
      BY <1>1, <1>6, <2>1, <2>3 DEF Cached
    <3> HIDE DEF hs, h
    <3> QED BY <2>1, <3>1, <3>2
  <2> QED BY <2>2, <2>3
<1>8. DOMAIN hs = DOMAIN handles /\ hs = [e \in DOMAIN handles |-> hs[e]]
  OBVIOUS
<1> HIDE DEF hs
<1>9. hs \in Seq(HandleSet)
  <2>1. hs \in [1..Len(handles) -> HandleSet]
    BY <1>1, <1>7, <1>8
  <2> QED BY <1>1, <2>1
<1>10. d \in ShardSet /\ d.handles = hs
  BY <1>1, <1>9 DEF ShardSet
<1> HIDE DEF d, c
<1>11. HeldBy(hs, thread) = held
  BY <1>8 DEF HeldBy
<1>12. References(d, held)
  <2>1. held \in [DOMAIN hs -> Nat]
    BY <1>1, <1>5, <1>8 DEF References
  <2> HIDE DEF held
  <2>2. ASSUME NEW e \in DOMAIN d.handles
        PROVE  /\ d.handles[e].refs = held[e] + IF d.handles[e].inCache THEN 1 ELSE 0
               /\ d.handles[e].deletions = IF d.handles[e].refs = 0 THEN 1 ELSE 0
    <3>1. e \in DOMAIN handles /\ d.handles[e] = hs[e] /\ held[e] = 0
      BY <1>4, <1>8, <1>10
    <3>2. hs[e].refs = 0 /\ hs[e].inCache = FALSE /\ hs[e].deletions = 1
      BY <1>7, <3>1
    <3> QED BY ONLY <3>1, <3>2
  <2> QED BY <1>10, <2>1, <2>2 DEF References
<1>13. ThreadsRight(hs, thread)
  BY <1>1, <1>8 DEF ThreadsRight
<1> HIDE DEF held
<1>14. CacheOK(d, thread, latest, capacity, TRUE)
  BY <1>1, <1>2, <1>10, <1>11, <1>12, <1>13 DEF CacheOK
<1> QED BY <1>2, <1>3, <1>14 DEF CacheInv

-----------------------------------------------------------------------------
\* Whatever the threads do: references are counted, and while the cache is
\* there its lists, its charge and its hash table are those of the entries it
\* holds, each the last inserted of its key (cache.cc:50-353).
THEOREM CacheInvariant == CacheSpec => []CacheInv
<1>1. CacheInv /\ [CacheNext]_cacheVars => CacheInv'
  <2> SUFFICES ASSUME CacheInv, [CacheNext]_cacheVars PROVE CacheInv'
    OBVIOUS
  <2>1. CASE UNCHANGED cacheVars
    BY <2>1 DEF cacheVars, CacheInv, Shard
  <2>2. CASE CacheNext
    <3>1. ASSUME NEW t \in Threads, InsertOpened(t) PROVE CacheInv'
      BY <3>1, InsertOpenedRight
    <3>2. ASSUME NEW t \in Threads, NotInserted(t) PROVE CacheInv'
      BY <3>2, NotInsertedRight
    <3>3. ASSUME NEW t \in Threads, Release(t) PROVE CacheInv'
      BY <3>3, ReleaseRight
    <3>4. ASSUME NEW t \in Threads, NEW k \in CacheKeys, LookUp(t, k) PROVE CacheInv'
      BY <3>4, LookUpRight
    <3>5. ASSUME NEW k \in CacheKeys, Erase(k) PROVE CacheInv'
      BY <3>5, EraseRight
    <3> QED BY <2>2, <3>1, <3>2, <3>3, <3>4, <3>5, PruneRight, CloseRight DEF CacheNext
  <2> QED BY <2>1, <2>2
<1> QED BY CacheInitRight, <1>1, PTL DEF CacheSpec

LEMMA CountedRight == CacheInv => Counted
<1> SUFFICES ASSUME CacheInv, NEW e \in DOMAIN handles
             PROVE  /\ handles[e].refs = Cardinality(UsersOf(e)) + IF handles[e].inCache THEN 1 ELSE 0
                    /\ handles[e].deletions = IF handles[e].refs = 0 THEN 1 ELSE 0
  BY DEF Counted
<1>1. References(Shard, HeldBy(handles, thread)) /\ Shard.handles = handles
  BY CacheParts
<1>2. UsersOf(e) = Users(thread, e)
  BY DEF UsersOf, Users
<1> QED BY <1>1, <1>2 DEF References, HeldBy

LEMMA ListedRight == CacheInv => Listed
<1> SUFFICES ASSUME CacheInv, ~closed
    PROVE  /\ ToSet(lru) = {e \in InCache: UsersOf(e) = {}} /\ IsInjective(lru)
           /\ inUse = {e \in InCache: UsersOf(e) # {}}
           /\ usage = Charged(handles)
           /\ UNION ToSet(list) = InCache /\ elems = Cardinality(InCache) /\ elems <= Len(list)
           /\ \A e \in InCache: TableLookup(Shard, handles[e].key) = e
  BY DEF Listed
<1> DEFINE c == Shard
           held == HeldBy(handles, thread)
<1>1. /\ c.handles = handles /\ c.lru = lru /\ c.inUse = inUse /\ c.usage = usage /\ c.list = list
      /\ c.elems = elems
  BY DEF Shard
<1>2. c \in ShardSet /\ Sound(c, held)
  BY CacheParts
<1>3. Cached(c) = InCache
  BY <1>1 DEF Cached, InCache
<1> HIDE DEF c
<1>4. Lists(c, held) /\ Table(c, InCache) /\ c.usage = Charged(c.handles)
  BY <1>2, <1>3 DEF Sound
<1>5. \A e \in InCache: (UsersOf(e) = {}) <=> (held[e] = 0)
  <2>1. ASSUME NEW e \in InCache PROVE (UsersOf(e) = {}) <=> (held[e] = 0)
    <3>1. held[e] = Cardinality(Users(thread, e)) /\ UsersOf(e) = Users(thread, e)
      BY DEF HeldBy, InCache, UsersOf, Users
    <3> HIDE DEF held
    <3> QED BY <3>1, UsersFinite, FS_EmptySet
  <2> QED BY <2>1
<1> HIDE DEF held
<1>6. ToSet(lru) = {e \in InCache: UsersOf(e) = {}} /\ IsInjective(lru)
      /\ inUse = {e \in InCache: UsersOf(e) # {}}
  BY <1>1, <1>3, <1>4, <1>5 DEF Lists
<1>7. \A e \in InCache: c.handles[e].key \in CacheKeys /\ e \in DOMAIN c.handles
  BY <1>1, <1>2, HandleTypes DEF InCache
<1>8. UNION ToSet(list) = InCache
  <2>1. \A b \in DOMAIN c.list: c.list[b] = {e \in InCache: Bucket(c.list, c.handles[e].key) = b}
    BY <1>4 DEF Table, Chains
  <2>2. \A e \in InCache: Bucket(c.list, c.handles[e].key) \in DOMAIN c.list
    BY <1>2, <1>4, <1>7, PointedRight
  <2>3. ASSUME NEW e PROVE e \in UNION ToSet(list) <=> e \in InCache
    <3>1. e \in UNION ToSet(list) <=> \E b \in DOMAIN c.list: e \in c.list[b]
      BY <1>1 DEF ToSet
    <3> QED BY <2>1, <2>2, <3>1
  <2> QED BY <2>3
<1>9. \A e \in InCache: TableLookup(c, c.handles[e].key) = e
  <2>1. ASSUME NEW e \in InCache PROVE TableLookup(c, c.handles[e].key) = e
    <3> DEFINE k == c.handles[e].key
               f == TableLookup(c, k)
    <3>1. k \in CacheKeys
      BY <1>7
    <3>2. IF f = NoHandle THEN \A i \in InCache: c.handles[i].key # k
          ELSE f \in InCache /\ c.handles[f].key = k
      BY <1>2, <1>4, <3>1, LookupRight
    <3> QED BY <1>4, <3>2 DEF Table, KeysOnce
  <2> QED BY <2>1
<1> QED BY <1>1, <1>4, <1>6, <1>8, <1>9 DEF Table, c

LEMMA FreshRight == CacheInv => Fresh
<1> SUFFICES ASSUME CacheInv, ~closed, NEW k \in CacheKeys
             PROVE  TableLookup(Shard, k) \in {latest[k], NoHandle}
  BY DEF Fresh
<1> DEFINE c == Shard
           e == TableLookup(c, k)
<1>1. c \in ShardSet /\ Table(c, Cached(c)) /\ LastCached(c, latest, capacity)
  BY CacheParts DEF Sound
<1>2. e # NoHandle => e \in Cached(c) /\ c.handles[e].key = k
  BY <1>1, LookupRight
<1> HIDE DEF c, e
<1>3. e \in {latest[k], NoHandle}
  BY <1>1, <1>2 DEF LastCached
<1> QED BY <1>3 DEF c, e

\* Whatever two threads do between the lookup and the insertion of either,
\* cached tables and blocks are counted, listed and found as they should be
\* (cache.cc:217-334, table_cache.cc:45-75, table.cc:155-207).
THEOREM CacheCounts == CacheSpec => []CacheRight
<1>1. CacheInv => CacheRight
  BY CountedRight, ListedRight, FreshRight DEF CacheRight
<1> QED BY CacheInvariant, <1>1, PTL

===============================================================================

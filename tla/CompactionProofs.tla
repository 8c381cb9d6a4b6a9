--------------------------- MODULE CompactionProofs ---------------------------
(***************************************************************************)
(* Proofs about Compaction: every variable keeps its type; the levels stay *)
(* in order and reads find what was promised as long as no merge splits    *)
(* the entries of a key over two files; and without snapshots none does.   *)
(***************************************************************************)
EXTENDS Compaction, FiniteSetTheorems, SequenceTheorems, WellFoundedInduction, TLAPS

\* The client takes no snapshots.  APLevelDB, through which Firebase uses the engine,
\* calls neither GetSnapshot nor CompactRange, so that both hold for it.
NoSnapshots == \A s \in Scenarios: s.snapshots = 0
\* Ranges are compacted by hand only while no memtable is flushed in between.
ManualAlone == \A s \in Scenarios: s.nested => s.ranges = {}

-----------------------------------------------------------------------------
(* The invariant.                                                          *)

EntriesTo(n) == Keys \X (1..n) \X {"put", "delete"}
FilesTo(n, m) ==
  [number: 1..(m - 1), entries: SUBSET EntriesTo(n), smallest: EntriesTo(n), largest: EntriesTo(n)]

Distinct(entries) == \A e, x \in entries: e[2] = x[2] => e = x

Least(e, entries) == e \in entries /\ \A x \in entries: x = e \/ Before(e, x)
Greatest(e, entries) == e \in entries /\ \A x \in entries: x = e \/ Before(x, e)
FileRight(f) ==
  IsFiniteSet(f.entries) /\ Least(f.smallest, f.entries) /\ Greatest(f.largest, f.entries)

InFiles == UNION {f.entries : f \in UNION {levels[l] : l \in Levels}}
Stored == mem \cup InFiles

Counters ==
  /\ lastSeq \in Nat /\ nextFile \in Nat /\ nextFile > 0 /\ limits \in Scenarios
  /\ contents \in [Keys -> Nat \cup {None}]
  /\ snapshots \subseteq 0..lastSeq /\ IsFiniteSet(snapshots) /\ DOMAIN held = snapshots
  /\ DOMAIN pointer = Levels
MemRight == IsFiniteSet(mem) /\ mem \subseteq EntriesTo(lastSeq)
LevelsTyped == levels \in [Levels -> SUBSET FilesTo(lastSeq, nextFile)]
FilesRight == \A l \in Levels: IsFiniteSet(levels[l]) /\ \A f \in levels[l]: FileRight(f)
Numbered ==
  \A l, m \in Levels: \A f \in levels[l], g \in levels[m]: f.number = g.number => l = m /\ f = g
Placed ==
  /\ \A l \in Levels: \A f \in levels[l]: f.entries \cap mem = {}
  /\ \A l, m \in Levels: \A f \in levels[l], g \in levels[m]: f # g => f.entries \cap g.entries = {}
SeekRight ==
  seekFile # None =>
    seekFile[1] \in 0..(NumLevels - 2) /\ seekFile[2] \in levels[seekFile[1]]
ManualRight ==
  manual # None =>
    /\ manual.level \in 0..(NumLevels - 2) /\ manual.begin \in Nat /\ manual.end \in Nat
    /\ limits.ranges # {}

Ins(c) == UNION {f.entries : f \in c.in0 \cup c.in1}
Outs(c) == UNION {c.outputs[i] : i \in DOMAIN c.outputs}
\* Outputs that take apart what they keep.
Partition(outs, entries) ==
  /\ outs \in Seq(SUBSET entries) /\ {} \notin {outs[i] : i \in DOMAIN outs}
  /\ \A i, j \in DOMAIN outs: i # j => outs[i] \cap outs[j] = {}
CompTyped ==
  comp # None =>
    /\ comp.level \in 0..(NumLevels - 2)
    /\ comp.in0 \subseteq levels[comp.level] /\ comp.in0 # {}
    /\ comp.in1 \subseteq levels[comp.level + 1]
    /\ Partition(comp.outputs, Ins(comp))

Typed ==
  /\ Counters /\ MemRight /\ LevelsTyped /\ FilesRight /\ Numbered /\ Placed
  /\ Distinct(Stored) /\ SeekRight /\ ManualRight /\ CompTyped

-----------------------------------------------------------------------------
\* In user keys: f ends before g begins.
Left(f, g) == f.largest[1] < g.smallest[1]
KeysDisjoint ==
  \A l \in Levels \ {0}: \A f, g \in levels[l]: f # g => Left(f, g) \/ Left(g, f)

Newer(f, g) == \A e \in f.entries, x \in g.entries: e[1] = x[1] => e[2] > x[2]
MemNewest == \A e \in mem, x \in InFiles: e[1] = x[1] => e[2] > x[2]

\* f overlaps the range from the first to the last key of files, or k lies in it.
Meets(f, files) ==
  /\ \E g \in files: f.smallest[1] <= g.largest[1]
  /\ \E g \in files: g.smallest[1] <= f.largest[1]
Within(k, files) == (\E g \in files: k <= g.largest[1]) /\ (\E g \in files: g.smallest[1] <= k)
Gapless(files) == \A k \in Keys: Within(k, files) => \E f \in files: Touches(f, k, k)

\* Of one key the outputs hold entries in one file.
Apart(outs) == \A i, j \in DOMAIN outs: i < j => \A e \in outs[i], x \in outs[j]: e[1] < x[1]
KeysWhole == comp # None => Apart(comp.outputs)

Older(c, v) == \A f \in c.in0, g \in v[c.level] \ c.in0: Newer(g, f)
Clear(c, v) == \A g \in v[c.level + 1] \ c.in1: ~Meets(g, c.in0 \cup c.in1)

\* What is left out is hidden by an entry that all readers see, or is a deletion
\* that leaves nothing of its key behind.
LeftOut(c, v, t) ==
  \A e \in Ins(c) \ Outs(c):
    \/ \E x \in Ins(c): x[1] = e[1] /\ e[2] < x[2] /\ x[2] <= t
    \/ /\ e[3] = "delete" /\ e[2] <= t
       /\ \A x \in Outs(c): x[1] = e[1] => x[2] > e[2]
       /\ \A l \in (c.level + 2)..(NumLevels - 1): \A f \in v[l]: \A x \in f.entries: x[1] # e[1]
CompRight ==
  comp # None =>
    /\ Older(comp, levels) /\ Clear(comp, levels)
    /\ limits.nested => Gapless(comp.in0 \cup comp.in1)
    /\ \E t \in 0..lastSeq: (\A s \in snapshots: t <= s) /\ LeftOut(comp, levels, t)

ScanRight ==
  /\ \A k \in Keys: Scan(k, lastSeq) = contents[k]
  /\ \A s \in snapshots: \A k \in Keys: Scan(k, s) = held[s][k]

Ordered == KeysDisjoint /\ NewestAbove /\ MemNewest /\ CompRight /\ ScanRight
IInv == Typed /\ Ordered

-----------------------------------------------------------------------------
(* Numbers.                                                                *)

LEMMA LeastNat ==
  ASSUME NEW T \in SUBSET Nat, T # {}
  PROVE  \E x \in T : \A y \in T : x <= y
<1>1. IsWellFoundedOn(OpToRel(<, Nat), Nat)
  BY NatLessThanWellFounded
<1> DEFINE R == OpToRel(<, Nat)
<1>2. \A x, y \in Nat : <<x, y>> \in R <=> x < y
  BY DEF OpToRel
<1> HIDE DEF R
<1>3. \E x \in T : \A y \in T : ~(<<y, x>> \in R)
  BY <1>1, WFMin DEF R
<1>4. PICK x \in T : \A y \in T : <<y, x>> \notin R
  BY <1>3
<1>5. \A y \in T : ~(y < x)
  BY <1>2, <1>4
<1> QED BY <1>5

LEMMA Induction ==
  ASSUME NEW S \in SUBSET Nat, 0 \in S, \A n \in S : n + 1 \in S
  PROVE  S = Nat
<1> DEFINE T == Nat \ S
<1> SUFFICES ASSUME T # {} PROVE FALSE
  OBVIOUS
<1>1. PICK x \in T : \A y \in T : x <= y
  BY LeastNat
<1>2. x - 1 \in Nat /\ x - 1 \notin T
  BY <1>1
<1> QED BY <1>1, <1>2

LEMMA MinNat ==
  ASSUME NEW S \in SUBSET Nat, S # {}
  PROVE  Min(S) \in S /\ \A y \in S: Min(S) <= y
<1>1. \E x \in S : \A y \in S : x <= y
  BY LeastNat
<1> QED BY <1>1 DEF Min

LEMMA MaxNat ==
  ASSUME NEW S \in SUBSET Nat, S # {}, NEW b \in Nat, \A y \in S: y <= b
  PROVE  Max(S) \in S /\ \A y \in S: y <= Max(S)
<1> DEFINE T == {y \in 0..b: b - y \in S}
<1>1. T \in SUBSET Nat /\ T # {}
  <2>1. PICK y \in S: TRUE
    OBVIOUS
  <2>2. b - y \in T
    BY <2>1
  <2>3. T \in SUBSET Nat
    OBVIOUS
  <2> HIDE DEF T
  <2> QED BY <2>2, <2>3
<1>2. PICK x \in T: \A y \in T: x <= y
  BY <1>1, LeastNat
<1>3. b - x \in S /\ \A y \in S: y <= b - x
  <2>1. ASSUME NEW y \in S PROVE y <= b - x
    <3>1. b - y \in T
      OBVIOUS
    <3>2. x <= b - y /\ x \in Nat /\ y \in Nat
      <4> HIDE DEF T
      <4> QED BY <1>1, <1>2, <3>1
    <3> QED BY <3>2
  <2> QED BY <1>2, <2>1
<1>4. \E z \in S: \A y \in S: z >= y
  BY <1>3
<1>5. Max(S) \in S /\ \A y \in S: Max(S) >= y
  BY <1>4 DEF Max
<1> QED BY <1>5

-----------------------------------------------------------------------------
(* Finite sets in a strict total order.                                    *)

StrictOrder(S, below) ==
  /\ below \in [S -> SUBSET S]
  /\ \A x \in S: x \notin below[x]
  /\ \A x, y \in S: x # y => x \in below[y] \/ y \in below[x]
  /\ \A x, y \in S: x \in below[y] => below[x] \subseteq below[y]

\* r has in place i an element with i - 1 before it, if there is one.
Ranks(r, S, below) ==
  /\ r = [i \in 1..Cardinality(S) |-> r[i]]
  /\ \A i \in 1..Cardinality(S):
       (\E x \in S: Cardinality(below[x]) = i - 1) => r[i] \in S /\ Cardinality(below[r[i]]) = i - 1

\* A sequence that lists the elements of S.
Lists(s, S) == s \in [1..Cardinality(S) -> S] /\ \A x \in S: \E i \in 1..Cardinality(S): s[i] = x

LEMMA RankedLists ==
  ASSUME NEW S, IsFiniteSet(S), NEW below, StrictOrder(S, below), NEW r, Ranks(r, S, below)
  PROVE  /\ Lists(r, S)
         /\ \A i, j \in 1..Cardinality(S): i < j => r[i] \in below[r[j]]
<1> DEFINE n == Cardinality(S)
           rank == [x \in S |-> Cardinality(below[x])]
<1>1. n \in Nat
  BY FS_CardinalityType
<1>2. \A x \in S: IsFiniteSet(below[x]) /\ rank[x] \in Nat
  <2>1. ASSUME NEW x \in S PROVE IsFiniteSet(below[x]) /\ rank[x] \in Nat
    <3>1. below[x] \in SUBSET S
      BY DEF StrictOrder
    <3>2. IsFiniteSet(below[x])
      BY <3>1, FS_Subset
    <3> QED BY <3>2, FS_CardinalityType
  <2> QED BY <2>1
<1>3. ASSUME NEW x \in S, NEW y \in S, x \in below[y] PROVE rank[x] < rank[y]
  <2>1. below[x] \in SUBSET below[y] /\ x \notin below[x]
    BY <1>3 DEF StrictOrder
  <2>2. IsFiniteSet(below[y]) /\ below[x] # below[y]
    BY <1>2, <1>3, <2>1
  <2>3. Cardinality(below[x]) <= Cardinality(below[y]) /\ Cardinality(below[x]) # Cardinality(below[y])
    BY <2>1, <2>2, FS_Subset
  <2> QED BY <1>2, <2>3
<1>4. \A x \in S: rank[x] \in 0..(n - 1)
  <2>1. ASSUME NEW x \in S PROVE rank[x] \in 0..(n - 1)
    <3>1. below[x] \in SUBSET S /\ below[x] # S
      BY DEF StrictOrder
    <3>2. Cardinality(below[x]) <= n /\ Cardinality(below[x]) # n
      BY <3>1, FS_Subset
    <3> QED BY <1>1, <1>2, <3>2
  <2> QED BY <2>1
<1>5. rank \in Injection(S, 0..(n - 1))
  <2>1. rank \in [S -> 0..(n - 1)]
    BY <1>4
  <2>2. ASSUME NEW x \in S, NEW y \in S, x # y PROVE rank[x] # rank[y]
    <3>1. x \in below[y] \/ y \in below[x]
      BY <2>2 DEF StrictOrder
    <3>2. rank[x] < rank[y] \/ rank[y] < rank[x]
      BY <1>3, <3>1
    <3> QED BY <1>2, <3>2
  <2> HIDE DEF rank
  <2> QED BY <2>1, <2>2 DEF Injection, IsInjective
<1>6. rank \in Surjection(S, 0..(n - 1))
  <2>1. IsFiniteSet(0..(n - 1)) /\ Cardinality(0..(n - 1)) = n
    <3>1. 0 \in Int /\ n - 1 \in Int
      BY <1>1
    <3>2. Cardinality(0..(n - 1)) = IF 0 > n - 1 THEN 0 ELSE (n - 1) - 0 + 1
      BY <3>1, FS_Interval
    <3> QED BY <1>1, <3>1, <3>2, FS_Interval
  <2> HIDE DEF rank
  <2> QED BY <1>5, <2>1, FS_Injection
<1>7. ASSUME NEW i \in 1..n PROVE r[i] \in S /\ rank[r[i]] = i - 1
  <2>1. i - 1 \in 0..(n - 1)
    BY <1>1
  <2>2. PICK x \in S: rank[x] = i - 1
    <3> HIDE DEF rank
    <3> QED BY <1>6, <2>1 DEF Surjection
  <2>3. \E z \in S: Cardinality(below[z]) = i - 1
    BY <2>2
  <2> QED BY <2>3 DEF Ranks
<1>8. DOMAIN r = 1..n
  BY DEF Ranks
<1>9. ASSUME NEW x \in S PROVE \E i \in 1..n: r[i] = x
  <2>1. rank[x] + 1 \in 1..n
    BY <1>1, <1>4
  <2>2. r[rank[x] + 1] \in S /\ rank[r[rank[x] + 1]] = rank[x]
    BY <1>2, <1>7, <2>1
  <2>3. r[rank[x] + 1] = x
    <3> HIDE DEF rank
    <3> QED BY <1>5, <2>2 DEF Injection, IsInjective
  <2> QED BY <2>1, <2>3
<1>10. ASSUME NEW i \in 1..n, NEW j \in 1..n, i < j PROVE r[i] \in below[r[j]]
  <2>1. rank[r[i]] < rank[r[j]] /\ r[i] \in S /\ r[j] \in S
    BY <1>7, <1>10
  <2>2. r[i] # r[j] /\ ~(rank[r[j]] < rank[r[i]])
    BY <1>1, <1>7, <1>10, <2>1
  <2>3. r[i] \in below[r[j]] \/ r[j] \in below[r[i]]
    BY <2>1, <2>2 DEF StrictOrder
  <2> QED BY <1>3, <2>1, <2>2, <2>3
<1>11. r \in [1..n -> S]
  <2>1. r = [i \in 1..n |-> r[i]]
    BY DEF Ranks
  <2> QED BY <1>7, <2>1
<1> QED BY <1>9, <1>10, <1>11 DEF Lists

-----------------------------------------------------------------------------
(* Entries and files in their order.                                       *)

Entry == Keys \X Nat \X {"put", "delete"}

LEMMA KeysNat == Keys \in SUBSET Nat /\ MaxKey \in Nat /\ \A k \in Keys: k <= MaxKey /\ 1 <= k
  BY LevelsAssumption DEF Keys

LEMMA EntryParts ==
  \A e \in Entry: e[1] \in Keys /\ e[1] \in Nat /\ e[2] \in Nat /\ e[3] \in {"put", "delete"}
                  /\ e = <<e[1], e[2], e[3]>>
<1> SUFFICES ASSUME NEW e \in Entry
             PROVE  e[1] \in Keys /\ e[2] \in Nat /\ e[3] \in {"put", "delete"} /\ e = <<e[1], e[2], e[3]>>
  BY KeysNat
<1> QED BY DEF Entry

LEMMA BeforeOrder ==
  /\ \A e \in Entry: ~Before(e, e)
  /\ \A e, x \in Entry: e[2] # x[2] => Before(e, x) \/ Before(x, e)
  /\ \A e, x \in Entry: Before(e, x) => ~Before(x, e) /\ e[1] <= x[1]
  /\ \A e, x, y \in Entry: Before(e, x) /\ Before(x, y) => Before(e, y)
  BY EntryParts DEF Before

LEMMA SortedRight ==
  ASSUME NEW E \in SUBSET Entry, IsFiniteSet(E), Distinct(E)
  PROVE  /\ Lists(Sorted(E), E)
         /\ \A i, j \in 1..Cardinality(E): i < j => Before(Sorted(E)[i], Sorted(E)[j])
<1> DEFINE below == [x \in E |-> {y \in E: Before(y, x)}]
<1>1. StrictOrder(E, below)
  <2>1. \A x \in E: x \in Entry
    OBVIOUS
  <2>2. \A x, y \in E: x # y => Before(x, y) \/ Before(y, x)
    BY <2>1, BeforeOrder DEF Distinct
  <2>3. \A x, y, z \in E: Before(z, x) /\ Before(x, y) => Before(z, y)
    BY <2>1, BeforeOrder
  <2> QED BY <2>1, <2>2, <2>3, BeforeOrder DEF StrictOrder
<1>2. Ranks(Sorted(E), E, below)
  <2>1. \A x \in E: below[x] = {y \in E: Before(y, x)}
    OBVIOUS
  <2>2. Sorted(E) = [i \in 1..Cardinality(E) |-> Sorted(E)[i]]
    <3> DEFINE at(i) == CHOOSE x \in E: Cardinality({y \in E: Before(y, x)}) = i - 1
    <3>1. Sorted(E) = [i \in 1..Cardinality(E) |-> at(i)]
      BY DEF Sorted, Ranked
    <3> HIDE DEF at
    <3> QED BY <3>1
  <2>3. ASSUME NEW i \in 1..Cardinality(E), NEW x \in E, Cardinality(below[x]) = i - 1
        PROVE  Sorted(E)[i] \in E /\ Cardinality(below[Sorted(E)[i]]) = i - 1
    <3>1. Sorted(E)[i] = CHOOSE z \in E: Cardinality({y \in E: Before(y, z)}) = i - 1
      BY DEF Sorted, Ranked
    <3>2. Cardinality({y \in E: Before(y, x)}) = i - 1
      BY <2>1, <2>3
    <3>3. Sorted(E)[i] \in E /\ Cardinality({y \in E: Before(y, Sorted(E)[i])}) = i - 1
      BY <3>1, <3>2
    <3> QED BY <2>1, <3>3
  <2> HIDE DEF below
  <2> QED BY <2>2, <2>3 DEF Ranks
<1>3. \A x, y \in E: x \in below[y] => Before(x, y)
  OBVIOUS
<1> HIDE DEF below
<1>4. Lists(Sorted(E), E) /\ \A i, j \in 1..Cardinality(E): i < j => Sorted(E)[i] \in below[Sorted(E)[j]]
  BY <1>1, <1>2, RankedLists
<1>5. \A i \in 1..Cardinality(E): Sorted(E)[i] \in E
  BY <1>4 DEF Lists
<1> QED BY <1>3, <1>4, <1>5

LEMMA NotEmpty ==
  ASSUME NEW S, IsFiniteSet(S), S # {}
  PROVE  Cardinality(S) \in Nat /\ 1 <= Cardinality(S)
  BY FS_CardinalityType, FS_EmptySet

LEMMA Extremes ==
  ASSUME NEW E \in SUBSET Entry, IsFiniteSet(E), Distinct(E), E # {}
  PROVE  Least(First(E), E) /\ Greatest(Final(E), E)
<1> DEFINE n == Cardinality(E)
           s == Sorted(E)
<1>1. n \in Nat /\ 1 <= n
  BY NotEmpty
<1>2. Lists(s, E) /\ \A i, j \in 1..n: i < j => Before(s[i], s[j])
  BY SortedRight
<1> HIDE DEF s
<1>3. s[1] \in E /\ s[n] \in E
  BY <1>1, <1>2 DEF Lists
<1>4. ASSUME NEW x \in E PROVE (x = s[1] \/ Before(s[1], x)) /\ (x = s[n] \/ Before(x, s[n]))
  <2>1. PICK i \in 1..n: s[i] = x
    BY <1>2 DEF Lists
  <2>2. (i = 1 \/ 1 < i) /\ (i = n \/ i < n)
    BY <1>1, <2>1
  <2> QED BY <1>1, <1>2, <2>1, <2>2
<1>5. (\E e \in E: \A x \in E: x = e \/ Before(e, x)) /\ (\E e \in E: \A x \in E: x = e \/ Before(x, e))
  BY <1>3, <1>4
<1> QED BY <1>5 DEF First, Final, Least, Greatest

LEMMA FileMade ==
  ASSUME NEW E \in SUBSET Entry, IsFiniteSet(E), Distinct(E), E # {}, NEW number
  PROVE  /\ File(number, E).number = number /\ File(number, E).entries = E
         /\ File(number, E).smallest \in E /\ File(number, E).largest \in E
         /\ FileRight(File(number, E))
<1>1. Least(First(E), E) /\ Greatest(Final(E), E)
  BY Extremes
<1> QED BY <1>1 DEF File, FileRight, Least, Greatest

\* Files of which none begins or ends with an entry of another.
Files(F) ==
  /\ IsFiniteSet(F)
  /\ \A f \in F: /\ f.number \in Nat /\ f.smallest \in Entry /\ f.largest \in Entry
                 /\ f.smallest[1] <= f.largest[1]
  /\ \A f, g \in F: f # g => f.smallest[2] # g.smallest[2] /\ f.largest[2] # g.largest[2]

LEMMA FilesSubset ==
  ASSUME NEW F, Files(F), NEW G \in SUBSET F
  PROVE  Files(G)
<1>1. IsFiniteSet(G)
  BY FS_Subset DEF Files
<1> QED BY <1>1 DEF Files

LEMMA InOrderRight ==
  ASSUME NEW F, Files(F)
  PROVE  /\ Lists(InOrder(F), F)
         /\ \A i, j \in 1..Cardinality(F): i < j => FileBefore(InOrder(F)[i], InOrder(F)[j])
<1> DEFINE below == [x \in F |-> {y \in F: FileBefore(y, x)}]
<1>1. StrictOrder(F, below)
  <2>1. \A f \in F: f.smallest \in Entry
    BY DEF Files
  <2>2. \A f, g \in F: f # g => FileBefore(f, g) \/ FileBefore(g, f)
    BY <2>1, BeforeOrder DEF Files, FileBefore
  <2>3. \A f, g \in F: FileBefore(f, g) /\ f # g => Before(f.smallest, g.smallest)
    BY <2>1 DEF Files, FileBefore
  <2>4. \A f \in F: ~Before(f.smallest, f.smallest)
    BY <2>1, BeforeOrder
  <2>5. \A f \in F: ~FileBefore(f, f)
    BY <2>4 DEF Files, FileBefore
  <2>6. \A f, g, h \in F: FileBefore(f, g) /\ FileBefore(g, h) => FileBefore(f, h)
    <3>1. ASSUME NEW f \in F, NEW g \in F, NEW h \in F, FileBefore(f, g), FileBefore(g, h)
          PROVE  FileBefore(f, h)
      <4>1. f # g /\ g # h
        BY <2>5, <3>1
      <4>2. Before(f.smallest, g.smallest) /\ Before(g.smallest, h.smallest)
        BY <2>3, <3>1, <4>1
      <4>3. Before(f.smallest, h.smallest)
        BY <2>1, <4>2, BeforeOrder
      <4> QED BY <4>3 DEF FileBefore
    <3> QED BY <3>1
  <2> QED BY <2>2, <2>5, <2>6 DEF StrictOrder
<1>2. Ranks(InOrder(F), F, below)
  <2>1. \A x \in F: below[x] = {y \in F: FileBefore(y, x)}
    OBVIOUS
  <2>2. InOrder(F) = [i \in 1..Cardinality(F) |-> InOrder(F)[i]]
    <3> DEFINE at(i) == CHOOSE x \in F: Cardinality({y \in F: FileBefore(y, x)}) = i - 1
    <3>1. InOrder(F) = [i \in 1..Cardinality(F) |-> at(i)]
      BY DEF InOrder, Ranked
    <3> HIDE DEF at
    <3> QED BY <3>1
  <2>3. ASSUME NEW i \in 1..Cardinality(F), NEW x \in F, Cardinality(below[x]) = i - 1
        PROVE  InOrder(F)[i] \in F /\ Cardinality(below[InOrder(F)[i]]) = i - 1
    <3>1. InOrder(F)[i] = CHOOSE z \in F: Cardinality({y \in F: FileBefore(y, z)}) = i - 1
      BY DEF InOrder, Ranked
    <3>2. Cardinality({y \in F: FileBefore(y, x)}) = i - 1
      BY <2>1, <2>3
    <3>3. InOrder(F)[i] \in F /\ Cardinality({y \in F: FileBefore(y, InOrder(F)[i])}) = i - 1
      BY <3>1, <3>2
    <3> QED BY <2>1, <3>3
  <2> HIDE DEF below
  <2> QED BY <2>2, <2>3 DEF Ranks
<1>3. \A x, y \in F: x \in below[y] => FileBefore(x, y)
  OBVIOUS
<1>4. IsFiniteSet(F)
  BY DEF Files
<1> HIDE DEF below
<1>5. Lists(InOrder(F), F) /\ \A i, j \in 1..Cardinality(F): i < j => InOrder(F)[i] \in below[InOrder(F)[j]]
  BY <1>1, <1>2, <1>4, RankedLists
<1>6. \A i \in 1..Cardinality(F): InOrder(F)[i] \in F
  BY <1>5 DEF Lists
<1> QED BY <1>3, <1>5, <1>6

-----------------------------------------------------------------------------
(* Recursion, over numbers and over the subsets of a finite set.           *)

\* f iterates the functions G, beginning with a.
Iterates(f, T, a, G) ==
  f \in [Nat -> T] /\ \A n \in Nat: f[n] = IF n = 0 THEN a ELSE G[n][f[n - 1]]

\* A function defined by recursion on the natural numbers exists.
LEMMA Recursion ==
  ASSUME NEW T, NEW a \in T, NEW G \in [Nat -> [T -> T]]
  PROVE  \E f: Iterates(f, T, a, G)
<1> DEFINE Upto(g, n) ==
      /\ g \in [0..n -> T]
      /\ \A k \in 0..n : g[k] = IF k = 0 THEN a ELSE G[k][g[k - 1]]
    S == {n \in Nat : \E g : Upto(g, n)}
<1>1. 0 \in S
  <2>1. Upto([k \in 0..0 |-> a], 0)
    OBVIOUS
  <2> QED BY <2>1
<1>2. ASSUME NEW n \in S PROVE n + 1 \in S
  <2>1. PICK g : Upto(g, n)
    OBVIOUS
  <2> DEFINE h == [k \in 0..(n + 1) |-> IF k = n + 1 THEN G[k][g[n]] ELSE g[k]]
  <2>2. h \in [0..(n + 1) -> T]
    BY <2>1
  <2>3. \A k \in 0..(n + 1) : h[k] = IF k = 0 THEN a ELSE G[k][h[k - 1]]
    BY <2>1
  <2>4. Upto(h, n + 1)
    BY <2>2, <2>3
  <2>5. n + 1 \in Nat /\ \E f : Upto(f, n + 1)
    <3> HIDE DEF Upto
    <3> QED BY <2>4
  <2> QED BY <2>5
<1>3. S = Nat
  <2> HIDE DEF S
  <2> QED BY <1>1, <1>2, Induction DEF S
<1>4. ASSUME NEW n \in Nat, NEW g, Upto(g, n), NEW m \in Nat, NEW h, Upto(h, m)
      PROVE  \A k \in Nat : k <= n /\ k <= m => g[k] = h[k]
  <2> DEFINE E == {i \in Nat : i <= n /\ i <= m => g[i] = h[i]}
  <2>1. 0 \in E
    BY <1>4
  <2>2. ASSUME NEW i \in E PROVE i + 1 \in E
    <3> SUFFICES ASSUME i + 1 <= n, i + 1 <= m PROVE g[i + 1] = h[i + 1]
      OBVIOUS
    <3>1. g[i] = h[i]
      OBVIOUS
    <3>2. g[i + 1] = G[i+1][g[i]] /\ h[i + 1] = G[i+1][h[i]]
      BY <1>4
    <3> QED BY <3>1, <3>2
  <2>3. E \in SUBSET Nat
    OBVIOUS
  <2>4. E = Nat
    <3> HIDE DEF E
    <3> QED BY <2>1, <2>2, <2>3, Induction
  <2> QED BY <2>4
<1> DEFINE Upmost == [n \in Nat |-> CHOOSE g : Upto(g, n)]
           f == [n \in Nat |-> Upmost[n][n]]
<1>5. \A n \in Nat : Upto(Upmost[n], n)
  <2> HIDE DEF Upto
  <2> QED BY <1>3
<1> HIDE DEF Upmost, S
<1>6. \A n \in Nat : Upmost[n] \in [0..n -> T] /\ Upmost[n][n] \in T
  BY <1>5
<1>7. ASSUME NEW n \in Nat PROVE f[n] = IF n = 0 THEN a ELSE G[n][f[n - 1]]
  <2>1. CASE n = 0
    BY <1>5, <2>1
  <2>2. CASE n # 0
    <3>1. n - 1 \in Nat /\ n - 1 <= n /\ n - 1 <= n - 1
      BY <2>2
    <3>2. Upto(Upmost[n], n) /\ Upto(Upmost[n - 1], n - 1)
      BY <1>5, <3>1
    <3> DEFINE g == Upmost[n]
               h == Upmost[n - 1]
               m == n - 1
    <3>3. \A k \in Nat : k <= n /\ k <= m => g[k] = h[k]
      <4>1. Upto(g, n) /\ m \in Nat /\ Upto(h, m)
        BY <3>1, <3>2
      <4> HIDE DEF Upto, g, h, m
      <4> QED BY <4>1, <1>4
    <3>4. Upmost[n][n - 1] = Upmost[n - 1][n - 1]
      BY <3>1, <3>3
    <3>5. Upmost[n][n] = G[n][Upmost[n][n - 1]]
      BY <3>2, <2>2
    <3> QED BY <3>1, <3>4, <3>5, <2>2
  <2> QED BY <2>1, <2>2
<1>8. f \in [Nat -> T]
  BY <1>6
<1> HIDE DEF f
<1>9. Iterates(f, T, a, G)
  BY <1>7, <1>8 DEF Iterates
<1> QED BY <1>9

\* A fold: from a set the element c picks is taken away until nothing is left.
Folds(iter, D, c, T, a, G) ==
  /\ iter \in [SUBSET D -> T]
  /\ \A t \in SUBSET D: iter[t] = IF t = {} THEN a ELSE G[c[t]][iter[t \ {c[t]}]]

LEMMA SubsetRecursion ==
  ASSUME NEW D, IsFiniteSet(D), NEW c, \A t \in SUBSET D: t # {} => c[t] \in t,
         NEW T, NEW a \in T, NEW G \in [D -> [T -> T]]
  PROVE  \E iter: Folds(iter, D, c, T, a, G)
<1> DEFINE U == [SUBSET D -> T]
           next(g) == [t \in SUBSET D |-> IF t = {} THEN a ELSE G[c[t]][g[t \ {c[t]}]]]
           b == [t \in SUBSET D |-> a]
           H == [n \in Nat |-> [g \in U |-> next(g)]]
<1>1. \A g \in U: next(g) \in U
  <2>1. ASSUME NEW g \in U, NEW t \in SUBSET D, t # {} PROVE G[c[t]][g[t \ {c[t]}]] \in T
    <3>1. c[t] \in D /\ t \ {c[t]} \in SUBSET D
      BY <2>1
    <3> QED BY <3>1
  <2> QED BY <2>1
<1>2. b \in U
  OBVIOUS
<1> HIDE DEF U, next, b
<1>3. H \in [Nat -> [U -> U]] /\ \A n \in Nat: \A g \in U: H[n][g] = next(g)
  BY <1>1
<1> HIDE DEF H
<1>4. PICK f \in [Nat -> U]: \A n \in Nat: f[n] = IF n = 0 THEN b ELSE H[n][f[n - 1]]
  <2>1. b \in U /\ H \in [Nat -> [U -> U]]
    BY <1>2, <1>3
  <2>2. PICK f: Iterates(f, U, b, H)
    BY <2>1, Recursion
  <2> QED BY <2>2 DEF Iterates
<1>5. \A n \in Nat: f[n + 1] = next(f[n])
  <2>1. \A n \in Nat: n + 1 \in Nat /\ n + 1 # 0 /\ (n + 1) - 1 = n
    OBVIOUS
  <2> QED BY <1>3, <1>4, <2>1
<1> DEFINE S == {m \in Nat: \A t \in SUBSET D: Cardinality(t) <= m => f[m + 1][t] = f[m][t]}
<1>6. \A t \in SUBSET D: IsFiniteSet(t) /\ Cardinality(t) \in Nat
  <2>1. ASSUME NEW t \in SUBSET D PROVE IsFiniteSet(t)
    BY FS_Subset
  <2> QED BY <2>1, FS_CardinalityType
<1>7. 0 \in S
  <2>1. ASSUME NEW t \in SUBSET D, Cardinality(t) <= 0 PROVE t = {}
    BY <1>6, <2>1, FS_EmptySet
  <2>2. f[0 + 1] = next(f[0]) /\ f[0] = b /\ {} \in SUBSET D
    BY <1>4, <1>5
  <2>3. f[0 + 1][{}] = a /\ f[0][{}] = a
    BY <2>2 DEF next, b
  <2> QED BY <2>1, <2>3
<1>8. ASSUME NEW m \in S PROVE m + 1 \in S
  <2>1. m \in Nat /\ \A t \in SUBSET D: Cardinality(t) <= m => f[m + 1][t] = f[m][t]
    OBVIOUS
  <2>2. ASSUME NEW t \in SUBSET D, Cardinality(t) <= m + 1 PROVE f[(m + 1) + 1][t] = f[m + 1][t]
    <3>0. f[(m + 1) + 1] = next(f[m + 1]) /\ f[m + 1] = next(f[m])
      BY <1>5, <2>1
    <3>3. \A g: next(g)[t] = IF t = {} THEN a ELSE G[c[t]][g[t \ {c[t]}]]
      BY DEF next
    <3>1. CASE t = {}
      BY <3>0, <3>1, <3>3
    <3>2. CASE t # {}
      <4>1. c[t] \in t /\ t \ {c[t]} \in SUBSET D
        BY <3>2
      <4>2. Cardinality(t \ {c[t]}) = Cardinality(t) - 1
        BY <1>6, <4>1, FS_RemoveElement
      <4>3. Cardinality(t \ {c[t]}) <= m
        BY <1>6, <2>1, <2>2, <4>2
      <4>4. f[m + 1][t \ {c[t]}] = f[m][t \ {c[t]}]
        BY <2>1, <4>1, <4>3
      <4>5. f[(m + 1) + 1][t] = next(f[m + 1])[t] /\ f[m + 1][t] = next(f[m])[t]
        BY <3>0
      <4>6. next(f[m + 1])[t] = G[c[t]][f[m + 1][t \ {c[t]}]] /\ next(f[m])[t] = G[c[t]][f[m][t \ {c[t]}]]
        BY <3>2, <3>3
      <4> QED BY <4>4, <4>5, <4>6
    <3> QED BY <3>1, <3>2
  <2> QED BY <2>1, <2>2
<1>9. S = Nat
  <2>1. S \in SUBSET Nat
    OBVIOUS
  <2> HIDE DEF S
  <2> QED BY <1>7, <1>8, <2>1, Induction
<1>10. PICK N \in Nat: N = Cardinality(D)
  BY FS_CardinalityType
<1>11. \A t \in SUBSET D: f[N + 1][t] = f[N][t]
  <2>1. \A t \in SUBSET D: Cardinality(t) <= N
    BY <1>10, FS_Subset
  <2>2. N \in S
    BY <1>9
  <2> QED BY <2>1, <2>2
<1>12. f[N] \in U /\ f[N + 1] = next(f[N])
  BY <1>4, <1>5
<1>13. Folds(f[N], D, c, T, a, G)
  <2>1. \A t \in SUBSET D: next(f[N])[t] = IF t = {} THEN a ELSE G[c[t]][f[N][t \ {c[t]}]]
    BY DEF next
  <2> QED BY <1>11, <1>12, <2>1 DEF Folds, U
<1> QED BY <1>13

\* Two folds that go on alike are the same.
Alike(f, g, D, c) ==
  /\ f[{}] = g[{}]
  /\ \A t \in SUBSET D: t # {} => c[t] \in t
  /\ \A t \in SUBSET D: t # {} /\ f[t \ {c[t]}] = g[t \ {c[t]}] => f[t] = g[t]

LEMMA FoldsAgree ==
  ASSUME NEW D, IsFiniteSet(D), NEW c, NEW f, NEW g, Alike(f, g, D, c)
  PROVE  \A t \in SUBSET D: f[t] = g[t]
<1>0. /\ f[{}] = g[{}]
      /\ \A t \in SUBSET D: t # {} => c[t] \in t
      /\ \A t \in SUBSET D: t # {} /\ f[t \ {c[t]}] = g[t \ {c[t]}] => f[t] = g[t]
  BY DEF Alike
<1> DEFINE S == {m \in Nat: \A t \in SUBSET D: Cardinality(t) <= m => f[t] = g[t]}
<1>1. \A t \in SUBSET D: IsFiniteSet(t) /\ Cardinality(t) \in Nat
  <2>1. ASSUME NEW t \in SUBSET D PROVE IsFiniteSet(t)
    BY FS_Subset
  <2> QED BY <2>1, FS_CardinalityType
<1>2. 0 \in S
  <2>1. ASSUME NEW t \in SUBSET D, Cardinality(t) <= 0 PROVE t = {}
    BY <1>1, <2>1, FS_EmptySet
  <2> QED BY <1>0, <2>1
<1>3. ASSUME NEW m \in S PROVE m + 1 \in S
  <2>1. m \in Nat /\ \A t \in SUBSET D: Cardinality(t) <= m => f[t] = g[t]
    OBVIOUS
  <2>2. ASSUME NEW t \in SUBSET D, Cardinality(t) <= m + 1, t # {} PROVE f[t] = g[t]
    <3>1. c[t] \in t /\ t \ {c[t]} \in SUBSET D
      BY <1>0, <2>2
    <3>2. Cardinality(t \ {c[t]}) = Cardinality(t) - 1
      BY <1>1, <3>1, FS_RemoveElement
    <3>3. Cardinality(t \ {c[t]}) <= m
      BY <1>1, <2>1, <2>2, <3>2
    <3> QED BY <1>0, <2>1, <2>2, <3>1, <3>3
  <2>3. \A t \in SUBSET D: Cardinality(t) <= m + 1 => f[t] = g[t]
    BY <1>0, <2>2
  <2> QED BY <2>1, <2>3
<1>4. S = Nat
  <2>1. S \in SUBSET Nat
    OBVIOUS
  <2> HIDE DEF S
  <2> QED BY <1>2, <1>3, <2>1, Induction
<1>5. ASSUME NEW t \in SUBSET D PROVE f[t] = g[t]
  <2>1. Cardinality(t) \in S /\ Cardinality(t) \in Nat
    BY <1>1, <1>4
  <2> QED BY <2>1
<1> QED BY <1>5

LEMMA TotalFileSizeNat ==
  ASSUME NEW F, IsFiniteSet(F), \A f \in F: IsFiniteSet(f.entries)
  PROVE  /\ TotalFileSize(F) \in Nat
         /\ F = {} => TotalFileSize(F) = 0
<1> DEFINE c == [t \in SUBSET F |-> CHOOSE x \in t: TRUE]
           G == [f \in F |-> [n \in Nat |-> n + Cardinality(f.entries)]]
           value(iter, t) == IF t = {} THEN 0
                             ELSE iter[t \ {CHOOSE x \in t: TRUE}] + Cardinality((CHOOSE x \in t: TRUE).entries)
           P(iter) == iter = [t \in SUBSET F |-> value(iter, t)]
<1>1. \A f \in F: Cardinality(f.entries) \in Nat
  BY FS_CardinalityType
<1>2. \A t \in SUBSET F: c[t] = (CHOOSE x \in t: TRUE) /\ (t # {} => c[t] \in t)
  OBVIOUS
<1>3. G \in [F -> [Nat -> Nat]] /\ \A f \in F, n \in Nat: G[f][n] = n + Cardinality(f.entries)
  BY <1>1
<1> HIDE DEF G, c
<1>4. PICK iter: Folds(iter, F, c, Nat, 0, G)
  <2>1. PICK T: T = Nat
    OBVIOUS
  <2>2. 0 \in T /\ G \in [F -> [T -> T]]
    BY <1>3, <2>1
  <2>3. PICK iter: Folds(iter, F, c, T, 0, G)
    BY <1>2, <2>2, SubsetRecursion
  <2> QED BY <2>1, <2>3
<1>5. P(iter)
  <2>1. ASSUME NEW t \in SUBSET F PROVE iter[t] = value(iter, t)
    <3>1. CASE t = {}
      BY <1>4, <3>1 DEF Folds
    <3>2. CASE t # {}
      <4>1. c[t] \in F /\ t \ {c[t]} \in SUBSET F /\ iter[t \ {c[t]}] \in Nat
        BY <1>2, <1>4, <3>2 DEF Folds
      <4>2. iter[t] = G[c[t]][iter[t \ {c[t]}]]
        BY <1>4, <3>2 DEF Folds
      <4>3. iter[t] = iter[t \ {c[t]}] + Cardinality(c[t].entries)
        BY <1>3, <4>1, <4>2
      <4> QED BY <1>2, <3>2, <4>3
    <3> QED BY <3>1, <3>2
  <2> HIDE DEF value
  <2> QED BY <1>4, <2>1 DEF Folds
<1> DEFINE it == CHOOSE iter2: P(iter2)
<1>6. P(it)
  <2> HIDE DEF P
  <2> QED BY <1>5
<1>7. TotalFileSize(F) = it[F]
  BY DEF TotalFileSize, FoldSet, MapThenFoldSet
<1> HIDE DEF it
<1>8. \A t \in SUBSET F: it[t] = value(it, t) /\ iter[t] = value(iter, t)
  <2> HIDE DEF value
  <2> QED BY <1>5, <1>6
<1>9. \A t \in SUBSET F: it[t] = iter[t]
  <2>1. it[{}] = iter[{}]
    BY <1>8
  <2>2. ASSUME NEW t \in SUBSET F, t # {}, it[t \ {c[t]}] = iter[t \ {c[t]}] PROVE it[t] = iter[t]
    <3>1. it[t] = it[t \ {c[t]}] + Cardinality(c[t].entries)
      BY <1>2, <1>8, <2>2
    <3>2. iter[t] = iter[t \ {c[t]}] + Cardinality(c[t].entries)
      BY <1>2, <1>8, <2>2
    <3> QED BY <2>2, <3>1, <3>2
  <2>3. \A t \in SUBSET F: t # {} => c[t] \in t
    BY <1>2
  <2>4. \A t \in SUBSET F: t # {} /\ it[t \ {c[t]}] = iter[t \ {c[t]}] => it[t] = iter[t]
    BY <2>2
  <2>5. Alike(it, iter, F, c)
    BY <2>1, <2>3, <2>4 DEF Alike
  <2> QED BY <2>5, FoldsAgree
<1>10. it[F] = iter[F] /\ iter[F] \in Nat /\ iter[{}] = 0
  BY <1>4, <1>9 DEF Folds
<1> QED BY <1>7, <1>10

-----------------------------------------------------------------------------
(* The files that are chosen.                                              *)

\* The greatest of some places in a sequence, picked by FoldLeft.
LEMMA MaxPicks ==
  ASSUME NEW n \in Nat
  PROVE  /\ IsFiniteSet(1..n)
         /\ \A t \in SUBSET (1..n): t # {} => Max(t) \in t /\ \A i \in t: i <= Max(t)
<1>1. IsFiniteSet(1..n)
  BY FS_Interval
<1>2. ASSUME NEW t \in SUBSET (1..n), t # {} PROVE Max(t) \in t /\ \A i \in t: i <= Max(t)
  <2>1. t \in SUBSET Nat /\ \A i \in t: i <= n
    OBVIOUS
  <2> QED BY <1>2, <2>1, MaxNat
<1> QED BY <1>1, <1>2

Continues(X, f) == Before(Largest(X), f.smallest) /\ f.smallest[1] = Largest(X)[1]

LEMMA AddBoundary ==
  ASSUME NEW level, Files(levels[level]), NEW T \in SUBSET SUBSET levels[level], NEW chosen \in T,
         \A X \in T: \A f \in levels[level]: Continues(X, f) => X \cup {f} \in T
  PROVE  AddBoundaryInputs(level, chosen) \in T
<1> DEFINE s == InOrder(levels[level])
           n == Cardinality(levels[level])
           D == 1..n
           c == [t \in SUBSET D |-> Max(t)]
           step(X, f) == IF Continues(X, f) THEN X \cup {f} ELSE X
           G == [i \in D |-> [X \in T |-> step(X, s[i])]]
           value(iter, t) == IF t = {} THEN chosen ELSE step(iter[t \ {Max(t)}], s[Max(t)])
           P(iter) == iter = [t \in SUBSET D |-> value(iter, t)]
<1>1. Lists(s, levels[level])
  BY InOrderRight
<1>2. n \in Nat
  BY FS_CardinalityType DEF Files
<1>3. IsFiniteSet(D) /\ \A t \in SUBSET D: t # {} => c[t] \in t /\ c[t] = Max(t)
  BY <1>2, MaxPicks
<1>4. DOMAIN s = D /\ \A i \in D: s[i] \in levels[level]
  BY <1>1 DEF Lists
<1>5. \A X \in T, f \in levels[level]: step(X, f) \in T
  OBVIOUS
<1> HIDE DEF s, n, step
<1>6. G \in [D -> [T -> T]] /\ \A i \in D: \A X \in T: G[i][X] = step(X, s[i])
  BY <1>4, <1>5
<1> HIDE DEF G, c, D
<1>7. PICK iter: Folds(iter, D, c, T, chosen, G)
  BY <1>3, <1>6, SubsetRecursion
<1>8. P(iter)
  <2>1. ASSUME NEW t \in SUBSET D PROVE iter[t] = value(iter, t)
    <3>1. CASE t = {}
      BY <1>7, <3>1 DEF Folds
    <3>2. CASE t # {}
      <4>1. c[t] \in D /\ t \ {c[t]} \in SUBSET D /\ c[t] = Max(t)
        BY <1>3, <3>2
      <4>2. iter[t] = G[c[t]][iter[t \ {c[t]}]] /\ iter[t \ {c[t]}] \in T
        BY <1>7, <3>2, <4>1 DEF Folds
      <4>3. iter[t] = step(iter[t \ {c[t]}], s[c[t]])
        BY <1>6, <4>1, <4>2
      <4> QED BY <3>2, <4>1, <4>3
    <3> QED BY <3>1, <3>2
  <2> HIDE DEF value
  <2> QED BY <1>7, <2>1 DEF Folds
<1> DEFINE it == CHOOSE iter2: P(iter2)
<1>9. P(it)
  <2> HIDE DEF P
  <2> QED BY <1>8
<1>10. AddBoundaryInputs(level, chosen) = it[D]
  BY <1>4 DEF AddBoundaryInputs, FoldLeft, MapThenFoldSet, step, Continues, s
<1> HIDE DEF it
<1>11. \A t \in SUBSET D: it[t] = value(it, t) /\ iter[t] = value(iter, t)
  <2> HIDE DEF value
  <2> QED BY <1>8, <1>9
<1>12. Alike(it, iter, D, c)
  <2>1. it[{}] = iter[{}]
    BY <1>11
  <2>2. ASSUME NEW t \in SUBSET D, t # {}, it[t \ {c[t]}] = iter[t \ {c[t]}] PROVE it[t] = iter[t]
    <3>1. it[t] = step(it[t \ {c[t]}], s[c[t]])
      BY <1>3, <1>11, <2>2
    <3>2. iter[t] = step(iter[t \ {c[t]}], s[c[t]])
      BY <1>3, <1>11, <2>2
    <3> QED BY <2>2, <3>1, <3>2
  <2> HIDE DEF P
  <2> QED BY <1>3, <2>1, <2>2 DEF Alike
<1>13. it[D] = iter[D] /\ iter[D] \in T
  BY <1>3, <1>7, <1>12, FoldsAgree DEF Folds
<1> QED BY <1>10, <1>13

LEMMA Hull ==
  ASSUME NEW F, Files(F), F # {}
  PROVE  /\ \E g \in F: Smallest(F) = g.smallest
         /\ \E g \in F: Largest(F) = g.largest
         /\ \A f \in F: /\ Smallest(F)[1] <= f.smallest[1] /\ f.largest[1] <= Largest(F)[1]
                        /\ f.largest = Largest(F) \/ Before(f.largest, Largest(F))
<1> DEFINE S == {f.smallest : f \in F}
           L == {f.largest : f \in F}
<1>1. IsFiniteSet(S) /\ IsFiniteSet(L)
  <2>1. [f \in F |-> f.smallest] \in Surjection(F, S) /\ [f \in F |-> f.largest] \in Surjection(F, L)
    BY DEF Surjection
  <2>2. IsFiniteSet(F)
    BY DEF Files
  <2> HIDE DEF S, L
  <2> QED BY <2>1, <2>2, FS_Surjection
<1>2. S \in SUBSET Entry /\ L \in SUBSET Entry /\ S # {} /\ L # {} /\ Distinct(S) /\ Distinct(L)
  BY DEF Files, Distinct
<1>3. Least(First(S), S) /\ Greatest(Final(L), L)
  <2> HIDE DEF S, L
  <2> QED BY <1>1, <1>2, Extremes
<1>4. Smallest(F) = First(S) /\ Largest(F) = Final(L)
  BY DEF Smallest, Largest
<1>5. \A e \in S: Smallest(F) \in S /\ (e = Smallest(F) \/ Before(Smallest(F), e))
  BY <1>3, <1>4 DEF Least
<1>6. \A e \in L: Largest(F) \in L /\ (e = Largest(F) \/ Before(e, Largest(F)))
  BY <1>3, <1>4 DEF Greatest
<1>7. \A e \in S: Smallest(F)[1] <= e[1]
  BY <1>2, <1>5, BeforeOrder, EntryParts
<1>8. \A e \in L: e[1] <= Largest(F)[1]
  BY <1>2, <1>6, BeforeOrder, EntryParts
<1> QED BY <1>2, <1>5, <1>6, <1>7, <1>8

\* Below level 0 the files found overlap the range of those looked for.
LEMMA DeepOverlap ==
  ASSUME NEW level, level # 0, Files(levels[level]), NEW F, Files(F), F # {}
  PROVE  OverlappingRange(level, F) = {f \in levels[level]: Meets(f, F)}
<1>1. OverlappingRange(level, F) =
        {f \in levels[level]: f.smallest[1] <= Largest(F)[1] /\ f.largest[1] >= Smallest(F)[1]}
  BY DEF OverlappingRange, Overlapping, Touches
<1>2. PICK a \in F: Smallest(F) = a.smallest
  BY Hull
<1>3. PICK b \in F: Largest(F) = b.largest
  BY Hull
<1>4. ASSUME NEW f \in levels[level]
      PROVE  (f.smallest[1] <= Largest(F)[1] /\ f.largest[1] >= Smallest(F)[1]) <=> Meets(f, F)
  <2>1. f.smallest \in Entry /\ f.largest \in Entry
    BY DEF Files
  <2>2. \A g \in F: g.smallest \in Entry /\ g.largest \in Entry
                    /\ Smallest(F)[1] <= g.smallest[1] /\ g.largest[1] <= Largest(F)[1]
    BY Hull DEF Files
  <2> QED BY <1>2, <1>3, <2>1, <2>2, EntryParts DEF Meets
<1> QED BY <1>1, <1>4

\* The range that reaches as far as the files found in it.
Found(files, r) == {f \in files: Touches(f, r[1], r[2])}
Widened(files, r) ==
  <<Min({r[1]} \cup {f.smallest[1] : f \in Found(files, r)}),
    Max({r[2]} \cup {f.largest[1] : f \in Found(files, r)})>>

LEMMA WidenedRight ==
  ASSUME NEW F, Files(F), NEW r \in Nat \X Nat
  PROVE  /\ Widened(F, r) \in Nat \X Nat
         /\ Widened(F, r)[1] <= r[1] /\ r[2] <= Widened(F, r)[2]
         /\ \A f \in Found(F, r): Widened(F, r)[1] <= f.smallest[1] /\ f.largest[1] <= Widened(F, r)[2]
         /\ Widened(F, r)[1] = r[1] \/ \E f \in Found(F, r): Widened(F, r)[1] = f.smallest[1]
         /\ Widened(F, r)[2] = r[2] \/ \E f \in Found(F, r): Widened(F, r)[2] = f.largest[1]
<1> DEFINE S == {r[1]} \cup {f.smallest[1] : f \in Found(F, r)}
           L == {r[2]} \cup {f.largest[1] : f \in Found(F, r)}
<1>1. r[1] \in Nat /\ r[2] \in Nat
  OBVIOUS
<1>2. \A f \in Found(F, r): f.smallest[1] \in Nat /\ f.largest[1] \in Nat /\ f.largest[1] <= MaxKey
  BY EntryParts, KeysNat DEF Files, Found
<1>3. S \in SUBSET Nat /\ S # {} /\ L \in SUBSET Nat /\ L # {}
  BY <1>1, <1>2
<1>4. r[2] + MaxKey \in Nat /\ \A y \in L: y <= r[2] + MaxKey
  BY <1>1, <1>2, KeysNat
<1>5. Widened(F, r) = <<Min(S), Max(L)>>
  BY DEF Widened
<1>6. r[1] \in S /\ r[2] \in L /\ \A f \in Found(F, r): f.smallest[1] \in S /\ f.largest[1] \in L
  OBVIOUS
<1>7. /\ \A y \in S: y = r[1] \/ \E f \in Found(F, r): y = f.smallest[1]
      /\ \A y \in L: y = r[2] \/ \E f \in Found(F, r): y = f.largest[1]
  OBVIOUS
<1> HIDE DEF S, L
<1>8. Min(S) \in S /\ \A y \in S: Min(S) <= y
  BY <1>3, MinNat
<1>9. Max(L) \in L /\ \A y \in L: y <= Max(L)
  BY <1>3, <1>4, MaxNat
<1>10. Widened(F, r) \in Nat \X Nat /\ Widened(F, r)[1] = Min(S) /\ Widened(F, r)[2] = Max(L)
  <2>1. Min(S) \in Nat /\ Max(L) \in Nat
    BY <1>3, <1>8, <1>9
  <2> QED BY <1>5, <2>1
<1>11. Min(S) <= r[1] /\ r[2] <= Max(L) /\ \A f \in Found(F, r): Min(S) <= f.smallest[1] /\ f.largest[1] <= Max(L)
  BY <1>6, <1>8, <1>9
<1>12. /\ Min(S) = r[1] \/ \E f \in Found(F, r): Min(S) = f.smallest[1]
       /\ Max(L) = r[2] \/ \E f \in Found(F, r): Max(L) = f.largest[1]
  BY <1>7, <1>8, <1>9
<1> QED BY <1>10, <1>11, <1>12

\* The range a search of level 0 ends with.
Reaches(R, lo, hi, b, e) ==
  /\ lo \in Nat /\ hi \in Nat /\ lo <= b /\ e <= hi
  /\ R = {f \in levels[0]: Touches(f, lo, hi)}
  /\ \A f \in R: lo <= f.smallest[1] /\ f.largest[1] <= hi
  /\ \A k \in Nat: lo <= k /\ k <= hi => (b <= k /\ k <= e) \/ \E f \in R: Touches(f, k, k)

LEMMA WideOverlap ==
  ASSUME Files(levels[0]), NEW b \in Nat, NEW e \in Nat
  PROVE  \E lo, hi: Reaches(Overlapping(0, b, e), lo, hi, b, e)
<1> DEFINE F == levels[0]
           n == Cardinality(F)
           T == Nat \X Nat
           G == [i \in Nat |-> [r \in T |-> Widened(F, r)]]
           P(w) == w = [i \in Nat |-> IF i = 0 THEN <<b, e>> ELSE Widened(F, w[i - 1])]
           w == CHOOSE w: P(w)
<1>1. n \in Nat /\ IsFiniteSet(F)
  BY FS_CardinalityType DEF Files
<1>2. \A r \in T: Widened(F, r) \in T
  BY WidenedRight
<1>3. P(w)
  <2>1. <<b, e>> \in T
    OBVIOUS
  <2> HIDE DEF T, F
  <2>2. G \in [Nat -> [T -> T]] /\ \A i \in Nat: \A r \in T: G[i][r] = Widened(F, r)
    BY <1>2
  <2> HIDE DEF G
  <2>3. PICK v: Iterates(v, T, <<b, e>>, G)
    BY <2>1, <2>2, Recursion
  <2>4. ASSUME NEW i \in Nat PROVE v[i] = IF i = 0 THEN <<b, e>> ELSE Widened(F, v[i - 1])
    <3>1. CASE i = 0
      BY <2>3, <3>1 DEF Iterates
    <3>2. CASE i # 0
      <4>1. i - 1 \in Nat
        BY <3>2
      <4> QED BY <2>2, <2>3, <3>2, <4>1 DEF Iterates
    <3> QED BY <3>1, <3>2
  <2>5. P(v)
    BY <2>3, <2>4 DEF Iterates
  <2> HIDE DEF P
  <2> QED BY <2>5
<1>4. Overlapping(0, b, e) = Found(F, w[n])
  BY DEF Overlapping, Found, Widened
<1> HIDE DEF w, F, n
<1>5. w[0] = <<b, e>> /\ \A i \in Nat: w[i + 1] = Widened(F, w[i])
  <2>1. \A i \in Nat: w[i] = IF i = 0 THEN <<b, e>> ELSE Widened(F, w[i - 1])
    BY <1>3
  <2>2. \A i \in Nat: i + 1 \in Nat /\ i + 1 # 0 /\ (i + 1) - 1 = i
    OBVIOUS
  <2> QED BY <2>1, <2>2
<1> HIDE DEF P, G, T
<1> DEFINE found(i) == Found(F, w[i])
           covered(i, k) == (b <= k /\ k <= e) \/ \E f \in found(i): Touches(f, k, k)
           S == {i \in Nat: /\ w[i] \in Nat \X Nat /\ w[i][1] <= b /\ e <= w[i][2]
                            /\ \A k \in Nat: w[i][1] <= k /\ k <= w[i][2] => covered(i, k)}
<1>6. Files(F)
  BY DEF F
<1>7. \A f \in F: f.smallest[1] \in Nat /\ f.largest[1] \in Nat /\ f.smallest[1] <= f.largest[1]
  BY <1>6, EntryParts DEF Files
<1>8. 0 \in S
  BY <1>5
<1>9. ASSUME NEW i \in Nat, w[i] \in Nat \X Nat
      PROVE  /\ w[i + 1] \in Nat \X Nat /\ found(i) \subseteq found(i + 1)
             /\ w[i + 1][1] <= w[i][1] /\ w[i][2] <= w[i + 1][2]
             /\ \A f \in found(i): w[i + 1][1] <= f.smallest[1] /\ f.largest[1] <= w[i + 1][2]
             /\ w[i + 1][1] = w[i][1] \/ \E f \in found(i): w[i + 1][1] = f.smallest[1]
             /\ w[i + 1][2] = w[i][2] \/ \E f \in found(i): w[i + 1][2] = f.largest[1]
  <2>1. w[i + 1] = Widened(F, w[i])
    BY <1>5
  <2>2. /\ w[i + 1] \in Nat \X Nat
        /\ w[i + 1][1] <= w[i][1] /\ w[i][2] <= w[i + 1][2]
    BY <1>6, <1>9, <2>1, WidenedRight
  <2>3. w[i][1] \in Nat /\ w[i][2] \in Nat /\ w[i + 1][1] \in Nat /\ w[i + 1][2] \in Nat
    BY <1>9, <2>2
  <2>4. found(i) \subseteq found(i + 1)
    BY <1>7, <2>2, <2>3 DEF Found, Touches
  <2> QED BY <1>6, <1>9, <2>1, <2>2, <2>4, WidenedRight
<1>10. ASSUME NEW i \in S PROVE i + 1 \in S
  <2> DEFINE r == w[i]
             q == w[i + 1]
  <2>1. i \in Nat /\ r \in Nat \X Nat /\ r[1] \in Nat /\ r[2] \in Nat /\ r[1] <= b /\ e <= r[2]
    OBVIOUS
  <2>2. /\ q \in Nat \X Nat /\ q[1] \in Nat /\ q[2] \in Nat /\ q[1] <= r[1] /\ r[2] <= q[2]
        /\ found(i) \subseteq found(i + 1)
        /\ q[1] = r[1] \/ \E f \in found(i): q[1] = f.smallest[1]
        /\ q[2] = r[2] \/ \E f \in found(i): q[2] = f.largest[1]
    BY <1>9, <2>1
  <2>3. q[1] <= b /\ e <= q[2]
    BY <2>1, <2>2
  <2>4. ASSUME NEW k \in Nat, q[1] <= k, k <= q[2] PROVE covered(i + 1, k)
    <3>1. CASE r[1] <= k /\ k <= r[2]
      <4>1. covered(i, k)
        BY <3>1
      <4> QED BY <2>2, <4>1
    <3>2. CASE k < r[1]
      <4>1. PICK f \in found(i): q[1] = f.smallest[1]
        BY <2>1, <2>2, <2>4, <3>2
      <4>2. f.largest[1] >= r[1] /\ f \in F
        BY <4>1 DEF Found, Touches
      <4>3. Touches(f, k, k)
        BY <1>7, <2>1, <2>4, <3>2, <4>1, <4>2 DEF Touches
      <4> QED BY <2>2, <4>1, <4>3
    <3>3. CASE r[2] < k
      <4>1. PICK f \in found(i): q[2] = f.largest[1]
        BY <2>1, <2>2, <2>4, <3>3
      <4>2. f.smallest[1] <= r[2] /\ f \in F
        BY <4>1 DEF Found, Touches
      <4>3. Touches(f, k, k)
        BY <1>7, <2>1, <2>4, <3>3, <4>1, <4>2 DEF Touches
      <4> QED BY <2>2, <4>1, <4>3
    <3> QED BY <2>1, <3>1, <3>2, <3>3
  <2> QED BY <2>1, <2>2, <2>3, <2>4
<1>11. S = Nat
  <2>1. S \in SUBSET Nat
    OBVIOUS
  <2> HIDE DEF S
  <2> QED BY <1>8, <1>10, <2>1, Induction
<1>12. \A i \in Nat: /\ w[i] \in Nat \X Nat /\ w[i][1] <= b /\ e <= w[i][2]
                     /\ \A k \in Nat: w[i][1] <= k /\ k <= w[i][2] => covered(i, k)
  BY <1>11
<1> HIDE DEF S, covered
\* One more step finds no more: each before it found another file, or none did.
<1> DEFINE Q == {i \in Nat: Cardinality(found(i)) >= i \/ found(i + 1) = found(i)}
<1>13. \A i \in Nat: IsFiniteSet(found(i)) /\ Cardinality(found(i)) \in Nat /\ Cardinality(found(i)) <= n
  <2>1. ASSUME NEW i \in Nat PROVE IsFiniteSet(found(i)) /\ Cardinality(found(i)) <= n
    <3>1. found(i) \in SUBSET F
      BY DEF Found
    <3> QED BY <1>1, <3>1, FS_Subset DEF n
  <2> QED BY <2>1, FS_CardinalityType
<1>14. 0 \in Q
  BY <1>13
<1>15. ASSUME NEW i \in Q PROVE i + 1 \in Q
  <2>1. i \in Nat /\ i + 1 \in Nat /\ w[i] \in Nat \X Nat /\ w[i + 1] \in Nat \X Nat
    BY <1>12
  <2>2. CASE found(i + 1) = found(i)
    <3>1. w[(i + 1) + 1] = Widened(F, w[i + 1]) /\ w[i + 1] = Widened(F, w[i])
      BY <1>5, <2>1
    <3> DEFINE q == w[i + 1]
               p == w[(i + 1) + 1]
    <3>2. /\ \A f \in found(i + 1): q[1] <= f.smallest[1] /\ f.largest[1] <= q[2]
          /\ p[1] <= q[1] /\ q[2] <= p[2] /\ p \in Nat \X Nat
          /\ p[1] = q[1] \/ \E f \in found(i + 1): p[1] = f.smallest[1]
          /\ p[2] = q[2] \/ \E f \in found(i + 1): p[2] = f.largest[1]
      BY <1>9, <2>1, <2>2
    <3>3. p[1] = q[1] /\ p[2] = q[2]
      BY <2>1, <3>2
    <3>4. found((i + 1) + 1) = found(i + 1)
      BY <3>3 DEF Found
    <3> QED BY <2>1, <3>4
  <2>3. CASE found(i + 1) # found(i)
    <3>1. found(i) \in SUBSET found(i + 1)
      BY <1>9, <2>1
    <3>2. Cardinality(found(i)) <= Cardinality(found(i + 1)) /\ Cardinality(found(i)) # Cardinality(found(i + 1))
      BY <1>13, <2>1, <2>3, <3>1, FS_Subset
    <3> QED BY <1>13, <2>1, <2>3, <3>2
  <2> QED BY <2>2, <2>3
<1>16. n \in Q
  <2>1. Q \in SUBSET Nat
    OBVIOUS
  <2> HIDE DEF Q
  <2> QED BY <1>1, <1>14, <1>15, <2>1, Induction
<1>17. found(n + 1) = found(n)
  <2>1. w[n] \in Nat \X Nat /\ found(n) \subseteq found(n + 1)
    BY <1>1, <1>9, <1>12
  <2>2. CASE Cardinality(found(n)) >= n
    <3>1. found(n) \in SUBSET F /\ found(n + 1) \in SUBSET F
      BY DEF Found
    <3>2. Cardinality(found(n)) = n
      BY <1>1, <1>13, <2>2
    <3>3. found(n) = F
      BY <1>1, <3>1, <3>2, FS_Subset DEF n
    <3> QED BY <2>1, <3>1, <3>3
  <2> QED BY <1>16, <2>2
<1> DEFINE p == w[n + 1]
<1>18. p \in Nat \X Nat /\ p[1] \in Nat /\ p[2] \in Nat /\ p[1] <= b /\ e <= p[2]
  BY <1>1, <1>12
<1>19. \A f \in found(n): p[1] <= f.smallest[1] /\ f.largest[1] <= p[2]
  BY <1>1, <1>9, <1>12
<1>20. \A k \in Nat: p[1] <= k /\ k <= p[2] => covered(n + 1, k)
  BY <1>1, <1>12
<1>21. found(n) = {f \in levels[0]: Touches(f, p[1], p[2])}
  BY <1>17 DEF Found, F
<1>22. Reaches(found(n), p[1], p[2], b, e)
  <2> HIDE DEF p
  <2> QED BY <1>17, <1>18, <1>19, <1>20, <1>21 DEF Reaches, covered
<1> QED BY <1>4, <1>22

LEMMA LevelsNat ==
  /\ NumLevels \in Nat /\ NumLevels > 1 /\ 0 \in Levels /\ Levels \in SUBSET Nat
  /\ \A l \in 0..(NumLevels - 2): l \in Levels /\ l \in Nat /\ l + 1 \in Levels /\ l + 1 # 0
  BY LevelsAssumption DEF Levels

LEMMA EntriesToEntry ==
  ASSUME NEW n
  PROVE  EntriesTo(n) \subseteq Entry
<1> SUFFICES ASSUME NEW e \in EntriesTo(n) PROVE e \in Entry
  OBVIOUS
<1>1. 1..n \subseteq Nat
  OBVIOUS
<1> QED BY <1>1 DEF EntriesTo, Entry

LEMMA LevelFile ==
  ASSUME Typed, NEW l \in Levels, NEW f \in levels[l]
  PROVE  /\ f.number \in Nat /\ f.number > 0 /\ f.number < nextFile
         /\ f.entries \subseteq EntriesTo(lastSeq) /\ f.entries \subseteq Entry
         /\ f.entries \subseteq Stored /\ f.entries \subseteq InFiles
         /\ f.smallest \in f.entries /\ f.largest \in f.entries
         /\ IsFiniteSet(f.entries) /\ FileRight(f)
         /\ \A e \in f.entries: f.smallest[1] <= e[1] /\ e[1] <= f.largest[1]
<1>1. f \in FilesTo(lastSeq, nextFile)
  BY DEF Typed, LevelsTyped
<1>2. f.number \in 1..(nextFile - 1) /\ f.entries \in SUBSET EntriesTo(lastSeq)
  BY <1>1 DEF FilesTo
<1>3. FileRight(f)
  BY DEF Typed, FilesRight
<1>4. f.entries \subseteq Entry
  BY <1>2, EntriesToEntry
<1>5. f.entries \subseteq InFiles
  BY DEF InFiles
<1>6. f.smallest \in f.entries /\ f.largest \in f.entries /\ IsFiniteSet(f.entries)
  BY <1>3 DEF FileRight, Least, Greatest
<1>7. ASSUME NEW e \in f.entries PROVE f.smallest[1] <= e[1] /\ e[1] <= f.largest[1]
  <2>1. e \in Entry /\ f.smallest \in Entry /\ f.largest \in Entry
    BY <1>4, <1>6
  <2>2. (e = f.smallest \/ Before(f.smallest, e)) /\ (e = f.largest \/ Before(e, f.largest))
    BY <1>3 DEF FileRight, Least, Greatest
  <2> QED BY <2>1, <2>2, BeforeOrder, EntryParts
<1> QED BY <1>2, <1>3, <1>4, <1>5, <1>6, <1>7 DEF Stored, Typed, Counters

LEMMA LevelFiles ==
  ASSUME Typed, NEW l \in Levels, NEW m \in Levels
  PROVE  Files(levels[l] \cup levels[m])
<1> DEFINE F == levels[l] \cup levels[m]
<1>1. IsFiniteSet(F)
  BY FS_Union DEF Typed, FilesRight
<1>2. \A f \in F: /\ f.number \in Nat /\ f.smallest \in Entry /\ f.largest \in Entry
                  /\ f.smallest[1] <= f.largest[1]
  BY LevelFile
<1>3. ASSUME NEW f \in F, NEW g \in F, f # g
      PROVE  f.smallest[2] # g.smallest[2] /\ f.largest[2] # g.largest[2]
  <2>1. f.entries \cap g.entries = {}
    BY <1>3 DEF Typed, Placed
  <2>2. f.smallest \in f.entries /\ f.largest \in f.entries /\ g.smallest \in g.entries /\ g.largest \in g.entries
        /\ f.entries \subseteq Stored /\ g.entries \subseteq Stored
    BY LevelFile
  <2> QED BY <2>1, <2>2 DEF Typed, Distinct
<1> QED BY <1>1, <1>2, <1>3 DEF Files

LEMMA LevelFilesOne ==
  ASSUME Typed, NEW l \in Levels
  PROVE  Files(levels[l])
<1>1. levels[l] \cup levels[l] = levels[l]
  OBVIOUS
<1> QED BY <1>1, LevelFiles

LEMMA FileKeys ==
  ASSUME NEW F, Files(F)
  PROVE  \A f \in F: /\ f.smallest[1] \in Nat /\ f.largest[1] \in Nat /\ f.smallest[1] <= f.largest[1]
                     /\ f.smallest[1] \in Keys /\ f.largest[1] \in Keys
  BY EntryParts DEF Files

\* What a search of one level finds for the range of some files.
Closed(R) == \A g \in levels[0] \ R: ~Meets(g, R)

LEMMA GaplessMore ==
  ASSUME NEW Y, Files(Y), NEW R, Files(R), Gapless(Y), \A f \in R: Meets(f, Y)
  PROVE  Gapless(Y \cup R)
<1> SUFFICES ASSUME NEW k \in Keys, Within(k, Y \cup R) PROVE \E f \in Y \cup R: Touches(f, k, k)
  BY DEF Gapless
<1>1. /\ \A f \in Y: f.smallest[1] \in Nat /\ f.largest[1] \in Nat
      /\ \A f \in R: f.smallest[1] \in Nat /\ f.largest[1] \in Nat
      /\ k \in Nat
  BY FileKeys, KeysNat
<1>2. CASE Within(k, Y)
  BY <1>2 DEF Gapless
<1>3. CASE ~\E g \in Y: k <= g.largest[1]
  <2>1. PICK f \in R: k <= f.largest[1]
    BY <1>3 DEF Within
  <2>2. PICK g \in Y: f.smallest[1] <= g.largest[1]
    BY DEF Meets
  <2>3. ~(k <= g.largest[1])
    BY <1>3
  <2> QED BY <1>1, <2>1, <2>2, <2>3 DEF Touches
<1>4. CASE ~\E g \in Y: g.smallest[1] <= k
  <2>1. PICK f \in R: f.smallest[1] <= k
    BY <1>4 DEF Within
  <2>2. PICK g \in Y: g.smallest[1] <= f.largest[1]
    BY DEF Meets
  <2>3. ~(g.smallest[1] <= k)
    BY <1>4
  <2> QED BY <1>1, <2>1, <2>2, <2>3 DEF Touches
<1> QED BY <1>2, <1>3, <1>4 DEF Within

LEMMA WideClosed ==
  ASSUME Files(levels[0]), NEW R, NEW lo, NEW hi, NEW b, NEW e, Reaches(R, lo, hi, b, e)
  PROVE  R \subseteq levels[0] /\ Closed(R)
<1>1. R = {f \in levels[0]: Touches(f, lo, hi)} /\ lo \in Nat /\ hi \in Nat
      /\ \A f \in R: lo <= f.smallest[1] /\ f.largest[1] <= hi
  BY DEF Reaches
<1>2. ASSUME NEW g \in levels[0] \ R, Meets(g, R) PROVE FALSE
  <2>1. PICK f \in R: g.smallest[1] <= f.largest[1]
    BY <1>2 DEF Meets
  <2>2. PICK h \in R: h.smallest[1] <= g.largest[1]
    BY <1>2 DEF Meets
  <2>3. g.smallest[1] \in Nat /\ g.largest[1] \in Nat /\ f.largest[1] \in Nat /\ h.smallest[1] \in Nat
    BY <1>1, FileKeys
  <2>4. Touches(g, lo, hi)
    BY <1>1, <2>1, <2>2, <2>3 DEF Touches
  <2> QED BY <1>1, <1>2, <2>4
<1> QED BY <1>1, <1>2 DEF Closed

LEMMA OverlapRight ==
  ASSUME Typed, NEW level \in 0..(NumLevels - 2),
         NEW Y \in SUBSET (levels[level] \cup levels[level + 1]), Y # {}
  PROVE  LET R == OverlappingRange(level, Y)
         IN /\ R \subseteq levels[level] /\ Y \cap levels[level] \subseteq R
            /\ level = 0 => Closed(R)
            /\ Gapless(Y) => Gapless(Y \cup R)
<1> DEFINE R == OverlappingRange(level, Y)
<1>1. level \in Levels /\ level + 1 \in Levels /\ level \in Nat
  BY LevelsNat
<1>2. Files(levels[level]) /\ Files(Y)
  BY <1>1, LevelFiles, LevelFilesOne, FilesSubset
<1>3. \A f \in Y: f.smallest[1] \in Nat /\ f.largest[1] \in Nat /\ f.smallest[1] <= f.largest[1]
  BY <1>2, FileKeys
<1>4. CASE level # 0
  <2>1. R = {f \in levels[level]: Meets(f, Y)}
    BY <1>2, <1>4, DeepOverlap
  <2>2. \A f \in Y: Meets(f, Y)
    BY <1>3 DEF Meets
  <2>3. Files(R)
    BY <1>2, <2>1, FilesSubset
  <2>4. Gapless(Y) => Gapless(Y \cup R)
    <3>1. \A f \in R: Meets(f, Y)
      BY <2>1
    <3> HIDE DEF R
    <3> QED BY <1>2, <2>3, <3>1, GaplessMore
  <2> QED BY <1>4, <2>1, <2>2, <2>4
<1>5. CASE level = 0
  <2> DEFINE b == Smallest(Y)[1]
             e == Largest(Y)[1]
  <2>1. /\ \E g \in Y: b = g.smallest[1]
        /\ \E g \in Y: e = g.largest[1]
        /\ \A f \in Y: b <= f.smallest[1] /\ f.largest[1] <= e
    <3>1. \E g \in Y: Smallest(Y) = g.smallest
      BY <1>2, Hull
    <3>2. \E g \in Y: Largest(Y) = g.largest
      BY <1>2, Hull
    <3> QED BY <1>2, <3>1, <3>2, Hull
  <2>2. b \in Nat /\ e \in Nat /\ R = Overlapping(0, b, e)
    BY <1>3, <1>5, <2>1 DEF OverlappingRange
  <2> HIDE DEF b, e, R
  <2>3. PICK lo, hi: Reaches(R, lo, hi, b, e)
    BY <1>2, <1>5, <2>2, WideOverlap
  <2>4. R \subseteq levels[0] /\ Closed(R)
    BY <1>2, <1>5, <2>3, WideClosed
  <2>5. /\ lo \in Nat /\ hi \in Nat /\ lo <= b /\ e <= hi
        /\ R = {f \in levels[0]: Touches(f, lo, hi)}
        /\ \A f \in R: lo <= f.smallest[1] /\ f.largest[1] <= hi
        /\ \A k \in Nat: lo <= k /\ k <= hi => (b <= k /\ k <= e) \/ \E f \in R: Touches(f, k, k)
    BY <2>3 DEF Reaches
  <2>6. ASSUME NEW f \in Y \cap levels[level] PROVE f \in R
    <3>1. b <= f.smallest[1] /\ f.largest[1] <= e /\ f.smallest[1] <= f.largest[1]
          /\ f.smallest[1] \in Nat /\ f.largest[1] \in Nat
      BY <1>3, <2>1
    <3>2. Touches(f, lo, hi)
      BY <2>2, <2>5, <3>1 DEF Touches
    <3> QED BY <1>5, <2>5, <3>2
  <2>7. ASSUME Gapless(Y), NEW k \in Keys, Within(k, Y \cup R) PROVE \E f \in Y \cup R: Touches(f, k, k)
    <3>1. k \in Nat
      BY KeysNat
    <3>2. \A f \in R: f.smallest[1] \in Nat /\ f.largest[1] \in Nat
      BY <1>2, <1>5, <2>4, FileKeys
    <3>3. lo <= k /\ k <= hi
      <4>1. PICK g \in Y \cup R: k <= g.largest[1]
        BY <2>7 DEF Within
      <4>2. PICK h \in Y \cup R: h.smallest[1] <= k
        BY <2>7 DEF Within
      <4>3. g.largest[1] <= hi /\ g.largest[1] \in Nat
        BY <1>3, <2>1, <2>2, <2>5, <3>2
      <4>4. lo <= h.smallest[1] /\ h.smallest[1] \in Nat
        BY <1>3, <2>1, <2>2, <2>5, <3>2
      <4> QED BY <2>5, <3>1, <4>1, <4>2, <4>3, <4>4
    <3>4. CASE b <= k /\ k <= e
      <4>1. Within(k, Y)
        BY <2>1, <3>4 DEF Within
      <4> QED BY <2>7, <4>1 DEF Gapless
    <3> QED BY <2>5, <3>1, <3>3, <3>4
  <2> QED BY <1>5, <2>4, <2>6, <2>7 DEF Gapless, R
<1> QED BY <1>4, <1>5

-----------------------------------------------------------------------------
(* What a compaction begins with.                                          *)

\* Files of a level, with those of the next that overlap them.
ChosenOf(level, in) ==
  /\ in = <<in[1], in[2]>>
  /\ in[1] \subseteq levels[level] /\ in[1] # {}
  /\ in[2] = {f \in levels[level + 1]: Meets(f, in[1])}

LEMMA Boundary ==
  ASSUME Typed, NEW level \in Levels, NEW X \in SUBSET levels[level], X # {}
  PROVE  LET A == AddBoundaryInputs(level, X)
         IN /\ X \subseteq A /\ A \subseteq levels[level]
            /\ KeysDisjoint /\ (level = 0 => Closed(X)) => A = X
<1>1. Files(levels[level]) /\ Files(X)
  BY LevelFilesOne, FilesSubset
<1>2. AddBoundaryInputs(level, X) \in {Z \in SUBSET levels[level]: X \subseteq Z}
  <2> DEFINE T == {Z \in SUBSET levels[level]: X \subseteq Z}
  <2>1. T \in SUBSET SUBSET levels[level] /\ X \in T
        /\ \A Z \in T: \A f \in levels[level]: Continues(Z, f) => Z \cup {f} \in T
    OBVIOUS
  <2> HIDE DEF T
  <2>2. AddBoundaryInputs(level, X) \in T
    BY <1>1, <2>1, AddBoundary
  <2> QED BY <2>2 DEF T
<1>3. ASSUME KeysDisjoint, level = 0 => Closed(X) PROVE AddBoundaryInputs(level, X) \in {X}
  <2>1. ASSUME NEW f \in levels[level], Continues(X, f) PROVE f \in X
    <3>1. PICK g \in X: Largest(X) = g.largest
      BY <1>1, Hull
    <3>2. f.smallest[1] = g.largest[1]
      BY <2>1, <3>1 DEF Continues
    <3>3. /\ f.smallest[1] \in Nat /\ f.largest[1] \in Nat /\ f.smallest[1] <= f.largest[1]
          /\ g.smallest[1] \in Nat /\ g.largest[1] \in Nat /\ g.smallest[1] <= g.largest[1]
      BY <1>1, FileKeys
    <3>4. CASE level = 0
      <4>1. Meets(f, X)
        BY <3>2, <3>3 DEF Meets
      <4> QED BY <1>3, <3>4, <4>1 DEF Closed
    <3>5. CASE level # 0
      <4>1. ~Left(f, g) /\ ~Left(g, f)
        BY <3>2, <3>3 DEF Left
      <4> QED BY <1>3, <3>5, <4>1 DEF KeysDisjoint
    <3> QED BY <3>4, <3>5
  <2> DEFINE T == {X}
  <2>2. T \in SUBSET SUBSET levels[level] /\ X \in T
        /\ \A Z \in T: \A f \in levels[level]: Continues(Z, f) => Z \cup {f} \in T
    BY <2>1
  <2> HIDE DEF T
  <2>3. AddBoundaryInputs(level, X) \in T
    BY <1>1, <2>2, AddBoundary
  <2> QED BY <2>3 DEF T
<1> QED BY <1>2, <1>3

Others(level, X) == <<X, OverlappingRange(level + 1, X)>>

LEMMA OthersRight ==
  ASSUME Typed, NEW level \in 0..(NumLevels - 2), NEW X \in SUBSET levels[level], X # {}
  PROVE  /\ ChosenOf(level, Others(level, X)) /\ Others(level, X)[1] = X
         /\ Gapless(X) => Gapless(X \cup Others(level, X)[2])
<1>1. level \in Levels /\ level + 1 \in Levels /\ level + 1 # 0
  BY LevelsNat
<1>2. Files(levels[level + 1]) /\ Files(X)
  BY <1>1, LevelFilesOne, FilesSubset
<1>3. OverlappingRange(level + 1, X) = {f \in levels[level + 1]: Meets(f, X)}
  BY <1>1, <1>2, DeepOverlap
<1>4. Others(level, X) = <<X, OverlappingRange(level + 1, X)>>
  BY DEF Others
<1>5. ChosenOf(level, Others(level, X)) /\ Others(level, X)[1] = X
  BY <1>3, <1>4 DEF ChosenOf
<1>6. ASSUME Gapless(X) PROVE Gapless(X \cup Others(level, X)[2])
  <2> DEFINE R == OverlappingRange(level + 1, X)
  <2>1. Files(R) /\ \A f \in R: Meets(f, X)
    BY <1>2, <1>3, FilesSubset
  <2> HIDE DEF R
  <2>2. Gapless(X \cup R)
    BY <1>2, <1>6, <2>1, GaplessMore
  <2> QED BY <1>4, <2>2 DEF R
<1> QED BY <1>5, <1>6

LEMMA SetupForms ==
  ASSUME NEW level, NEW X
  PROVE  LET A(Z) == AddBoundaryInputs(level, Z)
             in == Others(level, A(X))
         IN SetupOtherInputs(level, X) = in \/
            SetupOtherInputs(level, X) = Others(level, A(OverlappingRange(level, in[1] \cup in[2])))
  BY DEF SetupOtherInputs, Others

LEMMA SetupRight ==
  ASSUME Typed, NEW level \in 0..(NumLevels - 2), NEW X \in SUBSET levels[level], X # {}
  PROVE  LET in == SetupOtherInputs(level, X)
         IN /\ ChosenOf(level, in)
            /\ KeysDisjoint /\ (level = 0 => Closed(X)) =>
                 /\ level = 0 => Closed(in[1])
                 /\ Gapless(X) => Gapless(in[1] \cup in[2])
<1> DEFINE A(Z) == AddBoundaryInputs(level, Z)
           in == Others(level, A(X))
           R == OverlappingRange(level, in[1] \cup in[2])
           Good == KeysDisjoint /\ (level = 0 => Closed(X))
<1>1. level \in Levels
  BY LevelsNat
<1>2. X \subseteq A(X) /\ A(X) \subseteq levels[level] /\ (Good => A(X) = X)
  BY <1>1, Boundary
<1>3. ChosenOf(level, in) /\ in[1] = A(X) /\ (Gapless(A(X)) => Gapless(A(X) \cup in[2]))
  <2>1. A(X) \in SUBSET levels[level] /\ A(X) # {}
    BY <1>2
  <2> HIDE DEF A
  <2> QED BY <2>1, OthersRight
<1> DEFINE Y == in[1] \cup in[2]
<1>4. Y \in SUBSET (levels[level] \cup levels[level + 1]) /\ Y # {} /\ A(X) \subseteq Y \cap levels[level]
  <2> HIDE DEF in, A
  <2> QED BY <1>2, <1>3 DEF ChosenOf
<1>5. /\ R \subseteq levels[level] /\ Y \cap levels[level] \subseteq R
      /\ level = 0 => Closed(R)
      /\ Gapless(Y) => Gapless(Y \cup R)
  <2> HIDE DEF in, A
  <2> QED BY <1>4, OverlapRight
<1>6. R \in SUBSET levels[level] /\ R # {} /\ A(X) \subseteq R
  <2> HIDE DEF in, A, R
  <2> QED BY <1>2, <1>4, <1>5
<1>7. R \subseteq A(R) /\ A(R) \subseteq levels[level] /\ (Good => A(R) = R)
  <2> HIDE DEF in, R
  <2> QED BY <1>1, <1>5, <1>6, Boundary
<1> DEFINE out == Others(level, A(R))
<1>8. /\ ChosenOf(level, out) /\ out[1] = A(R)
  <2>1. A(R) \in SUBSET levels[level] /\ A(R) # {}
    BY <1>6, <1>7
  <2> HIDE DEF A, R, in
  <2> QED BY <2>1, OthersRight
<1>9. ASSUME Good, Gapless(X) PROVE Gapless(in[1] \cup in[2]) /\ Gapless(out[1] \cup out[2])
  <2>1. Gapless(Y) /\ A(X) = X /\ A(R) = R
    BY <1>2, <1>3, <1>7, <1>9
  <2>2. Gapless(Y \cup R)
    BY <1>5, <2>1
  <2>3. Files(Y \cup R) /\ Files(out[2])
    <3>1. Files(levels[level] \cup levels[level + 1]) /\ Files(levels[level + 1])
      BY LevelsNat, LevelFiles, LevelFilesOne
    <3>2. Y \cup R \in SUBSET (levels[level] \cup levels[level + 1]) /\ out[2] \in SUBSET levels[level + 1]
      <4> HIDE DEF Y, R, out
      <4> QED BY <1>4, <1>5, <1>8 DEF ChosenOf
    <3> QED BY <3>1, <3>2, FilesSubset
  <2>4. \A f \in out[2]: Meets(f, Y \cup R)
    <3>1. out[1] = R
      BY <1>8, <2>1
    <3> HIDE DEF Y, R, out
    <3> QED BY <1>8, <3>1 DEF ChosenOf, Meets
  <2>5. Gapless((Y \cup R) \cup out[2])
    <3> HIDE DEF Y, R, out
    <3> QED BY <2>2, <2>3, <2>4, GaplessMore
  <2>6. (Y \cup R) \cup out[2] = out[1] \cup out[2]
    <3>1. \A f \in in[2]: f \in out[2]
      <4>1. A(X) \subseteq out[1] /\ in[1] = A(X)
        BY <1>3, <1>6, <1>8, <2>1
      <4> HIDE DEF in, out, A
      <4>2. \A f: Meets(f, in[1]) => Meets(f, out[1])
        BY <4>1 DEF Meets
      <4>3. in[2] = {f \in levels[level + 1]: Meets(f, in[1])} /\ out[2] = {f \in levels[level + 1]: Meets(f, out[1])}
        BY <1>3, <1>8 DEF ChosenOf
      <4> QED BY <4>2, <4>3
    <3>2. in[1] \subseteq R /\ out[1] = R
      BY <1>3, <1>6, <1>8, <2>1
    <3> HIDE DEF in, out, R
    <3> QED BY <3>1, <3>2
  <2> QED BY <2>1, <2>5, <2>6
<1>10. Good /\ level = 0 => Closed(in[1]) /\ Closed(out[1])
  <2> HIDE DEF in, out, A, R
  <2> QED BY <1>2, <1>3, <1>5, <1>7, <1>8
<1>11. SetupOtherInputs(level, X) = in \/ SetupOtherInputs(level, X) = out
  BY SetupForms
<1> HIDE DEF in, out
<1> QED BY <1>3, <1>8, <1>9, <1>10, <1>11

LEMMA HigherThrough ==
  ASSUME NEW a \in Nat \X (Nat \ {0}), NEW l \in Nat \X (Nat \ {0}), NEW j \in Nat \X (Nat \ {0}),
         Higher(a, l), ~Higher(j, l)
  PROVE  Higher(a, j)
<1> DEFINE p == a[1] * j[2]
           q == j[1] * a[2]
<1>1. a[1] \in Nat /\ a[2] \in Nat /\ a[2] > 0 /\ l[1] \in Nat /\ l[2] \in Nat /\ l[2] > 0
      /\ j[1] \in Nat /\ j[2] \in Nat /\ j[2] > 0
  OBVIOUS
<1>2. a[1] * l[2] > l[1] * a[2] /\ j[1] * l[2] <= l[1] * j[2]
  BY <1>1 DEF Higher
<1>3. SUFFICES ASSUME p <= q PROVE FALSE
  BY <1>1 DEF Higher
<1>4. p * l[2] <= q * l[2]
  BY <1>1, <1>3
<1>5. (a[1] * l[2]) * j[2] > (l[1] * a[2]) * j[2]
  BY <1>1, <1>2
<1>6. (j[1] * l[2]) * a[2] <= (l[1] * j[2]) * a[2]
  BY <1>1, <1>2
<1>7. p * l[2] = (a[1] * l[2]) * j[2] /\ q * l[2] = (j[1] * l[2]) * a[2]
      /\ (l[1] * a[2]) * j[2] = (l[1] * j[2]) * a[2]
  BY <1>1
<1>8. /\ (a[1] * l[2]) * j[2] \in Nat /\ (l[1] * a[2]) * j[2] \in Nat
      /\ (j[1] * l[2]) * a[2] \in Nat /\ (l[1] * j[2]) * a[2] \in Nat
  BY <1>1
<1> QED BY <1>4, <1>5, <1>6, <1>7, <1>8

LEMMA BestRight ==
  ASSUME NEW n \in Nat, NEW s \in [0..n -> Nat \X (Nat \ {0})]
  PROVE  Best(s) \in 0..n /\ \A m \in 0..n: ~Higher(s[m], s[Best(s)])
<1> DEFINE Top(l, m) == \A j \in 0..m: ~Higher(s[j], s[l]) /\ (j < l => Higher(s[l], s[j]))
           S == {m \in Nat: m <= n => \E l \in 0..m: Top(l, m)}
<1>1. \A i \in 0..n: s[i] \in Nat \X (Nat \ {0}) /\ ~Higher(s[i], s[i])
  BY DEF Higher
<1>2. 0 \in S
  <2>1. \A j \in 0..0: j = 0
    OBVIOUS
  <2>2. Top(0, 0)
    BY <1>1, <2>1
  <2> HIDE DEF Top
  <2> QED BY <2>2
<1>3. ASSUME NEW m \in S PROVE m + 1 \in S
  <2> SUFFICES ASSUME m + 1 <= n PROVE \E l \in 0..(m + 1): Top(l, m + 1)
    OBVIOUS
  <2>1. m \in Nat /\ m + 1 \in 0..n /\ \A j \in 0..(m + 1): j \in 0..m \/ j = m + 1
    OBVIOUS
  <2>2. PICK l \in 0..m: Top(l, m)
    <3> HIDE DEF Top
    <3> QED OBVIOUS
  <2>3. l \in 0..n /\ l \in 0..(m + 1) /\ \A j \in 0..m: j \in 0..n /\ ~Higher(s[j], s[l])
    BY <2>1, <2>2
  <2>4. CASE Higher(s[m + 1], s[l])
    <3>1. \A j \in 0..m: Higher(s[m + 1], s[j])
      BY <1>1, <2>1, <2>3, <2>4, HigherThrough
    <3>2. \A x, y \in Nat \X (Nat \ {0}): Higher(x, y) => ~Higher(y, x)
      BY DEF Higher
    <3>3. \A j \in 0..m: ~Higher(s[j], s[m + 1])
      BY <1>1, <2>1, <2>3, <3>1, <3>2
    <3>4. ASSUME NEW j \in 0..(m + 1)
          PROVE  ~Higher(s[j], s[m + 1]) /\ (j < m + 1 => Higher(s[m + 1], s[j]))
      <4>1. CASE j \in 0..m
        BY <3>1, <3>3, <4>1
      <4>2. CASE j = m + 1
        <5>1. ~(j < m + 1)
          BY <2>1, <4>2
        <5>2. ~Higher(s[m + 1], s[m + 1])
          BY <1>1, <2>1
        <5> QED BY <4>2, <5>1, <5>2
      <4> QED BY <2>1, <4>1, <4>2
    <3>5. Top(m + 1, m + 1)
      BY <3>4
    <3>6. m + 1 \in 0..(m + 1)
      BY <2>1
    <3> HIDE DEF Top
    <3> QED BY <3>5, <3>6
  <2>5. CASE ~Higher(s[m + 1], s[l])
    <3>1. ASSUME NEW j \in 0..(m + 1)
          PROVE  ~Higher(s[j], s[l]) /\ (j < l => Higher(s[l], s[j]))
      <4>1. CASE j \in 0..m
        BY <2>2, <4>1
      <4>2. CASE j = m + 1
        <5>1. ~(j < l)
          BY <2>1, <2>2, <4>2
        <5> QED BY <2>5, <4>2, <5>1
      <4> QED BY <2>1, <4>1, <4>2
    <3>2. Top(l, m + 1)
      BY <3>1
    <3> HIDE DEF Top
    <3> QED BY <2>3, <3>2
  <2> QED BY <2>4, <2>5
<1>4. S = Nat
  <2>1. S \in SUBSET Nat
    OBVIOUS
  <2> HIDE DEF S
  <2> QED BY <1>2, <1>3, <2>1, Induction
<1>5. \E l \in 0..n: Top(l, n)
  <2>1. n \in S
    BY <1>4
  <2> HIDE DEF Top
  <2> QED BY <2>1
<1>6. DOMAIN s = 0..n
  OBVIOUS
<1>7. Best(s) \in 0..n /\ Top(Best(s), n)
  BY <1>5, <1>6 DEF Best
<1> QED BY <1>7

LEMMA Scores ==
  ASSUME Typed, NEW l \in 0..(NumLevels - 2)
  PROVE  /\ Score(l) \in Nat \X (Nat \ {0})
         /\ levels[l] = {} => Score(l)[1] = 0
<1>1. l \in Levels /\ IsFiniteSet(levels[l]) /\ \A f \in levels[l]: IsFiniteSet(f.entries)
  BY LevelsNat, LevelFile DEF Typed, FilesRight
<1>2. TotalFileSize(levels[l]) \in Nat /\ (levels[l] = {} => TotalFileSize(levels[l]) = 0)
  BY <1>1, TotalFileSizeNat
<1>3. Cardinality(levels[l]) \in Nat /\ (levels[l] = {} => Cardinality(levels[l]) = 0)
  BY <1>1, FS_CardinalityType, FS_EmptySet
<1>4. l # 0 => LevelCapacity[l] \in Nat \ {0}
  <2>1. l # 0 => l \in 1..(NumLevels - 1)
    BY LevelsNat
  <2> QED BY <2>1, LevelsAssumption
<1>5. L0Trigger \in Nat \ {0}
  BY LevelsAssumption
<1> QED BY <1>2, <1>3, <1>4, <1>5 DEF Score

LEMMA CompactionLevelRight ==
  ASSUME Typed, SizeCompaction
  PROVE  CompactionLevel \in 0..(NumLevels - 2) /\ levels[CompactionLevel] # {}
<1> DEFINE n == NumLevels - 2
           s == [l \in 0..n |-> Score(l)]
           b == CompactionLevel
<1>1. n \in Nat /\ s \in [0..n -> Nat \X (Nat \ {0})]
  BY LevelsNat, Scores
<1>2. b = Best(s)
  BY DEF CompactionLevel
<1> HIDE DEF s, b
<1>3. b \in 0..n /\ \A m \in 0..n: ~Higher(s[m], s[b])
  BY <1>1, <1>2, BestRight
<1>4. PICK m \in 0..n: ~Higher(<<1, 1>>, Score(m))
  BY DEF SizeCompaction
<1>5. s[m] = Score(m) /\ s[b] = Score(b)
  BY <1>3 DEF s
<1>6. ASSUME levels[b] = {} PROVE FALSE
  <2>1. /\ Score(m)[1] \in Nat /\ Score(m)[2] \in Nat /\ Score(m)[2] > 0
        /\ Score(b)[1] = 0 /\ Score(b)[2] \in Nat /\ Score(b)[2] > 0
    BY <1>3, <1>4, <1>6, Scores
  <2>2. Score(m)[1] >= Score(m)[2]
    BY <1>4, <2>1 DEF Higher
  <2>3. Score(m)[1] > 0
    BY <2>1, <2>2
  <2>4. Score(m)[1] * Score(b)[2] > 0
    BY <2>1, <2>3
  <2>5. Score(m)[1] * Score(b)[2] <= Score(b)[1] * Score(m)[2]
    BY <1>3, <1>4, <1>5, <2>1 DEF Higher
  <2>6. Score(b)[1] * Score(m)[2] = 0
    BY <2>1
  <2>7. Score(m)[1] * Score(b)[2] \in Nat
    BY <2>1
  <2> QED BY <2>4, <2>5, <2>6, <2>7
<1> QED BY <1>3, <1>6 DEF b

LEMMA HeadInOrder ==
  ASSUME NEW F, Files(F), F # {}
  PROVE  /\ Head(InOrder(F)) \in F
         /\ \A f \in F: f = Head(InOrder(F)) \/ FileBefore(Head(InOrder(F)), f)
<1> DEFINE n == Cardinality(F)
           s == InOrder(F)
<1>1. n \in Nat /\ 1 <= n
  BY NotEmpty DEF Files
<1>2. Lists(s, F) /\ \A i, j \in 1..n: i < j => FileBefore(s[i], s[j])
  BY InOrderRight
<1> HIDE DEF s
<1>3. Head(s) = s[1]
  OBVIOUS
<1>4. s[1] \in F /\ \A f \in F: \E i \in 1..n: s[i] = f
  BY <1>1, <1>2 DEF Lists
<1>5. ASSUME NEW f \in F PROVE f = s[1] \/ FileBefore(s[1], f)
  <2>1. PICK i \in 1..n: s[i] = f
    BY <1>4
  <2>2. i = 1 \/ 1 < i
    BY <1>1
  <2> QED BY <1>1, <1>2, <2>1, <2>2
<1> QED BY <1>3, <1>4, <1>5 DEF s

LEMMA OneFile ==
  ASSUME Typed, NEW l \in Levels, NEW f \in levels[l]
  PROVE  Gapless({f})
  BY DEF Gapless, Within, Touches

\* The files a compaction sets out with.
Chosen(level, X) ==
  /\ level \in 0..(NumLevels - 2)
  /\ X \subseteq levels[level]
  /\ level = 0 => Closed(X)

LEMMA PickedRight ==
  ASSUME Typed, NeedsCompaction
  PROVE  Chosen(PickCompaction.level, PickCompaction.inputs) /\ Gapless(PickCompaction.inputs)
<1> DEFINE from(level, file) ==
             [level |-> level,
              inputs |-> IF level = 0 /\ file # {} THEN OverlappingRange(0, file) ELSE file]
<1>1. ASSUME NEW level \in 0..(NumLevels - 2), NEW f \in levels[level]
      PROVE  Chosen(from(level, {f}).level, from(level, {f}).inputs) /\ Gapless(from(level, {f}).inputs)
  <2>1. level \in Levels /\ Gapless({f})
    BY LevelsNat, OneFile
  <2>2. CASE level # 0
    BY <2>1, <2>2 DEF Chosen
  <2>3. CASE level = 0
    <3> DEFINE R == OverlappingRange(level, {f})
    <3>1. R \subseteq levels[0] /\ f \in R /\ Closed(R) /\ Gapless({f} \cup R)
      <4>1. {f} \in SUBSET (levels[level] \cup levels[level + 1]) /\ {f} # {}
        OBVIOUS
      <4>2. /\ R \subseteq levels[level] /\ {f} \cap levels[level] \subseteq R
            /\ level = 0 => Closed(R)
            /\ Gapless({f}) => Gapless({f} \cup R)
        BY <4>1, OverlapRight
      <4> HIDE DEF R
      <4> QED BY <2>1, <2>3, <4>2
    <3>2. {f} \cup R = R
      BY <3>1
    <3>3. from(level, {f}).inputs = R /\ from(level, {f}).level = level
      BY <2>3
    <3> HIDE DEF R
    <3> QED BY <2>3, <3>1, <3>2, <3>3 DEF Chosen
  <2> QED BY <2>2, <2>3
<1>2. CASE SizeCompaction
  <2> DEFINE l == CompactionLevel
  <2>1. l \in 0..(NumLevels - 2) /\ levels[l] # {}
    BY <1>2, CompactionLevelRight
  <2>2. PICK f \in levels[l]: PickedFile(l) = {f}
    <3> DEFINE later == {f \in levels[l]: pointer[l] = None \/ Before(pointer[l], f.largest)}
               X == IF later = {} THEN levels[l] ELSE later
    <3>1. X \in SUBSET levels[l] /\ X # {}
      BY <2>1
    <3>2. PickedFile(l) = {Head(InOrder(X))}
      BY DEF PickedFile
    <3> HIDE DEF X
    <3>3. Files(X)
      BY <2>1, <3>1, LevelsNat, LevelFilesOne, FilesSubset
    <3>4. Head(InOrder(X)) \in levels[l]
      BY <3>1, <3>3, HeadInOrder
    <3> QED BY <3>2, <3>4
  <2>3. PickCompaction = from(l, {f})
    BY <1>2, <2>2 DEF PickCompaction
  <2> HIDE DEF l, from
  <2> QED BY <1>1, <2>1, <2>3
<1>3. CASE ~SizeCompaction
  <2>1. seekFile[1] \in 0..(NumLevels - 2) /\ seekFile[2] \in levels[seekFile[1]]
    BY <1>3 DEF NeedsCompaction, Typed, SeekRight
  <2>2. PickCompaction = from(seekFile[1], {seekFile[2]})
    BY <1>3 DEF PickCompaction
  <2> HIDE DEF from
  <2> QED BY <1>1, <2>1, <2>2
<1> QED BY <1>2, <1>3

LEMMA ManualChosen ==
  ASSUME Typed, manual # None
  PROVE  Chosen(manual.level, ManualInputs(manual))
<1> DEFINE l == manual.level
           R == Overlapping(l, manual.begin, manual.end)
           s == InOrder(R)
<1>1. l \in 0..(NumLevels - 2) /\ l \in Levels /\ manual.begin \in Nat /\ manual.end \in Nat
  BY LevelsNat DEF Typed, ManualRight
<1>2. Files(levels[l])
  BY <1>1, LevelFilesOne
<1>3. R \subseteq levels[l] /\ (l = 0 => Closed(R))
  <2>1. CASE l # 0
    BY <2>1 DEF Overlapping
  <2>2. CASE l = 0
    <3> HIDE DEF l
    <3>1. PICK lo, hi: Reaches(Overlapping(0, manual.begin, manual.end), lo, hi, manual.begin, manual.end)
      BY <1>1, <1>2, <2>2, WideOverlap
    <3>2. Overlapping(0, manual.begin, manual.end) \subseteq levels[0] /\ Closed(Overlapping(0, manual.begin, manual.end))
      BY <1>2, <2>2, <3>1, WideClosed
    <3> QED BY <2>2, <3>2
  <2> QED BY <2>1, <2>2
<1>4. Lists(s, R) /\ Cardinality(R) \in Nat
  <2> HIDE DEF R
  <2>1. Files(R)
    BY <1>2, <1>3, FilesSubset
  <2> QED BY <2>1, InOrderRight, FS_CardinalityType DEF Files
<1>5. DOMAIN s = 1..Cardinality(R) /\ Range(s) = R
  <2> HIDE DEF s, R
  <2> QED BY <1>4 DEF Lists, Range
<1> DEFINE enough == {i \in DOMAIN s: TotalFileSize(Range(SubSeq(s, 1, i))) >= limits.fileSize}
<1>6. ManualInputs(manual) = IF l = 0 \/ enough = {} THEN Range(s) ELSE Range(SubSeq(s, 1, Min(enough)))
  BY DEF ManualInputs
<1>7. ASSUME enough # {} PROVE Range(SubSeq(s, 1, Min(enough))) \subseteq R
  <2>1. enough \in SUBSET Nat /\ enough \subseteq 1..Cardinality(R)
    BY <1>4, <1>5
  <2> HIDE DEF s, R, enough
  <2>2. Min(enough) \in 1..Cardinality(R)
    BY <1>7, <2>1, MinNat
  <2>3. PICK m \in 1..Cardinality(R): m = Min(enough)
    BY <2>2
  <2>4. SubSeq(s, 1, m) = [i \in 1..m |-> s[i]]
    BY <1>4
  <2>5. \A i \in 1..m: s[i] \in R
    BY <1>4 DEF Lists
  <2> QED BY <2>3, <2>4, <2>5 DEF Range
<1> HIDE DEF enough, s, R, l
<1>8. ManualInputs(manual) \subseteq R /\ (l = 0 => ManualInputs(manual) = R)
  BY <1>5, <1>6, <1>7
<1> QED BY <1>1, <1>3, <1>8 DEF Chosen, l

-----------------------------------------------------------------------------
(* The outputs of a merge.                                                 *)

\* Files that are done and one that is open hold X in order.
Shape(done, open, X, K) ==
  /\ done \in Seq(SUBSET K) /\ open \in SUBSET K
  /\ \A i \in DOMAIN done: done[i] # {}
  /\ \A i, j \in DOMAIN done: i < j => \A e \in done[i], x \in done[j]: Before(e, x)
  /\ \A i \in DOMAIN done: \A e \in done[i], x \in open: Before(e, x)
  /\ open \subseteq X /\ \A i \in DOMAIN done: done[i] \subseteq X
  /\ \A x \in X: x \in open \/ \E i \in DOMAIN done: x \in done[i]

LEMMA ShapeClose ==
  ASSUME NEW done, NEW open, NEW X, NEW K, Shape(done, open, X, K), open # {}
  PROVE  Shape(Append(done, open), {}, X, K)
<1> DEFINE d == Append(done, open)
           n == Len(done)
<1>1. done \in Seq(SUBSET K) /\ open \in SUBSET K /\ n \in Nat /\ DOMAIN done = 1..n
  BY DEF Shape
<1>2. d \in Seq(SUBSET K) /\ DOMAIN d = 1..(n + 1) /\ d[n + 1] = open /\ \A i \in 1..n: d[i] = done[i]
  BY <1>1
<1> HIDE DEF d, n
<1>3. \A i \in DOMAIN d: i = n + 1 \/ i \in 1..n
  BY <1>1, <1>2
<1>4. \A i \in DOMAIN d: d[i] # {}
  BY <1>1, <1>2, <1>3 DEF Shape
<1>5. ASSUME NEW i \in DOMAIN d, NEW j \in DOMAIN d, i < j, NEW e \in d[i], NEW x \in d[j]
      PROVE  Before(e, x)
  <2>1. i \in 1..n
    BY <1>1, <1>2, <1>5
  <2>2. CASE j = n + 1
    BY <1>1, <1>2, <1>5, <2>1, <2>2 DEF Shape
  <2>3. CASE j \in 1..n
    BY <1>1, <1>2, <1>5, <2>1, <2>3 DEF Shape
  <2> QED BY <1>3, <2>2, <2>3
<1>6. \A i \in DOMAIN d: d[i] \subseteq X
  BY <1>1, <1>2, <1>3 DEF Shape
<1>7. ASSUME NEW x \in X PROVE \E i \in DOMAIN d: x \in d[i]
  <2>1. 1..n \subseteq DOMAIN d /\ n + 1 \in DOMAIN d
    BY <1>1, <1>2
  <2>2. x \in open \/ \E i \in 1..n: x \in done[i]
    BY <1>1 DEF Shape
  <2> QED BY <1>2, <2>1, <2>2
<1> QED BY <1>2, <1>4, <1>5, <1>6, <1>7 DEF Shape, d

LEMMA ShapeAdd ==
  ASSUME NEW done, NEW open, NEW X, NEW K, Shape(done, open, X, K), NEW e \in K, \A x \in X: Before(x, e)
  PROVE  Shape(done, open \cup {e}, X \cup {e}, K)
<1>1. \A i \in DOMAIN done: done[i] \subseteq X
  BY DEF Shape
<1>2. \A i \in DOMAIN done: \A x \in done[i], y \in open \cup {e}: Before(x, y)
  BY <1>1 DEF Shape
<1>3. /\ done \in Seq(SUBSET K) /\ open \cup {e} \in SUBSET K
      /\ \A i \in DOMAIN done: done[i] # {}
      /\ \A i, j \in DOMAIN done: i < j => \A x \in done[i], y \in done[j]: Before(x, y)
  BY DEF Shape
<1>4. /\ open \cup {e} \subseteq X \cup {e} /\ \A i \in DOMAIN done: done[i] \subseteq X \cup {e}
      /\ \A x \in X \cup {e}: x \in open \cup {e} \/ \E i \in DOMAIN done: x \in done[i]
  BY DEF Shape
<1> QED BY <1>2, <1>3, <1>4 DEF Shape

Accumulators(K) == [index: Nat \ {0}, seen: BOOLEAN, overlap: Nat, open: SUBSET K, done: Seq(SUBSET K)]
Base == [index |-> 1, seen |-> FALSE, overlap |-> 0, open |-> {}, done |-> <<>>]
StepOf(c, acc, e) ==
  LET grand == InOrder(c.grandparents)
      passed == {i \in acc.index..Len(grand): \A j \in acc.index..i: Before(grand[j].largest, e)}
      overlap == acc.overlap + (IF acc.seen THEN TotalFileSize({grand[i] : i \in passed}) ELSE 0)
      stop == overlap > limits.grandparents
      closed == IF stop /\ acc.open # {} THEN Append(acc.done, acc.open) ELSE acc.done
      open == (IF stop THEN {} ELSE acc.open) \cup ({e} \cap Kept(c))
      full == Cardinality(open) >= limits.fileSize
  IN [index |-> acc.index + Cardinality(passed), seen |-> TRUE,
      overlap |-> IF stop THEN 0 ELSE overlap,
      open |-> IF full THEN {} ELSE open,
      done |-> IF full THEN Append(closed, open) ELSE closed]
OutputsOf(last) == IF last.open = {} THEN last.done ELSE Append(last.done, last.open)

LEMMA OutputsForm ==
  ASSUME NEW c
  PROVE  LET s == Sorted(Ins(c))
             P(iter) == iter = [t \in SUBSET (DOMAIN s) |->
                                  IF t = {} THEN Base ELSE StepOf(c, iter[t \ {Max(t)}], s[Max(t)])]
         IN Outputs(c) = OutputsOf((CHOOSE iter: P(iter))[DOMAIN s])
  BY DEF Outputs, FoldLeft, MapThenFoldSet, OutputsOf, StepOf, Base, Ins

\* What a merge works on.
Mergeable(c) ==
  /\ IsFiniteSet(Ins(c)) /\ Ins(c) \subseteq Entry /\ Distinct(Ins(c))
  /\ Files(c.grandparents) /\ \A f \in c.grandparents: IsFiniteSet(f.entries)
  /\ limits.fileSize \in Nat \ {0} /\ limits.grandparents \in Nat

LEMMA StepTyped ==
  ASSUME NEW c, Mergeable(c), NEW acc \in Accumulators(Kept(c)), NEW e
  PROVE  StepOf(c, acc, e) \in Accumulators(Kept(c))
<1> DEFINE grand == InOrder(c.grandparents)
           n == Cardinality(c.grandparents)
           passed == {i \in acc.index..Len(grand): \A j \in acc.index..i: Before(grand[j].largest, e)}
           more == IF acc.seen THEN TotalFileSize({grand[i] : i \in passed}) ELSE 0
           overlap == acc.overlap + more
           stop == overlap > limits.grandparents
           closed == IF stop /\ acc.open # {} THEN Append(acc.done, acc.open) ELSE acc.done
           open == (IF stop THEN {} ELSE acc.open) \cup ({e} \cap Kept(c))
           full == Cardinality(open) >= limits.fileSize
<1>1. Lists(grand, c.grandparents) /\ n \in Nat /\ IsFiniteSet(c.grandparents)
  BY InOrderRight, FS_CardinalityType DEF Mergeable, Files
<1>2. Len(grand) = n /\ \A i \in 1..n: grand[i] \in c.grandparents
  <2> HIDE DEF grand
  <2> QED BY <1>1 DEF Lists
<1>3. acc.index \in Nat /\ acc.overlap \in Nat /\ acc.open \in SUBSET Kept(c) /\ acc.done \in Seq(SUBSET Kept(c))
  BY DEF Accumulators
<1>4. IsFiniteSet(passed) /\ Cardinality(passed) \in Nat
  <2>1. IsFiniteSet(acc.index..n) /\ passed \in SUBSET (acc.index..n)
    BY <1>1, <1>2, <1>3, FS_Interval
  <2> HIDE DEF passed
  <2> QED BY <2>1, FS_Subset, FS_CardinalityType
<1>5. more \in Nat
  <2> DEFINE H == {grand[i] : i \in passed}
  <2>1. passed \subseteq 1..n
    <3>1. passed \subseteq acc.index..n
      BY <1>2
    <3>2. acc.index \in Nat /\ acc.index > 0
      BY DEF Accumulators
    <3> HIDE DEF passed, n
    <3> QED BY <1>1, <3>1, <3>2
  <2>2. H \in SUBSET c.grandparents
    <3> HIDE DEF passed, grand
    <3> QED BY <1>2, <2>1
  <2> HIDE DEF H
  <2>3. IsFiniteSet(H) /\ \A f \in H: IsFiniteSet(f.entries)
    BY <1>1, <2>2, FS_Subset DEF Mergeable
  <2>4. TotalFileSize(H) \in Nat
    BY <2>3, TotalFileSizeNat
  <2> QED BY <2>4 DEF H
<1>6. overlap \in Nat /\ stop \in BOOLEAN
  <2> HIDE DEF more
  <2> QED BY <1>3, <1>5
<1>7. open \in SUBSET Kept(c)
  <2> HIDE DEF stop
  <2> QED BY <1>3
<1>8. closed \in Seq(SUBSET Kept(c))
  <2> HIDE DEF stop
  <2> QED BY <1>3
<1>9. StepOf(c, acc, e) =
        [index |-> acc.index + Cardinality(passed), seen |-> TRUE,
         overlap |-> IF stop THEN 0 ELSE overlap,
         open |-> IF full THEN {} ELSE open,
         done |-> IF full THEN Append(closed, open) ELSE closed]
  BY DEF StepOf
<1> HIDE DEF grand, n, passed, more, overlap, stop, closed, open, full
<1>10. Append(closed, open) \in Seq(SUBSET Kept(c)) /\ acc.index + Cardinality(passed) \in Nat \ {0}
  <2>1. Append(closed, open) \in Seq(SUBSET Kept(c))
    BY <1>7, <1>8
  <2>2. acc.index \in Nat /\ acc.index > 0
    BY DEF Accumulators
  <2> QED BY <1>4, <2>1, <2>2
<1> QED BY <1>6, <1>7, <1>8, <1>9, <1>10 DEF Accumulators

\* Adding the next entry keeps the files in order.
LEMMA StepShape ==
  ASSUME NEW c, Mergeable(c), NEW acc \in Accumulators(Kept(c)), NEW X, NEW e,
         Shape(acc.done, acc.open, X, Kept(c)), \A x \in X: Before(x, e)
  PROVE  LET next == StepOf(c, acc, e)
         IN Shape(next.done, next.open, X \cup ({e} \cap Kept(c)), Kept(c))
<1> DEFINE grand == InOrder(c.grandparents)
           K == Kept(c)
           passed == {i \in acc.index..Len(grand): \A j \in acc.index..i: Before(grand[j].largest, e)}
           overlap == acc.overlap + (IF acc.seen THEN TotalFileSize({grand[i] : i \in passed}) ELSE 0)
           stop == overlap > limits.grandparents
           closed == IF stop /\ acc.open # {} THEN Append(acc.done, acc.open) ELSE acc.done
           rest == IF stop THEN {} ELSE acc.open
           open == rest \cup ({e} \cap K)
           full == Cardinality(open) >= limits.fileSize
           Y == X \cup ({e} \cap K)
<1>1. StepOf(c, acc, e).open = (IF full THEN {} ELSE open)
      /\ StepOf(c, acc, e).done = (IF full THEN Append(closed, open) ELSE closed)
  BY DEF StepOf
<1> HIDE DEF stop, overlap, passed, grand, K
<1>2. Shape(closed, rest, X, K)
  <2>1. Shape(acc.done, acc.open, X, K)
    BY DEF K
  <2>2. acc.open # {} => Shape(Append(acc.done, acc.open), {}, X, K)
    BY <2>1, ShapeClose
  <2> QED BY <2>1, <2>2
<1>3. Shape(closed, open, Y, K)
  <2> HIDE DEF closed, rest
  <2>1. CASE e \in K
    <3>1. open = rest \cup {e} /\ Y = X \cup {e}
      BY <2>1
    <3>2. Shape(closed, rest \cup {e}, X \cup {e}, K)
      BY <1>2, <2>1, ShapeAdd
    <3> QED BY <3>1, <3>2
  <2>2. CASE e \notin K
    <3>1. open = rest /\ Y = X
      BY <2>2
    <3> QED BY <1>2, <3>1
  <2> QED BY <2>1, <2>2
<1>4. ASSUME full PROVE Shape(Append(closed, open), {}, Y, K)
  <2>1. limits.fileSize > 0 /\ limits.fileSize \in Nat
    BY DEF Mergeable
  <2>2. open # {}
    BY <1>4, <2>1, FS_EmptySet
  <2> HIDE DEF closed, open, Y
  <2> QED BY <1>3, <2>2, ShapeClose
<1> HIDE DEF closed, open, full
<1> QED BY <1>1, <1>3, <1>4 DEF K

LEMMA OutputsRight ==
  ASSUME NEW c, Mergeable(c)
  PROVE  /\ Outputs(c) \in Seq(SUBSET Kept(c))
         /\ Shape(Outputs(c), {}, Kept(c), Kept(c))
<1> DEFINE E == Ins(c)
           s == Sorted(E)
           n == Cardinality(E)
           D == 1..n
           K == Kept(c)
           T == Accumulators(K)
           m == [t \in SUBSET D |-> Max(t)]
           G == [i \in D |-> [acc \in T |-> StepOf(c, acc, s[i])]]
           value(iter, t) == IF t = {} THEN Base ELSE StepOf(c, iter[t \ {Max(t)}], s[Max(t)])
           P(iter) == iter = [t \in SUBSET D |-> value(iter, t)]
<1>1. Lists(s, E) /\ (\A i, j \in 1..n: i < j => Before(s[i], s[j])) /\ n \in Nat
  BY SortedRight, FS_CardinalityType DEF Mergeable
<1>2. DOMAIN s = D
  BY <1>1 DEF Lists
<1>3. IsFiniteSet(D) /\ \A t \in SUBSET D: t # {} => m[t] \in t /\ m[t] = Max(t)
  BY <1>1, MaxPicks
<1>4. Base \in T
  BY DEF Base, Accumulators
<1>5. \A acc \in T: \A e: StepOf(c, acc, e) \in T
  BY StepTyped
<1> HIDE DEF T
<1>6. G \in [D -> [T -> T]] /\ \A i \in D: \A acc \in T: G[i][acc] = StepOf(c, acc, s[i])
  BY <1>5
<1> DEFINE it == CHOOSE iter: P(iter)
<1>7. Outputs(c) = OutputsOf(it[D])
  BY <1>2, OutputsForm
<1> HIDE DEF G, m, D, s, n, E
<1>8. PICK iter: Folds(iter, D, m, T, Base, G)
  BY <1>3, <1>4, <1>6, SubsetRecursion
<1>9. P(iter)
  <2>1. ASSUME NEW t \in SUBSET D PROVE iter[t] = value(iter, t)
    <3>1. CASE t = {}
      BY <1>8, <3>1 DEF Folds
    <3>2. CASE t # {}
      <4>1. m[t] \in D /\ t \ {m[t]} \in SUBSET D /\ m[t] = Max(t)
        BY <1>3, <3>2
      <4>2. iter[t] = G[m[t]][iter[t \ {m[t]}]] /\ iter[t \ {m[t]}] \in T
        BY <1>8, <3>2, <4>1 DEF Folds
      <4>3. iter[t] = StepOf(c, iter[t \ {m[t]}], s[m[t]])
        BY <1>6, <4>1, <4>2
      <4> QED BY <3>2, <4>1, <4>3
    <3> QED BY <3>1, <3>2
  <2> HIDE DEF value
  <2> QED BY <1>8, <2>1 DEF Folds
<1>10. P(it)
  <2> HIDE DEF P
  <2> QED BY <1>9
<1> HIDE DEF it
<1>11. \A t \in SUBSET D: it[t] = value(it, t)
  <2> HIDE DEF value
  <2> QED BY <1>10
<1> DEFINE seen(i) == {s[j] : j \in 1..i}
           S == {i \in Nat: i <= n => it[1..i] \in T /\ Shape(it[1..i].done, it[1..i].open, seen(i) \cap K, K)}
<1>12. 0 \in S
  <2>1. 1..0 = {} /\ seen(0) \cap K = {}
    OBVIOUS
  <2>2. it[{}] = Base
    BY <1>11
  <2>3. Shape(Base.done, Base.open, {}, K)
    BY DEF Base, Shape
  <2> QED BY <1>4, <2>1, <2>2, <2>3
<1>13. ASSUME NEW i \in S PROVE i + 1 \in S
  <2> SUFFICES ASSUME i + 1 <= n
               PROVE  it[1..(i + 1)] \in T /\ Shape(it[1..(i + 1)].done, it[1..(i + 1)].open, seen(i + 1) \cap K, K)
    OBVIOUS
  <2>1. i \in Nat /\ i + 1 \in 1..n /\ it[1..i] \in T /\ Shape(it[1..i].done, it[1..i].open, seen(i) \cap K, K)
    BY <1>1
  <2>2. 1..(i + 1) \in SUBSET D /\ 1..(i + 1) # {} /\ (1..(i + 1)) \ {i + 1} = 1..i
    <3>1. i \in Nat /\ n \in Nat /\ i + 1 <= n
      BY <1>1, <2>1
    <3>2. 1..(i + 1) \in SUBSET (1..n) /\ i + 1 \in 1..(i + 1)
      BY <3>1
    <3>3. (1..(i + 1)) \ {i + 1} = 1..i
      BY <3>1
    <3> QED BY <3>2, <3>3 DEF D
  <2>3. Max(1..(i + 1)) = i + 1
    <3>1. Max(1..(i + 1)) \in 1..(i + 1) /\ \A j \in 1..(i + 1): j <= Max(1..(i + 1))
      <4>1. i + 1 \in Nat
        BY <2>1
      <4> QED BY <2>2, <4>1, MaxPicks
    <3>2. i + 1 \in 1..(i + 1)
      BY <2>1
    <3> QED BY <2>1, <3>1, <3>2
  <2>4. it[1..(i + 1)] = StepOf(c, it[1..i], s[i + 1])
    BY <1>11, <2>2, <2>3
  <2>5. \A x \in seen(i) \cap K: Before(x, s[i + 1])
    <3>1. \A j \in 1..i: j \in 1..n /\ j < i + 1
      BY <1>1, <2>1
    <3> QED BY <1>1, <2>1, <3>1
  <2>6. seen(i + 1) \cap K = (seen(i) \cap K) \cup ({s[i + 1]} \cap K)
    <3>1. \A j: j \in 1..(i + 1) <=> j \in 1..i \/ j = i + 1
      BY <2>1
    <3> QED BY <3>1
  <2>7. Shape(it[1..(i + 1)].done, it[1..(i + 1)].open, seen(i + 1) \cap K, K)
    <3> DEFINE acc == it[1..i]
               X == seen(i) \cap K
               e == s[i + 1]
    <3>1. acc \in Accumulators(Kept(c)) /\ Shape(acc.done, acc.open, X, Kept(c)) /\ \A x \in X: Before(x, e)
      BY <2>1, <2>5 DEF T
    <3> HIDE DEF acc, X, e
    <3>2. Shape(StepOf(c, acc, e).done, StepOf(c, acc, e).open, X \cup ({e} \cap Kept(c)), Kept(c))
      BY <3>1, StepShape
    <3> QED BY <2>4, <2>6, <3>2 DEF acc, X, e
  <2>8. it[1..(i + 1)] \in T
    BY <1>5, <2>1, <2>4
  <2> QED BY <2>7, <2>8
<1>14. n \in S
  <2>1. S \in SUBSET Nat
    OBVIOUS
  <2> HIDE DEF S
  <2> QED BY <1>1, <1>12, <1>13, <2>1, Induction
<1>15. it[D] \in T /\ Shape(it[D].done, it[D].open, seen(n) \cap K, K)
  BY <1>1, <1>14 DEF D
<1>16. seen(n) \cap K = K
  <2>1. ASSUME NEW e \in E PROVE e \in seen(n)
    BY <1>1, <2>1 DEF Lists, n
  <2>2. K \subseteq E
    BY DEF Kept, Ins, E
  <2> HIDE DEF seen
  <2> QED BY <2>1, <2>2
<1>17. Shape(it[D].done, it[D].open, K, K)
  BY <1>15, <1>16
<1>18. Shape(OutputsOf(it[D]), {}, K, K)
  <2>1. CASE it[D].open = {}
    BY <1>17, <2>1 DEF OutputsOf
  <2>2. CASE it[D].open # {}
    <3>1. Shape(Append(it[D].done, it[D].open), {}, K, K)
      BY <1>17, <2>2, ShapeClose
    <3> QED BY <2>2, <3>1 DEF OutputsOf
  <2> QED BY <2>1, <2>2
<1> QED BY <1>7, <1>18 DEF Shape

-----------------------------------------------------------------------------
(* The files a lookup searches.                                            *)

\* at tells which place of which sequence each place of flat comes from.
Spreads(flat, ss, i, at, S) ==
  /\ flat \in Seq(S) /\ at \in [DOMAIN flat -> (1..i) \X Nat]
  /\ \A p \in DOMAIN flat: at[p][2] \in DOMAIN ss[at[p][1]] /\ flat[p] = ss[at[p][1]][at[p][2]]
  /\ \A p, q \in DOMAIN flat:
       p < q => at[p][1] < at[q][1] \/ (at[p][1] = at[q][1] /\ at[p][2] < at[q][2])
  /\ \A a \in 1..i: \A b \in DOMAIN ss[a]: \E p \in DOMAIN flat: at[p] = <<a, b>>

LEMMA SpreadsMore ==
  ASSUME NEW S, NEW n \in Nat, NEW ss \in [1..n -> Seq(S)], NEW i \in Nat, i + 1 <= n,
         NEW flat, NEW at, Spreads(flat, ss, i, at, S)
  PROVE  \E next: Spreads(flat \o ss[i + 1], ss, i + 1, next, S)
<1> DEFINE t == ss[i + 1]
           m == Len(flat)
           k == Len(t)
           new == flat \o t
           next == [p \in 1..(m + k) |-> IF p <= m THEN at[p] ELSE <<i + 1, p - m>>]
<1>1. t \in Seq(S) /\ flat \in Seq(S) /\ m \in Nat /\ k \in Nat /\ DOMAIN flat = 1..m /\ DOMAIN t = 1..k
  BY DEF Spreads
<1>2. /\ new \in Seq(S) /\ DOMAIN new = 1..(m + k)
      /\ \A p \in 1..m: new[p] = flat[p]
      /\ \A p \in 1..k: new[m + p] = t[p]
  BY <1>1
<1> HIDE DEF t, m, k, new
<1>3. /\ DOMAIN next = 1..(m + k) /\ next = [p \in 1..(m + k) |-> next[p]]
      /\ \A p \in 1..m: p \in DOMAIN new /\ next[p] = at[p]
      /\ \A p \in 1..k: m + p \in DOMAIN new /\ next[m + p] = <<i + 1, p>>
  BY <1>1, <1>2
<1>4. next \in [DOMAIN new -> (1..(i + 1)) \X Nat]
  <2>1. ASSUME NEW p \in 1..(m + k) PROVE next[p] \in (1..(i + 1)) \X Nat
    <3>1. CASE p <= m
      <4>1. at[p] \in (1..i) \X Nat /\ next[p] = at[p]
        BY <1>1, <1>3, <3>1 DEF Spreads
      <4> QED BY <4>1
    <3>2. CASE ~(p <= m)
      BY <1>1, <3>2
    <3> QED BY <3>1, <3>2
  <2> HIDE DEF next
  <2> QED BY <1>2, <1>3, <2>1
<1> HIDE DEF next
<1>5. \A p \in DOMAIN new: p \in 1..m \/ (p - m \in 1..k /\ p = m + (p - m))
  BY <1>1, <1>2
<1>6. ASSUME NEW p \in 1..m
      PROVE  next[p][1] \in 1..i /\ next[p][2] \in DOMAIN ss[next[p][1]] /\ new[p] = ss[next[p][1]][next[p][2]]
  <2>1. at[p] \in (1..i) \X Nat /\ at[p][2] \in DOMAIN ss[at[p][1]] /\ flat[p] = ss[at[p][1]][at[p][2]]
    BY <1>1 DEF Spreads
  <2> QED BY <1>2, <1>3, <2>1
<1>7. ASSUME NEW p \in 1..k
      PROVE  next[m + p][1] = i + 1 /\ next[m + p][2] = p /\ new[m + p] = ss[i + 1][p] /\ p \in DOMAIN ss[i + 1]
  <2>1. next[m + p] = <<i + 1, p>>
    BY <1>3
  <2>2. new[m + p] = ss[i + 1][p] /\ p \in DOMAIN ss[i + 1]
    BY <1>1, <1>2 DEF t
  <2> QED BY <2>1, <2>2
<1>8. \A p \in DOMAIN new: next[p][2] \in DOMAIN ss[next[p][1]] /\ new[p] = ss[next[p][1]][next[p][2]]
  <2>1. ASSUME NEW p \in DOMAIN new
        PROVE  next[p][2] \in DOMAIN ss[next[p][1]] /\ new[p] = ss[next[p][1]][next[p][2]]
    <3>1. CASE p \in 1..m
      BY <1>6, <3>1
    <3>2. CASE p \notin 1..m
      <4>1. PICK j \in 1..k: p = m + j
        BY <1>5, <3>2
      <4> QED BY <1>7, <4>1
    <3> QED BY <3>1, <3>2
  <2> QED BY <2>1
<1>9. ASSUME NEW p \in DOMAIN new, NEW q \in DOMAIN new, p < q
      PROVE  next[p][1] < next[q][1] \/ (next[p][1] = next[q][1] /\ next[p][2] < next[q][2])
  <2>1. CASE q \in 1..m
    <3>1. p \in 1..m
      BY <1>1, <1>2, <1>9, <2>1
    <3>2. at[p][1] < at[q][1] \/ (at[p][1] = at[q][1] /\ at[p][2] < at[q][2])
      BY <1>1, <1>9, <2>1, <3>1 DEF Spreads
    <3> QED BY <1>3, <2>1, <3>1, <3>2
  <2>2. CASE q \notin 1..m
    <3>1. PICK j \in 1..k: q = m + j
      BY <1>5, <2>2
    <3>2. CASE p \in 1..m
      <4>1. next[p][1] \in 1..i /\ next[q][1] = i + 1
        BY <1>6, <1>7, <3>1, <3>2
      <4> QED BY <4>1
    <3>3. CASE p \notin 1..m
      <4>1. PICK h \in 1..k: p = m + h
        BY <1>5, <3>3
      <4>2. h < j
        BY <1>1, <1>9, <3>1, <4>1
      <4> QED BY <1>7, <3>1, <4>1, <4>2
    <3> QED BY <3>2, <3>3
  <2> QED BY <2>1, <2>2
<1>10. ASSUME NEW a \in 1..(i + 1), NEW b \in DOMAIN ss[a] PROVE \E p \in DOMAIN new: next[p] = <<a, b>>
  <2>1. CASE a = i + 1
    <3>1. b \in 1..k
      BY <1>1, <2>1 DEF t
    <3> QED BY <1>3, <2>1, <3>1
  <2>2. CASE a # i + 1
    <3>1. a \in 1..i
      BY <2>2
    <3>2. PICK p \in DOMAIN flat: at[p] = <<a, b>>
      BY <3>1 DEF Spreads
    <3> QED BY <1>1, <1>3, <3>2
  <2> QED BY <2>1, <2>2
<1>11. Spreads(new, ss, i + 1, next, S)
  BY <1>2, <1>4, <1>8, <1>9, <1>10 DEF Spreads
<1> QED BY <1>11 DEF new, t

LEMMA Flattened ==
  ASSUME NEW S, NEW n \in Nat, n > 0, NEW ss \in [1..n -> Seq(S)]
  PROVE  \E at: Spreads(FlattenSeq(ss), ss, n, at, S)
<1> DEFINE T == Seq(S)
           G == [i \in Nat |-> [x \in T |-> IF i \in 1..n THEN x \o ss[i] ELSE x]]
           value(f, i) == IF i = 1 THEN ss[i] ELSE f[i - 1] \o ss[i]
           P(f) == f = [i \in 1..n |-> value(f, i)]
           f == CHOOSE g: P(g)
<1>1. \E g: P(g)
  <2>1. \A i \in Nat, x \in T: (IF i \in 1..n THEN x \o ss[i] ELSE x) \in T
    OBVIOUS
  <2>2. <<>> \in T
    OBVIOUS
  <2>0. \A i \in 1..n: ss[i] \in T /\ <<>> \o ss[i] = ss[i]
    OBVIOUS
  <2> HIDE DEF T
  <2>3. G \in [Nat -> [T -> T]] /\ \A i \in 1..n: \A x \in T: G[i][x] = x \o ss[i]
    BY <2>1
  <2> HIDE DEF G
  <2>4. PICK g: Iterates(g, T, <<>>, G)
    BY <2>2, <2>3, Recursion
  <2>5. \A i \in 1..n: g[i] = g[i - 1] \o ss[i] /\ g[0] = <<>>
    <3>1. ASSUME NEW i \in 1..n PROVE g[i] = g[i - 1] \o ss[i] /\ g[0] = <<>>
      <4>1. i \in Nat /\ i # 0 /\ i - 1 \in Nat /\ 0 \in Nat
        OBVIOUS
      <4>2. g[i] = G[i][g[i - 1]] /\ g[i - 1] \in T /\ g[0] = <<>>
        BY <2>4, <4>1 DEF Iterates
      <4> QED BY <2>3, <4>2
    <3> QED BY <3>1
  <2> DEFINE h == [i \in 1..n |-> g[i]]
  <2>6. ASSUME NEW i \in 1..n PROVE h[i] = value(h, i)
    <3>1. CASE i = 1
      <4>1. g[1] = g[1 - 1] \o ss[1] /\ g[0] = <<>> /\ 1 - 1 = 0
        BY <2>5, <3>1
      <4> QED BY <2>0, <3>1, <4>1
    <3>2. CASE i # 1
      <4>1. i - 1 \in 1..n
        BY <3>2
      <4> QED BY <2>5, <3>2, <4>1
    <3> QED BY <3>1, <3>2
  <2>7. P(h)
    <3> HIDE DEF value
    <3>1. h = [i \in 1..n |-> h[i]]
      OBVIOUS
    <3> HIDE DEF h
    <3> QED BY <2>6, <3>1
  <2> HIDE DEF P
  <2> QED BY <2>7
<1>2. P(f)
  <2> HIDE DEF P
  <2> QED BY <1>1
<1>3. FlattenSeq(ss) = f[n]
  <2>1. Len(ss) = n
    OBVIOUS
  <2> QED BY <2>1 DEF FlattenSeq
<1> HIDE DEF f
<1>4. f[1] = ss[1] /\ \A i \in 1..n: i # 1 => f[i] = f[i - 1] \o ss[i]
  <2>1. \A i \in 1..n: f[i] = value(f, i)
    <3> HIDE DEF value
    <3> QED BY <1>2
  <2>2. 1 \in 1..n
    OBVIOUS
  <2>3. f[1] = value(f, 1)
    BY <2>1, <2>2
  <2>4. \A i \in 1..n: i # 1 => value(f, i) = f[i - 1] \o ss[i]
    OBVIOUS
  <2>5. \A i \in 1..n: i # 1 => f[i] = f[i - 1] \o ss[i]
    <3> HIDE DEF value
    <3> QED BY <2>1, <2>4
  <2> QED BY <2>3, <2>5
<1> HIDE DEF P, G, T
<1> DEFINE N == {i \in Nat: i + 1 <= n => \E at: Spreads(f[i + 1], ss, i + 1, at, S)}
<1>5. 0 \in N
  <2> DEFINE at == [p \in DOMAIN ss[1] |-> <<1, p>>]
  <2>1. ss[1] \in Seq(S) /\ DOMAIN ss[1] \in SUBSET Nat
    OBVIOUS
  <2>2. Spreads(ss[1], ss, 1, at, S)
    <3>1. at \in [DOMAIN ss[1] -> (1..1) \X Nat]
      BY <2>1
    <3>2. \A a \in 1..1: a = 1
      OBVIOUS
    <3> QED BY <2>1, <3>1, <3>2 DEF Spreads
  <2> HIDE DEF at
  <2> QED BY <1>4, <2>2
<1>6. ASSUME NEW i \in N PROVE i + 1 \in N
  <2> SUFFICES ASSUME (i + 1) + 1 <= n PROVE \E at: Spreads(f[(i + 1) + 1], ss, (i + 1) + 1, at, S)
    OBVIOUS
  <2>1. i \in Nat /\ i + 1 \in Nat /\ i + 1 <= n /\ (i + 1) + 1 \in 1..n /\ (i + 1) + 1 # 1 /\ ((i + 1) + 1) - 1 = i + 1
    OBVIOUS
  <2>2. PICK at: Spreads(f[i + 1], ss, i + 1, at, S)
    BY <2>1
  <2>3. \E next: Spreads(f[i + 1] \o ss[(i + 1) + 1], ss, (i + 1) + 1, next, S)
    BY <2>1, <2>2, SpreadsMore
  <2>4. f[(i + 1) + 1] = f[i + 1] \o ss[(i + 1) + 1]
    BY <1>4, <2>1
  <2> QED BY <2>3, <2>4
<1>7. n - 1 \in N
  <2>1. N \in SUBSET Nat /\ n - 1 \in Nat
    OBVIOUS
  <2> HIDE DEF N
  <2> QED BY <1>5, <1>6, <2>1, Induction
<1>8. (n - 1) + 1 = n
  OBVIOUS
<1> QED BY <1>3, <1>7, <1>8

\* Where a lookup of k at s may find something, in the order of the search.
Searches(flat, at, k, s) ==
  /\ DOMAIN flat = 1..Len(flat) /\ Len(flat) \in Nat
  /\ \A p \in DOMAIN flat: at[p] \in Levels /\ flat[p] \in levels[at[p]]
  /\ \A p, q \in DOMAIN flat:
       p < q => at[p] < at[q] \/ (at[p] = 0 /\ at[q] = 0 /\ flat[p].number > flat[q].number)
  /\ KeysDisjoint =>
       \A l \in Levels: \A f \in levels[l]:
         AtMost(f.entries, k, s) # {} => \E p \in DOMAIN flat: flat[p] = f

NewestFirst(F) == Ranked(F, LAMBDA f, g: f.number > g.number)

LEMMA NewestFirstRight ==
  ASSUME Typed, NEW F \in SUBSET levels[0]
  PROVE  /\ Lists(NewestFirst(F), F) /\ Cardinality(F) \in Nat
         /\ \A i, j \in 1..Cardinality(F): i < j => NewestFirst(F)[i].number > NewestFirst(F)[j].number
<1> DEFINE below == [x \in F |-> {y \in F: y.number > x.number}]
           r == NewestFirst(F)
<1>1. IsFiniteSet(F)
  BY LevelsNat, FS_Subset DEF Typed, FilesRight
<1>2. \A f \in F: f.number \in Nat
  BY LevelsNat, LevelFile
<1>3. \A f, g \in F: f.number = g.number => f = g
  BY LevelsNat DEF Typed, Numbered
<1>4. StrictOrder(F, below)
  BY <1>2, <1>3 DEF StrictOrder
<1>5. \A x \in F: below[x] = {y \in F: y.number > x.number}
  OBVIOUS
<1>6. Ranks(r, F, below)
  <2>1. r = [i \in 1..Cardinality(F) |-> r[i]]
    <3> DEFINE place(i) == CHOOSE x \in F: Cardinality({y \in F: y.number > x.number}) = i - 1
    <3>1. r = [i \in 1..Cardinality(F) |-> place(i)]
      BY DEF NewestFirst, Ranked
    <3> HIDE DEF place, r
    <3> QED BY <3>1
  <2>2. ASSUME NEW i \in 1..Cardinality(F), NEW x \in F, Cardinality(below[x]) = i - 1
        PROVE  r[i] \in F /\ Cardinality(below[r[i]]) = i - 1
    <3>1. r[i] = CHOOSE z \in F: Cardinality({y \in F: y.number > z.number}) = i - 1
      BY DEF NewestFirst, Ranked
    <3>2. Cardinality({y \in F: y.number > x.number}) = i - 1
      BY <1>5, <2>2
    <3>3. r[i] \in F /\ Cardinality({y \in F: y.number > r[i].number}) = i - 1
      BY <3>1, <3>2
    <3> QED BY <1>5, <3>3
  <2> HIDE DEF below, r
  <2> QED BY <2>1, <2>2 DEF Ranks
<1>7. \A x, y \in F: x \in below[y] => x.number > y.number
  OBVIOUS
<1> HIDE DEF below, r
<1>8. Lists(r, F) /\ \A i, j \in 1..Cardinality(F): i < j => r[i] \in below[r[j]]
  BY <1>1, <1>4, <1>6, RankedLists
<1>9. \A i \in 1..Cardinality(F): r[i] \in F
  BY <1>8 DEF Lists
<1> QED BY <1>1, <1>7, <1>8, <1>9, FS_CardinalityType DEF r

LEMMA SetToSeqOne ==
  ASSUME NEW S, S = {} \/ \E g: S = {g}
  PROVE  /\ SetToSeq(S) \in Seq(S) /\ Len(SetToSeq(S)) <= 1
         /\ \A x \in S: 1 \in DOMAIN SetToSeq(S) /\ SetToSeq(S)[1] = x
<1>1. CASE S = {}
  <2>1. Cardinality(S) = 0 /\ 1..0 = {}
    BY <1>1, FS_EmptySet
  <2>2. <<>> \in [1..0 -> S] /\ IsInjective(<<>>)
    BY <2>1 DEF IsInjective
  <2>3. SetToSeq(S) \in [1..0 -> S]
    BY <2>1, <2>2 DEF SetToSeq
  <2>4. SetToSeq(S) \in Seq(S) /\ Len(SetToSeq(S)) = 0
    BY <2>3
  <2> QED BY <1>1, <2>4
<1>2. CASE S # {}
  <2>1. PICK g: S = {g}
    BY <1>2
  <2>2. Cardinality(S) = 1
    BY <2>1, FS_Singleton
  <2> DEFINE h == [i \in 1..1 |-> g]
  <2>3. h \in [1..1 -> S] /\ IsInjective(h)
    BY <2>1 DEF IsInjective
  <2> HIDE DEF h
  <2>4. SetToSeq(S) \in [1..1 -> S]
    BY <2>2, <2>3 DEF SetToSeq
  <2> DEFINE q == SetToSeq(S)
  <2> HIDE DEF q
  <2>7. q \in [1..1 -> S]
    BY <2>4 DEF q
  <2>8. q \in Seq(S) /\ Len(q) = 1 /\ 1 \in DOMAIN q
    <3>1. 1 \in Nat
      OBVIOUS
    <3>2. q \in Seq(S)
      <4>1. \A m \in Nat: \A r \in [1..m -> S]: r \in Seq(S)
        OBVIOUS
      <4> QED BY <2>7, <3>1, <4>1
    <3>3. DOMAIN q = 1..1
      BY <2>7
    <3>4. Len(q) = 1
      BY <3>1, <3>2, <3>3, LenProperties
    <3> QED BY <3>2, <3>3, <3>4
  <2>9. q[1] = g
    <3>1. 1 \in 1..1
      OBVIOUS
    <3>2. q[1] \in S
      BY <2>7, <3>1
    <3> QED BY <2>1, <3>2
  <2>5. \A x \in S: 1 \in DOMAIN q /\ q[1] = x
    BY <2>1, <2>8, <2>9
  <2>6. q \in Seq(S) /\ Len(q) <= 1
    BY <2>8
  <2> QED BY <2>5, <2>6 DEF q
<1> QED BY <1>1, <1>2

\* What a lookup finds in a level below 0.
Deeper(l, k, s) == {f \in FindFile(levels[l], <<k, s, "put">>): f.smallest[1] <= k}

LEMMA DeeperRight ==
  ASSUME Typed, NEW l \in Levels, l # 0, NEW k \in Keys, NEW s \in Nat
  PROVE  /\ Deeper(l, k, s) \subseteq levels[l] /\ (Deeper(l, k, s) = {} \/ \E g: Deeper(l, k, s) = {g})
         /\ KeysDisjoint => \A f \in levels[l]: AtMost(f.entries, k, s) # {} => f \in Deeper(l, k, s)
<1> DEFINE later == {f \in levels[l]: ~Before(f.largest, <<k, s, "put">>)}
           h == Head(InOrder(later))
<1>1. FindFile(levels[l], <<k, s, "put">>) = IF later = {} THEN {} ELSE {h}
  BY DEF FindFile
<1>2. Files(levels[l]) /\ Files(later)
  BY LevelFilesOne, FilesSubset
<1> HIDE DEF h
<1>3. later # {} => h \in later /\ \A f \in later: f = h \/ FileBefore(h, f)
  <2> HIDE DEF later
  <2> QED BY <1>2, HeadInOrder DEF h
<1>4. Deeper(l, k, s) \subseteq levels[l] /\ (Deeper(l, k, s) = {} \/ \E g: Deeper(l, k, s) = {g})
  <2>1. CASE later = {}
    BY <1>1, <2>1 DEF Deeper
  <2>2. CASE later # {}
    <3>1. Deeper(l, k, s) \subseteq {h} /\ h \in levels[l]
      BY <1>1, <1>3, <2>2 DEF Deeper
    <3> QED BY <3>1
  <2> QED BY <2>1, <2>2
<1>5. ASSUME KeysDisjoint, NEW f \in levels[l], AtMost(f.entries, k, s) # {} PROVE f \in Deeper(l, k, s)
  <2>1. PICK e \in f.entries: e[1] = k /\ e[2] <= s
    BY <1>5 DEF AtMost
  <2>2. /\ e \in Entry /\ f.largest \in Entry /\ f.smallest \in Entry
        /\ e = f.largest \/ Before(e, f.largest)
        /\ f.smallest[1] <= k /\ k <= f.largest[1]
    BY <2>1, LevelFile DEF FileRight, Greatest
  <2>3. f \in later
    <3>1. f.largest[1] \in Nat /\ f.largest[2] \in Nat /\ e[1] \in Nat /\ e[2] \in Nat /\ k \in Nat
      BY <2>2, EntryParts, KeysNat
    <3>2. ~(f.largest[1] < k \/ (f.largest[1] = k /\ f.largest[2] > s))
      BY <2>1, <2>2, <3>1 DEF Before
    <3>3. ~Before(f.largest, <<k, s, "put">>)
      BY <3>2 DEF Before
    <3> QED BY <3>3
  <2>4. h \in levels[l] /\ ~Before(h.largest, <<k, s, "put">>) /\ (f = h \/ FileBefore(h, f))
    BY <1>3, <2>3
  <2>5. f = h
    <3>1. SUFFICES ASSUME f # h PROVE FALSE
      OBVIOUS
    <3>2. /\ h.largest[1] \in Nat /\ h.smallest[1] \in Nat /\ f.smallest[1] \in Nat /\ f.largest[1] \in Nat
          /\ h.smallest[1] <= h.largest[1] /\ f.smallest[1] <= f.largest[1]
      BY <1>2, <2>4, FileKeys
    <3>3. ~(h.largest[1] < k) /\ k \in Nat
      BY <2>4, KeysNat DEF Before
    <3>4. h.smallest[1] <= f.smallest[1]
      <4>1. h.smallest \in Entry /\ f.smallest \in Entry
        BY <2>4, LevelFile
      <4>2. Before(h.smallest, f.smallest) \/ h.smallest = f.smallest
        BY <2>4, <3>1 DEF FileBefore
      <4> QED BY <3>2, <4>1, <4>2, BeforeOrder
    <3>5. Left(f, h) \/ Left(h, f)
      BY <1>5, <2>4, <3>1 DEF KeysDisjoint
    <3> QED BY <2>2, <3>2, <3>3, <3>4, <3>5 DEF Left
  <2> QED BY <1>1, <2>2, <2>3, <2>5 DEF Deeper
<1> QED BY <1>4, <1>5

LEMMA CandidatesRight ==
  ASSUME Typed, NEW k \in Keys, NEW s \in Nat
  PROVE  \E at: Searches(Candidates(levels, k, s), at, k, s)
<1> DEFINE F == {f \in levels[0]: Touches(f, k, k)}
           rest == [l \in 1..(NumLevels - 1) |-> SetToSeq(Deeper(l, k, s))]
           ss == <<NewestFirst(F)>> \o rest
           S == UNION {levels[l] : l \in Levels}
           flat == FlattenSeq(ss)
           n == NumLevels
<1>1. n \in Nat /\ n > 1 /\ \A l \in 1..(n - 1): l \in Levels /\ l # 0
  BY LevelsAssumption DEF Levels
<1>2. flat = Candidates(levels, k, s)
  BY DEF Candidates, NewestFirst, Deeper
<1>3. /\ Lists(NewestFirst(F), F) /\ Cardinality(F) \in Nat
      /\ \A i, j \in 1..Cardinality(F): i < j => NewestFirst(F)[i].number > NewestFirst(F)[j].number
  BY NewestFirstRight
<1>4. \A l \in 1..(n - 1): /\ rest[l] \in Seq(Deeper(l, k, s)) /\ Deeper(l, k, s) \subseteq levels[l]
                           /\ Len(rest[l]) <= 1
                           /\ \A f \in Deeper(l, k, s): 1 \in DOMAIN rest[l] /\ rest[l][1] = f
  <2>1. ASSUME NEW l \in 1..(n - 1)
        PROVE  /\ rest[l] \in Seq(Deeper(l, k, s)) /\ Deeper(l, k, s) \subseteq levels[l]
               /\ Len(rest[l]) <= 1
               /\ \A f \in Deeper(l, k, s): 1 \in DOMAIN rest[l] /\ rest[l][1] = f
    <3>1. rest[l] = SetToSeq(Deeper(l, k, s))
      OBVIOUS
    <3>2. Deeper(l, k, s) \subseteq levels[l] /\ (Deeper(l, k, s) = {} \/ \E g: Deeper(l, k, s) = {g})
      BY <1>1, DeeperRight
    <3> DEFINE D == Deeper(l, k, s)
    <3> HIDE DEF rest, D
    <3>3. D = {} \/ \E g: D = {g}
      BY <3>2 DEF D
    <3>4. /\ SetToSeq(D) \in Seq(D) /\ Len(SetToSeq(D)) <= 1
          /\ \A f \in D: 1 \in DOMAIN SetToSeq(D) /\ SetToSeq(D)[1] = f
      BY <3>3, SetToSeqOne
    <3> QED BY <3>1, <3>2, <3>4 DEF D
  <2> QED BY <2>1
<1>5. DOMAIN ss = 1..n /\ ss[1] = NewestFirst(F) /\ \A a \in 2..n: ss[a] = rest[a - 1]
  <2>1. rest \in Seq({rest[l] : l \in 1..(n - 1)}) /\ Len(rest) = n - 1
    BY <1>1
  <2> HIDE DEF rest, F
  <2>2. Len(<<NewestFirst(F)>>) = 1 /\ <<NewestFirst(F)>> \in Seq({NewestFirst(F)})
    OBVIOUS
  <2> QED BY <1>1, <2>1, <2>2
<1> HIDE DEF F, rest, ss, flat
<1>6. /\ DOMAIN ss[1] = 1..Cardinality(F) /\ \A b \in DOMAIN ss[1]: ss[1][b] \in levels[0]
      /\ \A f \in F: \E b \in DOMAIN ss[1]: ss[1][b] = f
      /\ ss[1] \in Seq(S)
  <2>1. F \subseteq levels[0] /\ F \subseteq S
    BY LevelsNat DEF F
  <2>2. NewestFirst(F) \in [1..Cardinality(F) -> F] /\ \A f \in F: \E i \in 1..Cardinality(F): NewestFirst(F)[i] = f
    BY <1>3 DEF Lists
  <2>3. NewestFirst(F) \in Seq(F)
    BY <1>3, <2>2
  <2> HIDE DEF S
  <2> QED BY <1>5, <2>1, <2>2, <2>3
<1>7. ASSUME NEW a \in 2..n
      PROVE  /\ a - 1 \in 1..(n - 1) /\ ss[a] \in Seq(S) /\ Len(ss[a]) <= 1
             /\ \A b \in DOMAIN ss[a]: ss[a][b] \in levels[a - 1] /\ b = 1
             /\ \A f \in Deeper(a - 1, k, s): 1 \in DOMAIN ss[a] /\ ss[a][1] = f
  <2>1. a - 1 \in 1..(n - 1)
    BY <1>1
  <2>2. levels[a - 1] \subseteq S
    BY <1>1, <2>1
  <2>3. ss[a] \in Seq(Deeper(a - 1, k, s)) /\ Len(ss[a]) <= 1 /\ Deeper(a - 1, k, s) \subseteq levels[a - 1]
        /\ \A f \in Deeper(a - 1, k, s): 1 \in DOMAIN ss[a] /\ ss[a][1] = f
    BY <1>4, <1>5, <2>1
  <2> HIDE DEF S
  <2> QED BY <2>1, <2>2, <2>3
<1>8. ss \in [1..n -> Seq(S)]
  <2>1. \A a \in 1..n: a = 1 \/ a \in 2..n
    OBVIOUS
  <2>2. \A a \in 1..n: ss[a] \in Seq(S)
    BY <1>6, <1>7, <2>1
  <2> DEFINE V == {NewestFirst(F)} \cup {rest[l] : l \in 1..(n - 1)}
  <2>3. ss \in Seq(V)
    <3>1. <<NewestFirst(F)>> \in Seq(V)
      OBVIOUS
    <3>2. rest \in Seq(V)
      <4>1. rest = [l \in 1..(n - 1) |-> rest[l]]
        BY DEF rest
      <4>2. rest \in [1..(n - 1) -> V]
        BY <4>1
      <4> HIDE DEF V
      <4>3. n - 1 \in Nat
        BY <1>1
      <4> QED BY <4>2, <4>3
    <3> HIDE DEF V
    <3> QED BY <3>1, <3>2 DEF ss
  <2> HIDE DEF S, V
  <2>4. ss = [a \in 1..Len(ss) |-> ss[a]] /\ DOMAIN ss = 1..Len(ss)
    BY <2>3
  <2>5. ss = [a \in 1..n |-> ss[a]]
    BY <1>5, <2>4
  <2> QED BY <2>2, <2>5
<1>9. PICK at: Spreads(flat, ss, n, at, S)
  <2> HIDE DEF S
  <2> QED BY <1>1, <1>8, Flattened DEF flat
<1> DEFINE lv == [p \in DOMAIN flat |-> at[p][1] - 1]
<1>16. \A p \in DOMAIN flat: lv[p] = at[p][1] - 1
  OBVIOUS
<1> HIDE DEF lv, S
<1>10. flat \in Seq(S) /\ DOMAIN flat = 1..Len(flat) /\ Len(flat) \in Nat
  <2> HIDE DEF S
  <2> QED BY <1>9 DEF Spreads
<1>11. \A p \in DOMAIN flat: /\ at[p][1] \in 1..n /\ at[p][2] \in DOMAIN ss[at[p][1]]
                             /\ flat[p] = ss[at[p][1]][at[p][2]] /\ at[p][2] \in Nat
  <2>1. ASSUME NEW p \in DOMAIN flat
        PROVE  /\ at[p][1] \in 1..n /\ at[p][2] \in DOMAIN ss[at[p][1]]
               /\ flat[p] = ss[at[p][1]][at[p][2]] /\ at[p][2] \in Nat
    <3>1. at[p] \in (1..n) \X Nat
      BY <1>9 DEF Spreads
    <3> QED BY <1>9, <3>1 DEF Spreads
  <2> QED BY <2>1
<1>12. ASSUME NEW p \in DOMAIN flat PROVE lv[p] \in Levels /\ flat[p] \in levels[lv[p]]
  <2>1. at[p][1] \in 1..n /\ lv[p] = at[p][1] - 1
    BY <1>11, <1>16
  <2>2. lv[p] \in Levels
    BY <1>1, <2>1 DEF Levels
  <2>3. CASE at[p][1] = 1
    <3>1. at[p][2] \in DOMAIN ss[1] /\ flat[p] = ss[1][at[p][2]] /\ lv[p] = 0
      BY <1>11, <2>1, <2>3
    <3>2. ss[1][at[p][2]] \in levels[0]
      BY <1>6, <3>1
    <3> QED BY <2>2, <3>1, <3>2
  <2>4. CASE at[p][1] # 1
    <3>1. at[p][1] \in 2..n
      BY <1>1, <2>1, <2>4
    <3>2. ss[at[p][1]][at[p][2]] \in levels[at[p][1] - 1]
      BY <1>7, <1>11, <3>1
    <3> QED BY <1>11, <2>1, <2>2, <3>2
  <2> QED BY <2>3, <2>4
<1>13. ASSUME NEW p \in DOMAIN flat, NEW q \in DOMAIN flat, p < q
       PROVE  lv[p] < lv[q] \/ (lv[p] = 0 /\ lv[q] = 0 /\ flat[p].number > flat[q].number)
  <2>1. at[p][1] < at[q][1] \/ (at[p][1] = at[q][1] /\ at[p][2] < at[q][2])
    BY <1>9, <1>13 DEF Spreads
  <2>2. /\ at[p][1] \in 1..n /\ at[q][1] \in 1..n /\ at[p][2] \in Nat /\ at[q][2] \in Nat
        /\ lv[p] = at[p][1] - 1 /\ lv[q] = at[q][1] - 1
    BY <1>11, <1>16
  <2>3. CASE at[p][1] < at[q][1]
    BY <2>2, <2>3
  <2>4. CASE at[p][1] = at[q][1] /\ at[p][2] < at[q][2]
    <3>1. at[p][1] = 1
      <4>1. SUFFICES ASSUME at[p][1] # 1 PROVE FALSE
        OBVIOUS
      <4>2. at[p][1] \in 2..n /\ at[q][1] \in 2..n
        BY <1>1, <2>2, <2>4, <4>1
      <4>3. at[p][2] = 1
        BY <1>7, <1>11, <4>2
      <4>4. at[q][2] = 1
        BY <1>7, <1>11, <4>2
      <4> QED BY <2>4, <4>3, <4>4
    <3>2. flat[p] = NewestFirst(F)[at[p][2]] /\ flat[q] = NewestFirst(F)[at[q][2]]
          /\ at[p][2] \in 1..Cardinality(F) /\ at[q][2] \in 1..Cardinality(F)
      <4>1. at[q][1] = 1
        BY <2>4, <3>1
      <4>2. /\ flat[p] = ss[1][at[p][2]] /\ flat[q] = ss[1][at[q][2]]
            /\ at[p][2] \in DOMAIN ss[1] /\ at[q][2] \in DOMAIN ss[1]
        BY <1>11, <3>1, <4>1
      <4> QED BY <1>5, <1>6, <4>2
    <3>3. flat[p].number > flat[q].number
      BY <1>3, <2>4, <3>2
    <3> QED BY <2>2, <2>4, <3>1, <3>3
  <2> QED BY <2>1, <2>3, <2>4
<1>14. ASSUME KeysDisjoint, NEW l \in Levels, NEW f \in levels[l], AtMost(f.entries, k, s) # {}
       PROVE  \E p \in DOMAIN flat: flat[p] = f
  <2>1. ASSUME NEW a \in 1..n, NEW b \in DOMAIN ss[a], ss[a][b] = f PROVE \E p \in DOMAIN flat: flat[p] = f
    <3>1. PICK p \in DOMAIN flat: at[p] = <<a, b>>
      BY <1>9 DEF Spreads
    <3> QED BY <1>11, <2>1, <3>1
  <2>2. CASE l = 0
    <3>1. PICK e \in f.entries: e[1] = k
      BY <1>14 DEF AtMost
    <3>2. f.smallest[1] <= k /\ k <= f.largest[1]
      BY <3>1, LevelFile
    <3>3. k \in Nat /\ f.largest[1] \in Nat
      BY KeysNat, LevelFilesOne, FileKeys
    <3>4. f \in F
      BY <2>2, <3>2, <3>3 DEF F, Touches
    <3>5. 1 \in 1..n
      BY <1>1
    <3> QED BY <1>6, <2>1, <3>4, <3>5
  <2>3. CASE l # 0
    <3>1. f \in Deeper(l, k, s)
      BY <1>14, <2>3, DeeperRight
    <3>2. l + 1 \in 2..n /\ (l + 1) - 1 = l
      BY <1>1, <2>3 DEF Levels
    <3>3. 1 \in DOMAIN ss[l + 1] /\ ss[l + 1][1] = f
      BY <1>7, <3>1, <3>2
    <3>4. l + 1 \in 1..n
      BY <3>2
    <3> QED BY <2>1, <3>3, <3>4
  <2> QED BY <2>2, <2>3
<1>15. Searches(flat, lv, k, s)
  <2> QED BY <1>10, <1>12, <1>13, <1>14 DEF Searches
<1> QED BY <1>2, <1>15

-----------------------------------------------------------------------------
(* Where a memtable goes, and where a lookup stops.                        *)

LEMMA PickLevelRight ==
  ASSUME Typed, NEW b \in Nat, NEW e \in Nat
  PROVE  LET L == PickLevelForMemTableOutput(b, e)
         IN L \in Levels /\ (L # 0 => \A m \in 0..L: ~OverlapInLevel(m, b, e))
<1> DEFINE passes(l) == /\ ~OverlapInLevel(l, b, e)
                        /\ l + 1 < NumLevels =>
                             TotalFileSize(Overlapping(l + 1, b, e)) <= limits.grandparents
           T == {l \in 0..MaxMemCompactLevel: \A m \in 1..l: passes(m)}
<1>1. PickLevelForMemTableOutput(b, e) = IF OverlapInLevel(0, b, e) THEN 0 ELSE Max(T)
  BY DEF PickLevelForMemTableOutput
<1>2. MaxMemCompactLevel \in Nat /\ MaxMemCompactLevel \in 0..(NumLevels - 1) /\ NumLevels \in Nat
  BY LevelsAssumption
<1>3. T \in SUBSET Nat /\ 0 \in T /\ \A y \in T: y <= MaxMemCompactLevel /\ y \in Levels
  BY <1>2 DEF Levels
<1>4. ASSUME NEW l \in T PROVE \A m \in 1..l: ~OverlapInLevel(m, b, e)
  OBVIOUS
<1> HIDE DEF T
<1>5. Max(T) \in T
  BY <1>2, <1>3, MaxNat
<1>6. \A l \in T: \A m \in 0..l: m = 0 \/ m \in 1..l
  BY <1>3
<1> QED BY <1>1, <1>3, <1>4, <1>5, <1>6

LEMMA VisitedRight ==
  ASSUME NEW files, DOMAIN files = 1..Len(files), Len(files) \in Nat, NEW k, NEW s
  PROVE  LET n == Visited(files, k, s)
             hit(i) == AtMost(files[i].entries, k, s) # {}
         IN /\ n \in 0..Len(files)
            /\ \A i \in 1..Len(files): hit(i) => n \in 1..Len(files) /\ hit(n) /\ n <= i
            /\ (\A i \in 1..Len(files): ~hit(i)) => n = Len(files)
<1> DEFINE hits == {i \in DOMAIN files: AtMost(files[i].entries, k, s) # {}}
<1>1. Visited(files, k, s) = IF hits = {} THEN Len(files) ELSE Min(hits)
  BY DEF Visited
<1>2. CASE hits = {}
  <2>1. \A i \in 1..Len(files): AtMost(files[i].entries, k, s) = {}
    BY <1>2
  <2> QED BY <1>1, <1>2, <2>1
<1>3. CASE hits # {}
  <2>1. hits \in SUBSET Nat /\ \A i \in 1..Len(files): AtMost(files[i].entries, k, s) # {} <=> i \in hits
    OBVIOUS
  <2>2. \A i \in hits: i \in 1..Len(files)
    OBVIOUS
  <2> HIDE DEF hits
  <2>3. Min(hits) \in hits /\ \A i \in hits: Min(hits) <= i
    BY <1>3, <2>1, MinNat
  <2> DEFINE m == Visited(files, k, s)
  <2>4. m \in hits /\ \A i \in hits: m <= i
    BY <1>1, <1>3, <2>3
  <2> HIDE DEF m
  <2>5. m \in 1..Len(files) /\ AtMost(files[m].entries, k, s) # {}
    BY <2>1, <2>2, <2>4
  <2>6. m \in 0..Len(files)
    BY <2>5
  <2>7. \A i \in 1..Len(files): AtMost(files[i].entries, k, s) # {} => m <= i
    BY <2>1, <2>4
  <2> QED BY <2>5, <2>6, <2>7 DEF m
<1> QED BY <1>2, <1>3

\* A file is charged with a second one behind it, so its level has one below it.
LEMMA ChargedRight ==
  ASSUME Typed, NEW k \in Keys, NEW s \in Nat, Missed(k, s) \/ Sampled(k, s)
  PROVE  LET files == Candidates(levels, k, s)
             l == CHOOSE l \in Levels: files[1] \in levels[l]
         IN l \in 0..(NumLevels - 2) /\ files[1] \in levels[l]
<1> DEFINE files == Candidates(levels, k, s)
           l == CHOOSE l \in Levels: files[1] \in levels[l]
<1>1. Visited(files, k, s) >= 2 \/ Len(files) >= 2
  BY DEF Missed, Sampled
<1>2. PICK at: Searches(files, at, k, s)
  BY CandidatesRight
<1> HIDE DEF files
<1>3. DOMAIN files = 1..Len(files) /\ Len(files) \in Nat
  BY <1>2 DEF Searches
<1> SUFFICES l \in 0..(NumLevels - 2) /\ files[1] \in levels[l]
  BY DEF files
<1>4. Visited(files, k, s) \in 0..Len(files) /\ Len(files) >= 2
  BY <1>1, <1>3, VisitedRight
<1>5. 1 \in DOMAIN files /\ 2 \in DOMAIN files
  BY <1>3, <1>4
<1>6. at[1] \in Levels /\ at[2] \in Levels /\ files[1] \in levels[at[1]]
      /\ (at[1] < at[2] \/ at[1] = 0)
  BY <1>2, <1>5 DEF Searches
<1>7. l \in Levels /\ files[1] \in levels[l]
  BY <1>6
<1>8. l = at[1]
  BY <1>6, <1>7 DEF Typed, Numbered
<1>9. NumLevels \in Nat /\ NumLevels > 1
  BY LevelsAssumption
<1>10. at[1] \in 0..(NumLevels - 2)
  BY <1>6, <1>9 DEF Levels
<1> QED BY <1>7, <1>8, <1>10

-----------------------------------------------------------------------------
(* A read that stops early finds what a scan finds.                        *)

LEMMA NewestRight ==
  ASSUME NEW A \in SUBSET Entry, A # {}, NEW b \in Nat, \A e \in A: e[2] <= b
  PROVE  Newest(A) \in A /\ \A x \in A: x[2] <= Newest(A)[2]
<1> DEFINE N == {e[2] : e \in A}
<1>1. N \in SUBSET Nat /\ N # {} /\ \A y \in N: y <= b
  BY EntryParts
<1>2. \A e \in A: e[2] \in N
  OBVIOUS
<1>3. \A y \in N: \E e \in A: e[2] = y
  OBVIOUS
<1> HIDE DEF N
<1>4. Max(N) \in N /\ \A y \in N: y <= Max(N)
  BY <1>1, MaxNat
<1>5. PICK e \in A: e[2] = Max(N)
  BY <1>3, <1>4
<1>6. \A x \in A: x[2] <= e[2]
  BY <1>2, <1>4, <1>5
<1> QED BY <1>6 DEF Newest

\* Older entries of its key change nothing.
LEMMA SameValue ==
  ASSUME NEW A \in SUBSET Entry, Distinct(A), NEW b \in Nat, \A e \in A: e[2] <= b,
         NEW B \in SUBSET A, B # {}, \A x \in B, e \in A \ B: x[2] > e[2]
  PROVE  Newest(A) = Newest(B) /\ Value(A) = Value(B)
<1>1. Newest(A) \in A /\ \A x \in A: x[2] <= Newest(A)[2]
  BY NewestRight
<1>2. Newest(B) \in B /\ \A x \in B: x[2] <= Newest(B)[2]
  <2>1. B \in SUBSET Entry /\ \A e \in B: e[2] <= b
    OBVIOUS
  <2> QED BY <2>1, NewestRight
<1>3. Newest(A)[2] \in Nat /\ Newest(B)[2] \in Nat
  BY <1>1, <1>2, EntryParts
<1>4. Newest(A) \in B
  BY <1>1, <1>2, <1>3
<1>5. Newest(A)[2] = Newest(B)[2]
  BY <1>1, <1>2, <1>3, <1>4
<1>6. Newest(A) = Newest(B)
  BY <1>1, <1>2, <1>5 DEF Distinct
<1> QED BY <1>6 DEF Value

LEMMA ReadsFind ==
  ASSUME Typed, KeysDisjoint, NewestAbove, MemNewest, NEW k \in Keys, NEW s \in Nat
  PROVE  Get(k, s) = Scan(k, s)
<1> DEFINE A == AtMost(Stored, k, s)
           M == AtMost(mem, k, s)
<1>1. Scan(k, s) = Value(A)
  BY DEF Scan, Stored, InFiles
<1>2. A \in SUBSET Entry /\ Distinct(A) /\ \A e \in A: e[2] <= s /\ e[1] = k
  <2>1. Stored \in SUBSET Entry
    <3>1. mem \subseteq Entry
      BY EntriesToEntry DEF Typed, MemRight
    <3>2. ASSUME NEW e \in InFiles PROVE e \in Entry
      <4>1. PICK l \in Levels: \E f \in levels[l]: e \in f.entries
        BY DEF InFiles
      <4> QED BY <4>1, LevelFile
    <3> QED BY <3>1, <3>2 DEF Stored
  <2> QED BY <2>1 DEF AtMost, Typed, Distinct
<1>3. CASE M # {}
  <2>1. M \in SUBSET A
    BY DEF AtMost, Stored
  <2>2. \A x \in M, e \in A \ M: x[2] > e[2]
    BY DEF AtMost, Stored, MemNewest
  <2>3. Get(k, s) = Value(M)
    BY <1>3 DEF Get
  <2> HIDE DEF A, M
  <2> QED BY <1>1, <1>2, <1>3, <2>1, <2>2, <2>3, SameValue
<1>4. CASE M = {}
  <2> DEFINE files == Candidates(levels, k, s)
             n == Visited(files, k, s)
             B == AtMost(files[n].entries, k, s)
  <2>1. Get(k, s) = IF n = 0 THEN None ELSE Value(B)
    BY <1>4 DEF Get, VersionGet
  <2>2. PICK at: Searches(files, at, k, s)
    BY CandidatesRight
  <2> HIDE DEF files
  <2>3. DOMAIN files = 1..Len(files) /\ Len(files) \in Nat
    BY <2>2 DEF Searches
  <2>4. /\ n \in 0..Len(files)
        /\ \A i \in 1..Len(files):
             AtMost(files[i].entries, k, s) # {} =>
               n \in 1..Len(files) /\ AtMost(files[n].entries, k, s) # {} /\ n <= i
        /\ (\A i \in 1..Len(files): AtMost(files[i].entries, k, s) = {}) => n = Len(files)
    BY <2>3, VisitedRight
  <2>5. ASSUME NEW e \in A
        PROVE  \E p \in DOMAIN files: e \in AtMost(files[p].entries, k, s)
    <3>1. e \in InFiles /\ e[1] = k /\ e[2] <= s
      BY <1>4 DEF AtMost, Stored
    <3>5. PICK l \in Levels: \E f \in levels[l]: e \in f.entries
      BY <3>1 DEF InFiles
    <3>2. PICK f \in levels[l]: e \in f.entries
      BY <3>5
    <3>3. e \in AtMost(f.entries, k, s)
      BY <3>1, <3>2 DEF AtMost
    <3>4. \E p \in DOMAIN files: files[p] = f
      BY <2>2, <3>3 DEF Searches
    <3> QED BY <3>3, <3>4
  <2>6. CASE \A i \in 1..Len(files): AtMost(files[i].entries, k, s) = {}
    <3>1. A = {}
      BY <2>3, <2>5, <2>6
    <3>2. n = 0 \/ B = {}
      BY <2>3, <2>4, <2>6
    <3> QED BY <1>1, <2>1, <3>1, <3>2 DEF Value
  <2>7. CASE \E i \in 1..Len(files): AtMost(files[i].entries, k, s) # {}
    <3>1. n \in 1..Len(files) /\ B # {}
      BY <2>4, <2>7
    <3>2. at[n] \in Levels /\ files[n] \in levels[at[n]] /\ n \in Nat /\ n # 0
      BY <2>2, <2>3, <3>1 DEF Searches
    <3>3. B \in SUBSET A
      BY <3>2 DEF AtMost, Stored, InFiles
    <3>4. ASSUME NEW x \in B, NEW e \in A \ B PROVE x[2] > e[2]
      <4>1. PICK p \in DOMAIN files: e \in AtMost(files[p].entries, k, s)
        BY <2>5
      <4>2. n <= p /\ n # p /\ p \in Nat
        BY <2>3, <2>4, <3>4, <4>1
      <4>3. at[p] \in Levels /\ files[p] \in levels[at[p]]
        BY <2>2 DEF Searches
      <4>4. at[n] < at[p] \/ (at[n] = 0 /\ at[p] = 0 /\ files[n].number > files[p].number)
        BY <2>2, <2>3, <3>1, <4>2 DEF Searches
      <4>5. x \in files[n].entries /\ e \in files[p].entries /\ x[1] = e[1]
        BY <4>1 DEF AtMost
      <4>6. Newer(files[n], files[p])
        <5>1. CASE at[n] < at[p]
          <6>1. at[n] \in 0..(at[p] - 1)
            BY <3>2, <4>3, <5>1 DEF Levels
          <6> QED BY <3>2, <4>3, <6>1 DEF NewestAbove, Newer
        <5>2. CASE at[n] = 0 /\ at[p] = 0 /\ files[n].number > files[p].number
          BY <3>2, <4>3, <5>2 DEF NewestAbove, Newer
        <5> QED BY <4>4, <5>1, <5>2
      <4> QED BY <4>5, <4>6 DEF Newer
    <3> HIDE DEF A, B
    <3>5. Value(A) = Value(B)
      BY <1>2, <3>1, <3>3, <3>4, SameValue
    <3> QED BY <1>1, <2>1, <3>2, <3>5 DEF B
  <2> QED BY <2>6, <2>7
<1> QED BY <1>3, <1>4

-----------------------------------------------------------------------------
(* What is stored.                                                         *)

LEMMA StoredRight ==
  ASSUME Typed
  PROVE  /\ lastSeq \in Nat /\ Stored \subseteq EntriesTo(lastSeq) /\ Stored \subseteq Entry
         /\ \A e \in Stored: e[1] \in Keys /\ e[2] \in Nat /\ 1 <= e[2] /\ e[2] <= lastSeq
<1>1. lastSeq \in Nat
  BY DEF Typed, Counters
<1>2. ASSUME NEW e \in Stored PROVE e \in EntriesTo(lastSeq)
  <2>1. CASE e \in mem
    BY <2>1 DEF Typed, MemRight
  <2>2. CASE e \in InFiles
    <3>1. PICK l \in Levels: \E f \in levels[l]: e \in f.entries
      BY <2>2 DEF InFiles
    <3> QED BY <3>1, LevelFile
  <2> QED BY <1>2, <2>1, <2>2 DEF Stored
<1>3. \A e \in EntriesTo(lastSeq): e[1] \in Keys /\ e[2] \in 1..lastSeq
  BY DEF EntriesTo
<1> QED BY <1>1, <1>2, <1>3, EntriesToEntry

LEMMA MoreTo ==
  ASSUME NEW n \in Nat, NEW m \in Nat, NEW nn \in Nat, NEW mm \in Nat, n <= nn, m <= mm
  PROVE  EntriesTo(n) \subseteq EntriesTo(nn) /\ FilesTo(n, m) \subseteq FilesTo(nn, mm)
<1>1. EntriesTo(n) \subseteq EntriesTo(nn)
  BY DEF EntriesTo
<1>2. 1..(m - 1) \subseteq 1..(mm - 1)
  OBVIOUS
<1> QED BY <1>1, <1>2 DEF FilesTo

LEMMA InitRight == Init => IInv
<1> SUFFICES ASSUME Init PROVE IInv
  OBVIOUS
<1>1. Stored = {} /\ InFiles = {} /\ \A l \in Levels: levels[l] = {}
  BY DEF Init, Stored, InFiles
<1>2. IsFiniteSet({})
  BY FS_EmptySet
<1>3. DOMAIN held = {}
  BY DEF Init
<1>4. \A k \in Keys, s \in Nat: Scan(k, s) = None
  BY <1>1 DEF Scan, AtMost, Value, Stored, InFiles
<1>5. Counters
  BY <1>2, <1>3 DEF Init, Counters
<1>6. FilesRight /\ Numbered /\ Placed /\ Distinct(Stored)
  BY <1>1, <1>2 DEF FilesRight, Numbered, Placed, Distinct
<1>7. Typed
  BY <1>2, <1>5, <1>6 DEF Init, Typed, MemRight, LevelsTyped, SeekRight, ManualRight, CompTyped
<1>8. 0 \in Levels
  BY LevelsNat
<1>9. KeysDisjoint /\ NewestAbove /\ MemNewest
  <2>1. ASSUME NEW l \in Levels, NEW m \in 0..(l - 1) PROVE levels[l] = {}
    BY <1>1
  <2> QED BY <1>1, <1>8, <2>1 DEF KeysDisjoint, NewestAbove, MemNewest
<1>10. CompRight /\ ScanRight
  BY <1>4 DEF Init, CompRight, ScanRight
<1> QED BY <1>7, <1>9, <1>10 DEF IInv, Ordered

-----------------------------------------------------------------------------
(* Type correctness: writes, snapshots, requests.                          *)

LEMMA WriteTyped ==
  ASSUME Typed, NEW k \in Keys, NEW type \in {"put", "delete"}, Write(k, type)
  PROVE  Typed'
<1> DEFINE n == <<k, lastSeq + 1, type>>
<1>1. /\ lastSeq' = lastSeq + 1 /\ mem' = mem \cup {n}
      /\ contents' = [contents EXCEPT ![k] = IF type = "put" THEN lastSeq + 1 ELSE None]
      /\ levels' = levels /\ nextFile' = nextFile /\ seekFile' = seekFile /\ snapshots' = snapshots
      /\ pointer' = pointer /\ manual' = manual /\ comp' = comp /\ held' = held /\ limits' = limits
  BY DEF Write, version, bounds
<1>2. lastSeq \in Nat /\ nextFile \in Nat
  BY DEF Typed, Counters
<1>3. EntriesTo(lastSeq) \subseteq EntriesTo(lastSeq') /\ FilesTo(lastSeq, nextFile) \subseteq FilesTo(lastSeq', nextFile')
  BY <1>1, <1>2, MoreTo
<1>4. n \in EntriesTo(lastSeq')
  BY <1>1, <1>2 DEF EntriesTo
<1>5. Counters'
  BY <1>1, <1>2 DEF Typed, Counters
<1>6. MemRight'
  BY <1>1, <1>3, <1>4, FS_AddElement DEF Typed, MemRight
<1>7. LevelsTyped'
  BY <1>1, <1>3 DEF Typed, LevelsTyped
<1>8. FilesRight' /\ Numbered' /\ SeekRight' /\ ManualRight' /\ CompTyped'
  BY <1>1 DEF Typed, FilesRight, Numbered, SeekRight, ManualRight, CompTyped, Ins
<1>9. \A e \in Stored: e[2] # n[2]
  BY <1>2, StoredRight
<1>10. Placed'
  <2>1. \A l \in Levels: \A f \in levels[l]: n \notin f.entries
    BY <1>9, LevelFile
  <2> QED BY <1>1, <2>1 DEF Typed, Placed
<1>11. Distinct(Stored)'
  <2>1. Stored' = Stored \cup {n}
    BY <1>1 DEF Stored, InFiles
  <2> QED BY <1>9, <2>1 DEF Typed, Distinct
<1> QED BY <1>5, <1>6, <1>7, <1>8, <1>10, <1>11 DEF Typed

LEMMA GetSnapshotTyped ==
  ASSUME Typed, GetSnapshot
  PROVE  Typed'
<1>1. /\ snapshots' = snapshots \cup {lastSeq} /\ held' = [s \in snapshots' |-> IF s = lastSeq THEN contents ELSE held[s]]
      /\ UNCHANGED <<mem, levels, nextFile, seekFile, lastSeq, pointer, manual, comp, contents, limits>>
  BY DEF GetSnapshot, version, bounds
<1>2. DOMAIN held' = snapshots'
  BY <1>1 DEF Typed, Counters
<1>3. IsFiniteSet(snapshots') /\ snapshots' \subseteq 0..lastSeq
  <2>1. lastSeq \in 0..lastSeq /\ snapshots \subseteq 0..lastSeq /\ IsFiniteSet(snapshots)
    BY DEF Typed, Counters
  <2>2. IsFiniteSet(snapshots \cup {lastSeq})
    BY <2>1, FS_AddElement
  <2> QED BY <1>1, <2>1, <2>2
<1>4. Counters'
  BY <1>1, <1>2, <1>3 DEF Typed, Counters
<1> QED BY <1>1, <1>4 DEF Typed, MemRight, LevelsTyped, FilesRight, Numbered, Placed, Stored, InFiles,
                          SeekRight, ManualRight, CompTyped, Ins

LEMMA ReleaseSnapshotTyped ==
  ASSUME Typed, NEW s \in snapshots, ReleaseSnapshot(s)
  PROVE  Typed'
<1>1. /\ snapshots' = snapshots \ {s} /\ held' = Restrict(held, DOMAIN held \ {s})
      /\ UNCHANGED <<mem, levels, nextFile, seekFile, lastSeq, pointer, manual, comp, contents, limits>>
  BY DEF ReleaseSnapshot, version, bounds
<1>2. DOMAIN held' = snapshots'
  BY <1>1 DEF Typed, Counters, Restrict
<1>3. IsFiniteSet(snapshots') /\ snapshots' \subseteq 0..lastSeq
  BY <1>1, FS_RemoveElement DEF Typed, Counters
<1>4. Counters'
  BY <1>1, <1>2, <1>3 DEF Typed, Counters
<1> QED BY <1>1, <1>4 DEF Typed, MemRight, LevelsTyped, FilesRight, Numbered, Placed, Stored, InFiles,
                          SeekRight, ManualRight, CompTyped, Ins

LEMMA ChargeSeekTyped ==
  ASSUME Typed, NEW k \in Keys, ChargeSeek(k)
  PROVE  Typed'
<1>0. PICK s \in 0..lastSeq:
        /\ Missed(k, s) \/ Sampled(k, s)
        /\ LET files == Candidates(levels, k, s)
           IN seekFile' = <<CHOOSE l \in Levels: files[1] \in levels[l], files[1]>>
  BY DEF ChargeSeek
<1> DEFINE files == Candidates(levels, k, s)
           l == CHOOSE l \in Levels: files[1] \in levels[l]
<1>1. /\ seekFile' = <<l, files[1]>>
      /\ UNCHANGED <<mem, levels, nextFile, lastSeq, snapshots, pointer, manual, comp, contents, held, limits>>
  BY <1>0 DEF ChargeSeek, promised
<1>2. l \in 0..(NumLevels - 2) /\ files[1] \in levels[l]
  <2>1. s \in Nat
    BY DEF Typed, Counters
  <2> QED BY <1>0, <2>1, ChargedRight
<1> HIDE DEF files, l
<1>3. SeekRight'
  BY <1>1, <1>2 DEF SeekRight
<1> QED BY <1>1, <1>3 DEF Typed, Counters, MemRight, LevelsTyped, FilesRight, Numbered, Placed, Stored, InFiles,
                          ManualRight, CompTyped, Ins

LEMMA BeginManualTyped ==
  ASSUME Typed, NEW range \in limits.ranges, BeginManual(range)
  PROVE  Typed'
<1>1. /\ manual' = [level |-> range[1], begin |-> range[2], end |-> range[3]]
      /\ UNCHANGED <<mem, levels, nextFile, seekFile, lastSeq, snapshots, pointer, comp, contents, held, limits>>
  BY DEF BeginManual, version, promised
<1>2. limits \in Scenarios
  BY DEF Typed, Counters
<1>3. range \in (0..(NumLevels - 2)) \X Nat \X Nat
  BY <1>2, ScenariosAssumption
<1>4. ManualRight'
  BY <1>1, <1>3 DEF ManualRight
<1> QED BY <1>1, <1>4 DEF Typed, Counters, MemRight, LevelsTyped, FilesRight, Numbered, Placed, Stored, InFiles,
                          SeekRight, CompTyped, Ins

LEMMA EndManualTyped ==
  ASSUME Typed, EndManual
  PROVE  Typed'
<1>1. /\ manual' = None
      /\ UNCHANGED <<mem, levels, nextFile, seekFile, lastSeq, snapshots, pointer, comp, contents, held, limits>>
  BY DEF EndManual, version, promised, bounds
<1> QED BY <1>1 DEF Typed, Counters, MemRight, LevelsTyped, FilesRight, Numbered, Placed, Stored, InFiles,
                    SeekRight, ManualRight, CompTyped, Ins

LEMMA StutterTyped ==
  ASSUME Typed, UNCHANGED vars
  PROVE  Typed'
<1>1. UNCHANGED <<mem, levels, nextFile, seekFile, lastSeq, snapshots, pointer, manual, comp, contents, held, limits>>
  BY DEF vars, version, promised, bounds
<1> QED BY <1>1 DEF Typed, Counters, MemRight, LevelsTyped, FilesRight, Numbered, Placed, Stored, InFiles,
                    SeekRight, ManualRight, CompTyped, Ins

-----------------------------------------------------------------------------
(* Compactions.                                                            *)

\* What a function yields for the members of a finite set.
LEMMA ImageFinite ==
  ASSUME NEW S, IsFiniteSet(S), NEW f, DOMAIN f = S
  PROVE  IsFiniteSet({f[x] : x \in S})
<1> DEFINE g == [x \in S |-> f[x]]
           T == {f[x] : x \in S}
<1>1. g \in Surjection(S, T)
  BY DEF Surjection
<1> QED BY <1>1, FS_Surjection

LEMMA EntriesFinite ==
  ASSUME NEW F, IsFiniteSet(F), \A f \in F: IsFiniteSet(f.entries)
  PROVE  IsFiniteSet(UNION {f.entries : f \in F})
<1> DEFINE h == [f \in F |-> f.entries]
           T == {h[f] : f \in F}
<1>1. DOMAIN h = F /\ \A f \in F: h[f] = f.entries
  OBVIOUS
<1>2. IsFiniteSet(T)
  <2> HIDE DEF h
  <2> QED BY <1>1, ImageFinite
<1>3. \A t \in T: IsFiniteSet(t)
  OBVIOUS
<1>4. T = {f.entries : f \in F}
  OBVIOUS
<1> HIDE DEF T
<1>5. IsFiniteSet(UNION T)
  BY <1>2, <1>3, FS_UNION
<1> QED BY <1>4, <1>5

\* The merge that begins with some files of a level.
Starting(c, level, X) ==
  /\ c.level = level /\ level \in 0..(NumLevels - 2) /\ level \in Levels /\ level + 1 \in Levels
  /\ c.in0 \subseteq levels[level] /\ c.in0 # {}
  /\ c.in1 \subseteq levels[level + 1] /\ \A f \in levels[level + 1]: f \in c.in1 <=> Meets(f, c.in0)
  /\ c.base = levels
  /\ c.smallestSnapshot = IF snapshots = {} THEN lastSeq ELSE Min(snapshots)
  /\ Mergeable(c)
  /\ KeysDisjoint =>
       /\ level = 0 => Closed(c.in0)
       /\ Gapless(X) => Gapless(c.in0 \cup c.in1)

LEMMA CompactionRight ==
  ASSUME Typed, NEW level, NEW X, Chosen(level, X), X # {}
  PROVE  Starting(CompactionOf(level, X), level, X)
<1> DEFINE in == SetupOtherInputs(level, X)
           c == CompactionOf(level, X)
<1>1. level \in 0..(NumLevels - 2) /\ X \in SUBSET levels[level] /\ (level = 0 => Closed(X))
  BY DEF Chosen
<1>2. level \in Levels /\ level + 1 \in Levels /\ level \in Nat /\ NumLevels \in Nat
  BY <1>1, LevelsNat
<1>3. /\ ChosenOf(level, in)
      /\ KeysDisjoint =>
           /\ level = 0 => Closed(in[1])
           /\ Gapless(X) => Gapless(in[1] \cup in[2])
  BY <1>1, SetupRight
<1> HIDE DEF in
<1>4. /\ c.level = level /\ c.in0 = in[1] /\ c.in1 = in[2] /\ c.base = levels
      /\ c.smallestSnapshot = IF snapshots = {} THEN lastSeq ELSE Min(snapshots)
      /\ c.grandparents = Grandparents(level, in[1] \cup in[2])
  BY DEF CompactionOf, NewCompaction, in
<1> HIDE DEF c
<1>5. /\ c.in0 \subseteq levels[level] /\ c.in0 # {} /\ c.in1 \subseteq levels[level + 1]
      /\ \A f \in levels[level + 1]: f \in c.in1 <=> Meets(f, c.in0)
  BY <1>3, <1>4 DEF ChosenOf
<1>6. Ins(c) \subseteq Stored
  <2>1. ASSUME NEW f \in c.in0 \cup c.in1 PROVE f.entries \subseteq Stored
    BY <1>2, <1>5, LevelFile
  <2> QED BY <2>1 DEF Ins
<1>7. IsFiniteSet(Ins(c))
  <2>1. IsFiniteSet(levels[level]) /\ IsFiniteSet(levels[level + 1])
    BY <1>2 DEF Typed, FilesRight
  <2>2. IsFiniteSet(c.in0) /\ IsFiniteSet(c.in1)
    BY <1>5, <2>1, FS_Subset
  <2>3. IsFiniteSet(c.in0 \cup c.in1)
    BY <2>2, FS_Union
  <2>4. \A f \in c.in0 \cup c.in1: IsFiniteSet(f.entries)
    BY <1>2, <1>5, LevelFile
  <2> QED BY <2>3, <2>4, EntriesFinite DEF Ins
<1>8. Files(c.grandparents) /\ \A f \in c.grandparents: IsFiniteSet(f.entries)
  <2>1. CASE level + 2 < NumLevels
    <3>1. level + 2 \in Levels
      BY <1>2, <2>1 DEF Levels
    <3>2. c.grandparents \in SUBSET levels[level + 2]
      BY <1>4, <2>1 DEF Grandparents, OverlappingRange, Overlapping
    <3>3. Files(c.grandparents)
      BY <3>1, <3>2, LevelFilesOne, FilesSubset
    <3>4. \A f \in c.grandparents: IsFiniteSet(f.entries)
      BY <3>1, <3>2, LevelFile
    <3> QED BY <3>3, <3>4
  <2>2. CASE ~(level + 2 < NumLevels)
    <3>1. c.grandparents = {}
      BY <1>4, <2>2 DEF Grandparents
    <3> QED BY <3>1, FS_EmptySet DEF Files
  <2> QED BY <2>1, <2>2
<1>9. limits.fileSize \in Nat \ {0} /\ limits.grandparents \in Nat
  BY ScenariosAssumption DEF Typed, Counters
<1>10. Mergeable(c)
  BY <1>6, <1>7, <1>8, <1>9, StoredRight DEF Mergeable, Typed, Distinct
<1> QED BY <1>1, <1>2, <1>3, <1>4, <1>5, <1>10 DEF c, Starting

\* What a merge leaves out, and what it makes of the rest.
LEMMA PartitionRight ==
  ASSUME NEW c, Mergeable(c)
  PROVE  /\ Partition(Outputs(c), Ins(c))
         /\ UNION {Outputs(c)[i] : i \in DOMAIN Outputs(c)} = Kept(c)
<1> DEFINE outs == Outputs(c)
<1>1. outs \in Seq(SUBSET Kept(c)) /\ Shape(outs, {}, Kept(c), Kept(c))
  BY OutputsRight
<1> HIDE DEF outs
<1>2. Kept(c) \subseteq Ins(c)
  BY DEF Kept, Ins
<1>3. outs \in Seq(SUBSET Ins(c))
  <2>1. \A i \in 1..Len(outs): outs[i] \in SUBSET Ins(c)
    BY <1>1, <1>2
  <2> QED BY <1>1, <2>1
<1>4. {} \notin {outs[i] : i \in DOMAIN outs}
  BY <1>1 DEF Shape
<1>5. ASSUME NEW i \in DOMAIN outs, NEW j \in DOMAIN outs, i # j PROVE outs[i] \cap outs[j] = {}
  <2>1. DOMAIN outs = 1..Len(outs) /\ Len(outs) \in Nat /\ \A a \in DOMAIN outs: outs[a] \subseteq Entry
    BY <1>1, <1>2 DEF Mergeable
  <2>2. i < j \/ j < i
    BY <1>5, <2>1
  <2>3. \A e \in outs[i], x \in outs[j]: Before(e, x) \/ Before(x, e)
    BY <1>1, <2>2 DEF Shape
  <2> QED BY <2>1, <2>3, BeforeOrder
<1>6. UNION {outs[i] : i \in DOMAIN outs} = Kept(c)
  <2>1. \A i \in DOMAIN outs: outs[i] \subseteq Kept(c)
    BY <1>1 DEF Shape
  <2>2. \A x \in Kept(c): \E i \in DOMAIN outs: x \in outs[i]
    BY <1>1 DEF Shape
  <2> QED BY <2>1, <2>2
<1> QED BY <1>3, <1>4, <1>5, <1>6 DEF outs, Partition

-----------------------------------------------------------------------------
(* Type correctness: new versions.                                         *)

LEMMA FlushTyped ==
  ASSUME Typed, Flush
  PROVE  Typed'
<1> DEFINE f == File(nextFile, mem)
           L == PickLevelForMemTableOutput(f.smallest[1], f.largest[1])
<1>1. /\ mem # {} /\ levels' = [levels EXCEPT ![L] = @ \cup {f}] /\ seekFile' = None
      /\ nextFile' = nextFile + 1 /\ mem' = {}
      /\ UNCHANGED <<lastSeq, snapshots, pointer, manual, comp, contents, held, limits>>
  BY DEF Flush, Install, promised, bounds
<1>2. /\ lastSeq \in Nat /\ nextFile \in Nat /\ nextFile > 0
      /\ IsFiniteSet(mem) /\ mem \subseteq EntriesTo(lastSeq) /\ mem \subseteq Entry /\ Distinct(mem)
  BY StoredRight DEF Typed, Counters, MemRight, Distinct, Stored
<1>3. /\ f.number = nextFile /\ f.entries = mem /\ f.smallest \in mem /\ f.largest \in mem /\ FileRight(f)
  BY <1>1, <1>2, FileMade
<1>4. f \in FilesTo(lastSeq, nextFile + 1)
  <2>1. f = [number |-> f.number, entries |-> f.entries, smallest |-> f.smallest, largest |-> f.largest]
    BY DEF File
  <2> HIDE DEF f
  <2>2. f.number \in 1..((nextFile + 1) - 1)
    BY <1>2, <1>3
  <2> QED BY <1>2, <1>3, <2>1, <2>2 DEF FilesTo
<1>5. L \in Levels
  <2>1. f.smallest[1] \in Nat /\ f.largest[1] \in Nat
    BY <1>2, <1>3, EntryParts
  <2> HIDE DEF f
  <2> QED BY <2>1, PickLevelRight
<1> HIDE DEF f, L
<1>6. /\ levels \in [Levels -> SUBSET FilesTo(lastSeq, nextFile)]
      /\ \A m \in Levels: levels'[m] = IF m = L THEN levels[L] \cup {f} ELSE levels[m]
      /\ DOMAIN levels' = Levels /\ levels' = [m \in Levels |-> levels'[m]]
  BY <1>1, <1>5 DEF Typed, LevelsTyped
<1>7. \A m \in Levels: \A g \in levels'[m]: (g \in levels[m]) \/ (g = f /\ m = L)
  BY <1>6
<1>8. Counters'
  BY <1>1, <1>2 DEF Typed, Counters
<1>9. LevelsTyped'
  <2>1. FilesTo(lastSeq, nextFile) \subseteq FilesTo(lastSeq, nextFile + 1)
    BY <1>2, MoreTo
  <2>2. \A m \in Levels: levels[m] \subseteq FilesTo(lastSeq, nextFile)
    BY <1>6
  <2>3. \A m \in Levels: levels'[m] \subseteq FilesTo(lastSeq, nextFile + 1)
    BY <1>4, <1>7, <2>1, <2>2
  <2>4. levels' \in [Levels -> SUBSET FilesTo(lastSeq, nextFile + 1)]
    BY <1>6, <2>3
  <2> QED BY <1>1, <2>4 DEF LevelsTyped
<1>10. FilesRight'
  <2>1. ASSUME NEW m \in Levels PROVE IsFiniteSet(levels'[m]) /\ \A g \in levels'[m]: FileRight(g)
    <3>1. IsFiniteSet(levels[m]) /\ IsFiniteSet(levels[L]) /\ \A g \in levels[m]: FileRight(g)
      BY <1>5 DEF Typed, FilesRight
    <3>2. IsFiniteSet(levels[L] \cup {f})
      BY <3>1, FS_AddElement
    <3> QED BY <1>3, <1>6, <1>7, <3>1, <3>2
  <2> QED BY <2>1 DEF FilesRight, FileRight
<1>11. \A m \in Levels: \A g \in levels[m]: g.number # f.number /\ g # f /\ g.entries \cap f.entries = {}
  <2>1. \A m \in Levels: \A g \in levels[m]: g.number # f.number /\ g # f
    BY <1>2, <1>3, LevelFile
  <2> QED BY <1>3, <2>1 DEF Typed, Placed
<1>12. Numbered'
  <2>1. ASSUME NEW l \in Levels, NEW m \in Levels, NEW g \in levels'[l], NEW h \in levels'[m], g.number = h.number
        PROVE  l = m /\ g = h
    BY <1>7, <1>11, <2>1 DEF Typed, Numbered
  <2> QED BY <2>1 DEF Numbered
<1>13. Placed'
  <2>1. ASSUME NEW l \in Levels, NEW m \in Levels, NEW g \in levels'[l], NEW h \in levels'[m], g # h
        PROVE  g.entries \cap h.entries = {}
    BY <1>7, <1>11, <2>1 DEF Typed, Placed
  <2> QED BY <1>1, <2>1 DEF Placed
<1>14. Distinct(Stored)'
  <2>1. ASSUME NEW e \in Stored' PROVE e \in Stored
    <3>1. PICK m \in Levels: \E g \in levels'[m]: e \in g.entries
      BY <1>1, <2>1 DEF Stored, InFiles
    <3>2. PICK g \in levels'[m]: e \in g.entries
      BY <3>1
    <3> QED BY <1>3, <1>7, <3>2 DEF Stored, InFiles
  <2> QED BY <2>1 DEF Typed, Distinct
<1>15. CompTyped'
  <2>1. ASSUME comp # None
        PROVE  comp.in0 \subseteq levels'[comp.level] /\ comp.in1 \subseteq levels'[comp.level + 1]
    <3>1. comp.level \in Levels /\ comp.level + 1 \in Levels
      BY <2>1, LevelsNat DEF Typed, CompTyped
    <3> QED BY <1>6, <2>1, <3>1 DEF Typed, CompTyped
  <2> QED BY <1>1, <2>1 DEF Typed, CompTyped, Ins
<1>16. MemRight' /\ SeekRight' /\ ManualRight'
  BY <1>1, FS_EmptySet DEF Typed, MemRight, SeekRight, ManualRight
<1> QED BY <1>8, <1>9, <1>10, <1>12, <1>13, <1>14, <1>15, <1>16 DEF Typed

\* A file moves down a level.
Moves(c) ==
  /\ levels' = [levels EXCEPT ![c.level] = @ \ c.in0, ![c.level + 1] = @ \cup c.in0]
  /\ seekFile' = None
  /\ UNCHANGED comp
Merges(c) ==
  /\ comp' = [level |-> c.level, in0 |-> c.in0, in1 |-> c.in1, outputs |-> Outputs(c), byHand |-> manual # None]
  /\ UNCHANGED <<levels, seekFile>>
Beginning(c) ==
  /\ DOMAIN pointer' = DOMAIN pointer
  /\ UNCHANGED <<mem, nextFile, lastSeq, snapshots, manual, contents, held, limits>>

LEMMA BeginForms ==
  ASSUME NEW c, Begin(c)
  PROVE  Beginning(c) /\ ((Moves(c) /\ Cardinality(c.in0) = 1 /\ c.in1 = {}) \/ Merges(c))
  BY DEF Begin, Install, IsTrivialMove, Beginning, Moves, Merges, promised, bounds

LEMMA MoveLevels ==
  ASSUME Typed, NEW c, c.level \in Levels, c.level + 1 \in Levels, c.in0 \subseteq levels[c.level], Moves(c)
  PROVE  /\ levels' = [m \in Levels |-> levels'[m]]
         /\ levels'[c.level] = levels[c.level] \ c.in0
         /\ levels'[c.level + 1] = levels[c.level + 1] \cup c.in0
         /\ \A m \in Levels: m # c.level /\ m # c.level + 1 => levels'[m] = levels[m]
         /\ \A m \in Levels: \A f \in levels'[m]:
              \/ f \in c.in0 /\ m = c.level + 1
              \/ f \in levels[m] /\ f \notin c.in0
         /\ \A m \in Levels: \A f \in levels[m]: \E l \in Levels: f \in levels'[l]
<1>1. levels \in [Levels -> SUBSET FilesTo(lastSeq, nextFile)]
  BY DEF Typed, LevelsTyped
<1>2. c.level # c.level + 1
  <2>1. c.level \in Nat
    BY LevelsNat
  <2> QED BY <2>1
<1>3. /\ levels' = [m \in Levels |-> levels'[m]]
      /\ levels'[c.level] = levels[c.level] \ c.in0
      /\ levels'[c.level + 1] = levels[c.level + 1] \cup c.in0
      /\ \A m \in Levels: m # c.level /\ m # c.level + 1 => levels'[m] = levels[m]
  BY <1>1, <1>2 DEF Moves
<1>4. ASSUME NEW m \in Levels, NEW f \in levels'[m]
      PROVE  (f \in c.in0 /\ m = c.level + 1) \/ (f \in levels[m] /\ f \notin c.in0)
  <2>1. ASSUME f \in c.in0, m # c.level + 1 PROVE FALSE
    <3>1. f \in levels[m]
      BY <1>3, <2>1
    <3>2. f \in levels[c.level]
      BY <2>1
    <3>3. m = c.level
      BY <3>1, <3>2 DEF Typed, Numbered
    <3> QED BY <1>3, <2>1, <3>3
  <2> QED BY <1>3, <2>1
<1>5. ASSUME NEW m \in Levels, NEW f \in levels[m] PROVE \E l \in Levels: f \in levels'[l]
  BY <1>3
<1> QED BY <1>3, <1>4, <1>5

LEMMA MoveTyped ==
  ASSUME Typed, comp = None, NEW c, c.level \in Levels, c.level + 1 \in Levels, c.in0 \subseteq levels[c.level],
         Moves(c), Beginning(c)
  PROVE  Typed'
<1>1. /\ levels' = [m \in Levels |-> levels'[m]]
      /\ \A m \in Levels: \A f \in levels'[m]:
           \/ f \in c.in0 /\ m = c.level + 1
           \/ f \in levels[m] /\ f \notin c.in0
      /\ \A m \in Levels: levels'[m] \subseteq levels[m] \/ levels'[m] = levels[m] \cup c.in0
  BY MoveLevels
<1>2. /\ seekFile' = None /\ comp' = None /\ DOMAIN pointer' = DOMAIN pointer
      /\ UNCHANGED <<mem, nextFile, lastSeq, snapshots, manual, contents, held, limits>>
  BY DEF Moves, Beginning
<1>3. \A m \in Levels: \A f \in levels'[m]:
        \E l \in Levels: f \in levels[l] /\ (f \in c.in0 => l = c.level)
  BY <1>1
<1>4. Counters' /\ MemRight' /\ SeekRight' /\ ManualRight' /\ CompTyped'
  BY <1>2 DEF Typed, Counters, MemRight, SeekRight, ManualRight, CompTyped
<1>5. LevelsTyped'
  <2>1. \A m \in Levels: levels[m] \subseteq FilesTo(lastSeq, nextFile)
    BY DEF Typed, LevelsTyped
  <2>2. \A m \in Levels: levels'[m] \subseteq FilesTo(lastSeq, nextFile)
    BY <1>3, <2>1
  <2>3. levels' \in [Levels -> SUBSET FilesTo(lastSeq, nextFile)]
    BY <1>1, <2>2
  <2> QED BY <1>2, <2>3 DEF LevelsTyped
<1>6. FilesRight'
  <2>1. ASSUME NEW m \in Levels PROVE IsFiniteSet(levels'[m]) /\ \A g \in levels'[m]: FileRight(g)
    <3>1. IsFiniteSet(levels[m]) /\ IsFiniteSet(levels[c.level])
      BY DEF Typed, FilesRight
    <3>2. IsFiniteSet(c.in0)
      BY <3>1, FS_Subset
    <3>3. IsFiniteSet(levels[m] \cup c.in0)
      BY <3>1, <3>2, FS_Union
    <3>4. IsFiniteSet(levels'[m])
      BY <1>1, <3>1, <3>3, FS_Subset
    <3>5. \A g \in levels'[m]: FileRight(g)
      BY <1>3 DEF Typed, FilesRight
    <3> QED BY <3>4, <3>5
  <2> QED BY <2>1 DEF FilesRight, FileRight
<1>7. Numbered'
  <2>1. ASSUME NEW l \in Levels, NEW m \in Levels, NEW g \in levels'[l], NEW h \in levels'[m], g.number = h.number
        PROVE  l = m /\ g = h
    <3>1. g = h
      BY <1>3, <2>1 DEF Typed, Numbered
    <3>2. CASE g \in c.in0
      BY <1>1, <3>1, <3>2
    <3>3. CASE g \notin c.in0
      <4>1. g \in levels[l] /\ g \in levels[m]
        BY <1>1, <3>1, <3>3
      <4> QED BY <3>1, <4>1 DEF Typed, Numbered
    <3> QED BY <3>2, <3>3
  <2> QED BY <2>1 DEF Numbered
<1>8. Placed'
  <2>1. \A l, m \in Levels: \A g \in levels'[l], h \in levels'[m]: g # h => g.entries \cap h.entries = {}
    BY <1>3 DEF Typed, Placed
  <2>2. \A l \in Levels: \A g \in levels'[l]: g.entries \cap mem = {}
    BY <1>3 DEF Typed, Placed
  <2> QED BY <1>2, <2>1, <2>2 DEF Placed
<1>9. Distinct(Stored)'
  <2>1. ASSUME NEW e \in Stored' PROVE e \in Stored
    <3>1. CASE e \in mem'
      BY <1>2, <3>1 DEF Stored
    <3>2. CASE e \notin mem'
      <4>1. PICK m \in Levels: \E g \in levels'[m]: e \in g.entries
        BY <2>1, <3>2 DEF Stored, InFiles
      <4>2. PICK g \in levels'[m]: e \in g.entries
        BY <4>1
      <4> QED BY <1>3, <4>2 DEF Stored, InFiles
    <3> QED BY <3>1, <3>2
  <2> QED BY <2>1 DEF Typed, Distinct
<1> QED BY <1>4, <1>5, <1>6, <1>7, <1>8, <1>9 DEF Typed

LEMMA BeginTyped ==
  ASSUME Typed, comp = None, NEW level, NEW X, Chosen(level, X), X # {}, Begin(CompactionOf(level, X))
  PROVE  Typed'
<1> DEFINE c == CompactionOf(level, X)
<1>1. Starting(c, level, X)
  BY CompactionRight
<1>2. Beginning(c) /\ (Moves(c) \/ Merges(c))
  BY BeginForms
<1> HIDE DEF c
<1>5. /\ c.level = level /\ level \in 0..(NumLevels - 2) /\ level \in Levels /\ level + 1 \in Levels
      /\ c.in0 \subseteq levels[level] /\ c.in0 # {} /\ c.in1 \subseteq levels[level + 1]
      /\ Mergeable(c)
  BY <1>1 DEF Starting
<1>3. CASE Moves(c)
  BY <1>2, <1>3, <1>5, MoveTyped
<1>4. CASE Merges(c)
  <2>1. /\ comp' = [level |-> c.level, in0 |-> c.in0, in1 |-> c.in1, outputs |-> Outputs(c), byHand |-> manual # None]
        /\ DOMAIN pointer' = DOMAIN pointer
        /\ UNCHANGED <<levels, seekFile, mem, nextFile, lastSeq, snapshots, manual, contents, held, limits>>
    BY <1>2, <1>4 DEF Merges, Beginning
  <2>2. Partition(Outputs(c), Ins(c)) /\ Ins(c) = Ins(comp')
    BY <1>5, <2>1, PartitionRight DEF Ins
  <2>3. CompTyped'
    <3>2. Partition(Outputs(c), Ins(comp'))
      BY <2>2
    <3>3. comp'.outputs = Outputs(c) /\ comp'.level = level /\ comp'.in0 = c.in0 /\ comp'.in1 = c.in1
      BY <1>5, <2>1
    <3> HIDE <2>1
    <3>4. levels' = levels
      BY <2>1
    <3>5. Ins(comp)' = Ins(comp')
      BY DEF Ins
    <3> QED BY <1>5, <3>2, <3>3, <3>4, <3>5 DEF CompTyped, Partition
  <2> QED BY <2>1, <2>3 DEF Typed, Counters, MemRight, LevelsTyped, FilesRight, Numbered, Placed, Stored, InFiles,
                          SeekRight, ManualRight
<1> QED BY <1>2, <1>3, <1>4

LEMMA StartManualTyped ==
  ASSUME Typed, StartManual
  PROVE  Typed'
<1>1. comp = None /\ manual # None /\ ManualInputs(manual) # {} /\ Begin(CompactionOf(manual.level, ManualInputs(manual)))
  BY DEF StartManual
<1>2. Chosen(manual.level, ManualInputs(manual))
  BY <1>1, ManualChosen
<1> QED BY <1>1, <1>2, BeginTyped

LEMMA StartCompactionTyped ==
  ASSUME Typed, StartCompaction
  PROVE  Typed'
<1>1. /\ comp = None /\ NeedsCompaction /\ PickCompaction.inputs # {}
      /\ Begin(CompactionOf(PickCompaction.level, PickCompaction.inputs))
  BY DEF StartCompaction
<1>2. Chosen(PickCompaction.level, PickCompaction.inputs)
  BY <1>1, PickedRight
<1> QED BY <1>1, <1>2, BeginTyped

\* The files a merge is replaced by.
NewFiles == {File(nextFile + i - 1, comp.outputs[i]) : i \in DOMAIN comp.outputs}
NewFile(f, i) ==
  /\ f \in NewFiles /\ i \in DOMAIN comp.outputs
  /\ f.number = nextFile + i - 1 /\ f.entries = comp.outputs[i]
  /\ f.smallest \in comp.outputs[i] /\ f.largest \in comp.outputs[i] /\ FileRight(f)
  /\ f \in FilesTo(lastSeq, nextFile + Len(comp.outputs))

LEMMA InputsRight ==
  ASSUME Typed, comp # None
  PROVE  /\ comp.level \in 0..(NumLevels - 2) /\ comp.level \in Levels /\ comp.level + 1 \in Levels
         /\ comp.level # comp.level + 1
         /\ comp.in0 \subseteq levels[comp.level] /\ comp.in0 # {}
         /\ comp.in1 \subseteq levels[comp.level + 1]
         /\ \A f \in comp.in0 \cup comp.in1: f.entries \subseteq Ins(comp)
         /\ Ins(comp) \subseteq InFiles /\ Ins(comp) \subseteq Stored
         /\ DOMAIN comp.outputs = 1..Len(comp.outputs) /\ Len(comp.outputs) \in Nat
         /\ \A i \in DOMAIN comp.outputs:
              /\ comp.outputs[i] \subseteq Ins(comp) /\ comp.outputs[i] # {}
              /\ IsFiniteSet(comp.outputs[i])
<1>1. /\ comp.level \in 0..(NumLevels - 2) /\ comp.level \in Levels /\ comp.level + 1 \in Levels
      /\ comp.in0 \subseteq levels[comp.level] /\ comp.in0 # {}
      /\ comp.in1 \subseteq levels[comp.level + 1] /\ comp.level \in Nat
      /\ Partition(comp.outputs, Ins(comp))
  BY LevelsNat DEF Typed, CompTyped
<1>2. \A f \in comp.in0 \cup comp.in1: f.entries \subseteq InFiles /\ IsFiniteSet(f.entries)
  BY <1>1, LevelFile
<1>3. IsFiniteSet(Ins(comp))
  <2>1. IsFiniteSet(levels[comp.level]) /\ IsFiniteSet(levels[comp.level + 1])
    BY <1>1 DEF Typed, FilesRight
  <2>2. IsFiniteSet(comp.in0) /\ IsFiniteSet(comp.in1)
    BY <1>1, <2>1, FS_Subset
  <2>3. IsFiniteSet(comp.in0 \cup comp.in1)
    BY <2>2, FS_Union
  <2> QED BY <1>2, <2>3, EntriesFinite DEF Ins
<1>4. /\ DOMAIN comp.outputs = 1..Len(comp.outputs) /\ Len(comp.outputs) \in Nat
      /\ \A i \in DOMAIN comp.outputs: comp.outputs[i] \subseteq Ins(comp) /\ comp.outputs[i] # {}
  BY <1>1 DEF Partition
<1>5. \A i \in DOMAIN comp.outputs: IsFiniteSet(comp.outputs[i])
  BY <1>3, <1>4, FS_Subset
<1>6. Ins(comp) \subseteq InFiles /\ \A f \in comp.in0 \cup comp.in1: f.entries \subseteq Ins(comp)
  BY <1>2 DEF Ins
<1>7. comp.level # comp.level + 1
  BY <1>1
<1> QED BY <1>1, <1>4, <1>5, <1>6, <1>7 DEF Stored

LEMMA NewFilesRight ==
  ASSUME Typed, comp # None
  PROVE  /\ IsFiniteSet(NewFiles)
         /\ \A f \in NewFiles: \E i \in DOMAIN comp.outputs: NewFile(f, i)
         /\ \A i \in DOMAIN comp.outputs: \E f \in NewFiles: NewFile(f, i)
<1> DEFINE outs == comp.outputs
           new == [i \in DOMAIN outs |-> File(nextFile + i - 1, outs[i])]
<1>1. lastSeq \in Nat /\ nextFile \in Nat /\ nextFile > 0
  BY DEF Typed, Counters
<1>2. ASSUME NEW i \in DOMAIN outs PROVE NewFile(File(nextFile + i - 1, outs[i]), i)
  <2> DEFINE f == File(nextFile + i - 1, outs[i])
  <2>1. /\ outs[i] \subseteq Ins(comp) /\ outs[i] # {} /\ IsFiniteSet(outs[i]) /\ Ins(comp) \subseteq Stored
        /\ DOMAIN outs = 1..Len(outs) /\ Len(outs) \in Nat
    BY InputsRight
  <2>2. outs[i] \subseteq EntriesTo(lastSeq) /\ outs[i] \in SUBSET Entry /\ Distinct(outs[i])
    BY <2>1, StoredRight DEF Typed, Distinct
  <2>3. /\ f.number = nextFile + i - 1 /\ f.entries = outs[i] /\ f.smallest \in outs[i] /\ f.largest \in outs[i]
        /\ FileRight(f)
    BY <2>1, <2>2, FileMade
  <2>4. f = [number |-> f.number, entries |-> f.entries, smallest |-> f.smallest, largest |-> f.largest]
    BY DEF File
  <2>5. f \in NewFiles
    BY DEF NewFiles
  <2> HIDE DEF f
  <2>6. f.number \in 1..((nextFile + Len(outs)) - 1)
    BY <1>1, <2>1, <2>3
  <2>7. f \in FilesTo(lastSeq, nextFile + Len(outs))
    BY <2>2, <2>3, <2>4, <2>6 DEF FilesTo
  <2>8. NewFile(f, i)
    BY <2>3, <2>5, <2>7 DEF NewFile
  <2> QED BY <2>8 DEF f
<1>3. IsFiniteSet(NewFiles)
  <2>1. IsFiniteSet(DOMAIN outs)
    <3>1. DOMAIN outs = 1..Len(outs) /\ 1 \in Int /\ Len(outs) \in Int
      BY InputsRight
    <3> QED BY <3>1, FS_Interval
  <2>2. DOMAIN new = DOMAIN outs
    OBVIOUS
  <2>3. NewFiles = {new[i] : i \in DOMAIN outs}
    BY DEF NewFiles
  <2> HIDE DEF new
  <2>4. IsFiniteSet({new[i] : i \in DOMAIN outs})
    BY <2>1, <2>2, ImageFinite
  <2> QED BY <2>3, <2>4
<1>4. \A f \in NewFiles: \E i \in DOMAIN comp.outputs: f = File(nextFile + i - 1, comp.outputs[i])
  BY DEF NewFiles
<1>5. \A i \in DOMAIN comp.outputs: File(nextFile + i - 1, comp.outputs[i]) \in NewFiles
  BY DEF NewFiles
<1> QED BY <1>2, <1>3, <1>4, <1>5

LEMMA FinishForm ==
  ASSUME Typed, FinishCompaction
  PROVE  /\ comp # None /\ comp' = None /\ seekFile' = None /\ nextFile' = nextFile + Len(comp.outputs)
         /\ manual' = IF manual = None \/ ~comp.byHand THEN manual
                      ELSE [manual EXCEPT !.begin = Last(InOrder(comp.in0)).largest[1]]
         /\ UNCHANGED <<mem, lastSeq, snapshots, pointer, contents, held, limits>>
         /\ levels' = [m \in Levels |-> levels'[m]]
         /\ \A m \in Levels: \A f \in levels'[m]:
              \/ f \in NewFiles /\ m = comp.level + 1
              \/ f \in levels[m] /\ f \notin comp.in0 \cup comp.in1
         /\ \A m \in Levels: \A f \in levels[m]: f \notin comp.in0 \cup comp.in1 => f \in levels'[m]
         /\ \A f \in NewFiles: f \in levels'[comp.level + 1]
         /\ \A m \in Levels: levels'[m] \subseteq levels[m] \cup NewFiles
<1>1. /\ comp # None /\ comp' = None /\ seekFile' = None /\ nextFile' = nextFile + Len(comp.outputs)
      /\ manual' = IF manual = None \/ ~comp.byHand THEN manual
                   ELSE [manual EXCEPT !.begin = Last(InOrder(comp.in0)).largest[1]]
      /\ UNCHANGED <<mem, lastSeq, snapshots, pointer, contents, held, limits>>
      /\ levels' = [levels EXCEPT ![comp.level] = @ \ comp.in0,
                                  ![comp.level + 1] = (@ \ comp.in1) \cup NewFiles]
  BY DEF FinishCompaction, Install, NewFiles, promised, bounds
<1>2. levels \in [Levels -> SUBSET FilesTo(lastSeq, nextFile)]
  BY DEF Typed, LevelsTyped
<1>3. /\ comp.level \in Levels /\ comp.level + 1 \in Levels /\ comp.level # comp.level + 1
      /\ comp.in0 \subseteq levels[comp.level] /\ comp.in1 \subseteq levels[comp.level + 1]
  BY <1>1, InputsRight
<1>4. /\ levels' = [m \in Levels |-> levels'[m]]
      /\ levels'[comp.level] = levels[comp.level] \ comp.in0
      /\ levels'[comp.level + 1] = (levels[comp.level + 1] \ comp.in1) \cup NewFiles
      /\ \A m \in Levels: m # comp.level /\ m # comp.level + 1 => levels'[m] = levels[m]
  BY <1>1, <1>2, <1>3
<1>5. /\ \A m \in Levels: \A f \in levels[m]: f \in comp.in0 => m = comp.level
      /\ \A m \in Levels: \A f \in levels[m]: f \in comp.in1 => m = comp.level + 1
  BY <1>3 DEF Typed, Numbered
<1>6. ASSUME NEW m \in Levels, NEW f \in levels'[m]
      PROVE  (f \in NewFiles /\ m = comp.level + 1) \/ (f \in levels[m] /\ f \notin comp.in0 \cup comp.in1)
  <2>1. CASE m = comp.level
    BY <1>3, <1>4, <1>5, <2>1
  <2>2. CASE m = comp.level + 1
    BY <1>3, <1>4, <1>5, <2>2
  <2>3. CASE m # comp.level /\ m # comp.level + 1
    BY <1>4, <1>5, <2>3
  <2> QED BY <2>1, <2>2, <2>3
<1>7. ASSUME NEW m \in Levels, NEW f \in levels[m], f \notin comp.in0 \cup comp.in1 PROVE f \in levels'[m]
  BY <1>4, <1>7
<1>8. \A f \in NewFiles: f \in levels'[comp.level + 1]
  BY <1>4
<1>9. \A m \in Levels: levels'[m] \subseteq levels[m] \cup NewFiles
  BY <1>6
<1> QED BY <1>1, <1>4, <1>6, <1>7, <1>8, <1>9

LEMMA LastInOrder ==
  ASSUME NEW F, Files(F), F # {}
  PROVE  Last(InOrder(F)) \in F
<1> DEFINE s == InOrder(F)
           n == Cardinality(F)
<1>1. Lists(s, F) /\ n \in Nat /\ 1 <= n
  BY InOrderRight, NotEmpty DEF Files
<1> HIDE DEF s, n
<1>2. s \in [1..n -> F]
  BY <1>1 DEF Lists, n
<1>3. s \in Seq(F) /\ Len(s) = n
  BY <1>1, <1>2
<1> QED BY <1>1, <1>2, <1>3 DEF Last, s

LEMMA FinishTyped ==
  ASSUME Typed, FinishCompaction
  PROVE  Typed'
<1> DEFINE outs == comp.outputs
<1>1. /\ comp # None /\ comp' = None /\ seekFile' = None /\ nextFile' = nextFile + Len(outs)
      /\ UNCHANGED <<mem, lastSeq, snapshots, pointer, contents, held, limits>>
      /\ levels' = [m \in Levels |-> levels'[m]]
      /\ \A m \in Levels: \A f \in levels'[m]:
           \/ f \in NewFiles /\ m = comp.level + 1
           \/ f \in levels[m] /\ f \notin comp.in0 \cup comp.in1
      /\ \A m \in Levels: levels'[m] \subseteq levels[m] \cup NewFiles
  BY FinishForm
<1>2. /\ IsFiniteSet(NewFiles)
      /\ \A f \in NewFiles: \E i \in DOMAIN outs: NewFile(f, i)
  BY <1>1, NewFilesRight
<1>3. /\ Ins(comp) \subseteq InFiles /\ Ins(comp) \subseteq Stored
      /\ DOMAIN outs = 1..Len(outs) /\ Len(outs) \in Nat
      /\ \A i \in DOMAIN outs: outs[i] \subseteq Ins(comp)
      /\ \A f \in comp.in0 \cup comp.in1: f.entries \subseteq Ins(comp)
  BY <1>1, InputsRight
<1>4. lastSeq \in Nat /\ nextFile \in Nat /\ nextFile > 0
  BY DEF Typed, Counters
<1>5. Counters' /\ MemRight' /\ SeekRight' /\ CompTyped'
  BY <1>1, <1>3, <1>4 DEF Typed, Counters, MemRight, SeekRight, CompTyped
<1>6. ManualRight'
  <2>1. Files(comp.in0) /\ comp.in0 # {}
    BY <1>1, InputsRight, LevelFilesOne, FilesSubset
  <2>2. Last(InOrder(comp.in0)) \in comp.in0
    BY <2>1, LastInOrder
  <2> DEFINE b == Last(InOrder(comp.in0)).largest[1]
  <2>3. b \in Nat
    BY <2>1, <2>2, FileKeys
  <2>4. manual' = IF manual = None \/ ~comp.byHand THEN manual ELSE [manual EXCEPT !.begin = b]
    BY FinishForm
  <2> HIDE DEF b
  <2>5. CASE manual = None \/ ~comp.byHand
    BY <1>1, <2>4, <2>5 DEF Typed, ManualRight
  <2>6. CASE manual # None /\ comp.byHand
    <3>1. manual.level \in 0..(NumLevels - 2) /\ manual.end \in Nat /\ limits.ranges # {}
      BY <2>6 DEF Typed, ManualRight
    <3>2. manual'.level = manual.level /\ manual'.end = manual.end /\ manual'.begin = b
      BY <2>4, <2>6
    <3> QED BY <1>1, <2>3, <3>1, <3>2 DEF ManualRight
  <2> QED BY <2>5, <2>6
<1>7. LevelsTyped'
  <2>1. FilesTo(lastSeq, nextFile) \subseteq FilesTo(lastSeq, nextFile + Len(outs))
    BY <1>3, <1>4, MoreTo
  <2>2. \A m \in Levels: levels[m] \subseteq FilesTo(lastSeq, nextFile)
    BY DEF Typed, LevelsTyped
  <2>3. NewFiles \subseteq FilesTo(lastSeq, nextFile + Len(outs))
    BY <1>2 DEF NewFile
  <2>4. \A m \in Levels: levels'[m] \subseteq FilesTo(lastSeq, nextFile + Len(outs))
    BY <1>1, <2>1, <2>2, <2>3
  <2>5. levels' \in [Levels -> SUBSET FilesTo(lastSeq, nextFile + Len(outs))]
    BY <1>1, <2>4
  <2> QED BY <1>1, <2>5 DEF LevelsTyped
<1>8. FilesRight'
  <2>1. ASSUME NEW m \in Levels PROVE IsFiniteSet(levels'[m]) /\ \A g \in levels'[m]: FileRight(g)
    <3>1. IsFiniteSet(levels[m]) /\ \A g \in levels[m]: FileRight(g)
      BY DEF Typed, FilesRight
    <3>2. IsFiniteSet(levels[m] \cup NewFiles)
      BY <1>2, <3>1, FS_Union
    <3>3. IsFiniteSet(levels'[m])
      BY <1>1, <3>2, FS_Subset
    <3>4. \A g \in NewFiles: FileRight(g)
      BY <1>2 DEF NewFile
    <3> QED BY <1>1, <3>1, <3>3, <3>4
  <2> QED BY <2>1 DEF FilesRight, FileRight
<1>9. ASSUME NEW f \in NewFiles
      PROVE  \A m \in Levels: \A g \in levels[m]:
               /\ g.number # f.number
               /\ g \notin comp.in0 \cup comp.in1 => g.entries \cap f.entries = {}
  <2>1. PICK i \in DOMAIN outs: NewFile(f, i)
    BY <1>2
  <2>2. f.number >= nextFile /\ f.number \in Nat /\ f.entries \subseteq Ins(comp)
    BY <1>3, <1>4, <2>1 DEF NewFile
  <2>3. ASSUME NEW m \in Levels, NEW g \in levels[m], g \notin comp.in0 \cup comp.in1
        PROVE  g.entries \cap Ins(comp) = {}
    <3>1. ASSUME NEW h \in comp.in0 \cup comp.in1 PROVE g.entries \cap h.entries = {}
      <4>1. \E l \in Levels: h \in levels[l]
        BY <1>1, InputsRight
      <4>2. g # h
        BY <2>3
      <4> QED BY <4>1, <4>2 DEF Typed, Placed
    <3> QED BY <3>1 DEF Ins
  <2>4. \A m \in Levels: \A g \in levels[m]: g.number # f.number
    BY <1>4, <2>2, LevelFile
  <2> QED BY <2>2, <2>3, <2>4
<1>10. ASSUME NEW f \in NewFiles, NEW g \in NewFiles
       PROVE  /\ f.number = g.number => f = g
              /\ f # g => f.entries \cap g.entries = {}
  <2>1. PICK i \in DOMAIN outs: f = File(nextFile + i - 1, outs[i])
    BY DEF NewFiles
  <2>2. PICK j \in DOMAIN outs: g = File(nextFile + j - 1, outs[j])
    BY DEF NewFiles
  <2>3. f.number = nextFile + i - 1 /\ g.number = nextFile + j - 1 /\ f.entries = outs[i] /\ g.entries = outs[j]
    BY <2>1, <2>2 DEF File
  <2>4. i \in Nat /\ j \in Nat
    BY <1>3
  <2>5. f.number = g.number => i = j
    BY <1>4, <2>3, <2>4
  <2>6. i # j => outs[i] \cap outs[j] = {}
    BY <1>1 DEF Typed, CompTyped, Partition
  <2> QED BY <2>1, <2>2, <2>3, <2>5, <2>6
<1>11. Numbered'
  <2>1. ASSUME NEW l \in Levels, NEW m \in Levels, NEW g \in levels'[l], NEW h \in levels'[m], g.number = h.number
        PROVE  l = m /\ g = h
    <3>1. CASE g \in NewFiles /\ l = comp.level + 1
      <4>1. h \in NewFiles /\ m = comp.level + 1
        BY <1>1, <1>9, <2>1, <3>1
      <4> QED BY <1>10, <2>1, <3>1, <4>1
    <3>2. CASE g \in levels[l] /\ g \notin comp.in0 \cup comp.in1
      <4>1. h \in levels[m]
        BY <1>1, <1>9, <2>1, <3>2
      <4> QED BY <2>1, <3>2, <4>1 DEF Typed, Numbered
    <3> QED BY <1>1, <3>1, <3>2
  <2> QED BY <2>1 DEF Numbered
<1>12. Placed'
  <2>1. ASSUME NEW l \in Levels, NEW m \in Levels, NEW g \in levels'[l], NEW h \in levels'[m], g # h
        PROVE  g.entries \cap h.entries = {}
    <3>1. CASE g \in NewFiles /\ h \in NewFiles
      BY <1>10, <2>1, <3>1
    <3>2. CASE g \in NewFiles /\ h \in levels[m] /\ h \notin comp.in0 \cup comp.in1
      BY <1>9, <3>2
    <3>3. CASE h \in NewFiles /\ g \in levels[l] /\ g \notin comp.in0 \cup comp.in1
      BY <1>9, <3>3
    <3>4. CASE g \in levels[l] /\ h \in levels[m]
      BY <2>1, <3>4 DEF Typed, Placed
    <3> QED BY <1>1, <3>1, <3>2, <3>3, <3>4
  <2>2. ASSUME NEW l \in Levels, NEW g \in levels'[l] PROVE g.entries \cap mem = {}
    <3>1. CASE g \in levels[l]
      BY <3>1 DEF Typed, Placed
    <3>2. CASE g \in NewFiles
      <4>1. g.entries \subseteq Ins(comp)
        BY <1>2, <1>3, <3>2 DEF NewFile
      <4>2. \A f \in comp.in0 \cup comp.in1: f.entries \cap mem = {}
        BY <1>1, InputsRight DEF Typed, Placed
      <4> QED BY <4>1, <4>2 DEF Ins
    <3> QED BY <1>1, <3>1, <3>2
  <2> QED BY <1>1, <2>1, <2>2 DEF Placed
<1>13. Distinct(Stored)'
  <2>1. ASSUME NEW e \in Stored' PROVE e \in Stored
    <3>1. CASE e \in mem'
      BY <1>1, <3>1 DEF Stored
    <3>2. CASE e \notin mem'
      <4>1. PICK m \in Levels: \E g \in levels'[m]: e \in g.entries
        BY <2>1, <3>2 DEF Stored, InFiles
      <4>2. PICK g \in levels'[m]: e \in g.entries
        BY <4>1
      <4>3. CASE g \in NewFiles
        BY <1>2, <1>3, <4>2, <4>3 DEF NewFile
      <4>4. CASE g \in levels[m]
        BY <4>2, <4>4 DEF Stored, InFiles
      <4> QED BY <1>1, <4>2, <4>3, <4>4
    <3> QED BY <3>1, <3>2
  <2> QED BY <2>1 DEF Typed, Distinct
<1> QED BY <1>5, <1>6, <1>7, <1>8, <1>11, <1>12, <1>13 DEF Typed

LEMMA NextTyped ==
  ASSUME Typed, [Next]_vars
  PROVE  Typed'
<1>1. CASE \E k \in Keys, type \in {"put", "delete"}: Write(k, type)
  BY <1>1, WriteTyped
<1>2. CASE GetSnapshot
  BY <1>2, GetSnapshotTyped
<1>3. CASE \E s \in snapshots: ReleaseSnapshot(s)
  BY <1>3, ReleaseSnapshotTyped
<1>4. CASE \E k \in Keys: ChargeSeek(k)
  BY <1>4, ChargeSeekTyped
<1>5. CASE \E range \in limits.ranges: BeginManual(range)
  BY <1>5, BeginManualTyped
<1>6. CASE Flush
  BY <1>6, FlushTyped
<1>7. CASE EndManual
  BY <1>7, EndManualTyped
<1>8. CASE StartManual
  BY <1>8, StartManualTyped
<1>9. CASE StartCompaction
  BY <1>9, StartCompactionTyped
<1>10. CASE FinishCompaction
  BY <1>10, FinishTyped
<1>11. CASE UNCHANGED vars
  BY <1>11, StutterTyped
<1> QED BY <1>1, <1>2, <1>3, <1>4, <1>5, <1>6, <1>7, <1>8, <1>9, <1>10, <1>11 DEF Next, Background

LEMMA TypedRight == Typed => TypeOK
<1> SUFFICES ASSUME Typed PROVE TypeOK
  OBVIOUS
<1>1. seekFile # None => seekFile[2] \in levels[seekFile[1]]
  BY DEF Typed, SeekRight
<1>2. snapshots \subseteq 0..lastSeq
  BY DEF Typed, Counters
<1>3. \A e \in mem: e \in Keys \X (1..lastSeq) \X {"put", "delete"}
  BY DEF Typed, MemRight, EntriesTo
<1> QED BY <1>1, <1>2, <1>3 DEF Typed, LevelsTyped, FilesTo, EntriesTo, TypeOK

\* Entries, files and levels are what VersionSet takes them for, in every state:
\* whatever the options, the snapshots and the ranges compacted by hand.
THEOREM LevelsTyping == Spec => []TypeOK
<1>1. Init => Typed
  BY InitRight DEF IInv
<1>2. Typed /\ [Next]_vars => Typed'
  BY NextTyped
<1> QED BY <1>1, <1>2, TypedRight, PTL DEF Spec

-----------------------------------------------------------------------------
(* Writes and snapshots keep the order and what was promised.              *)

ScanOf(entries, k, s) == Value(AtMost(entries, k, s))
Promises(entries, seq, values, taken, holds) ==
  /\ \A k \in Keys: ScanOf(entries, k, seq) = values[k]
  /\ \A s \in taken: \A k \in Keys: ScanOf(entries, k, s) = holds[s][k]

LEMMA ScanForm ==
  /\ ScanRight <=> Promises(Stored, lastSeq, contents, snapshots, held)
  /\ ScanRight' <=> Promises(Stored', lastSeq', contents', snapshots', held')
  BY DEF ScanRight, Scan, ScanOf, Promises, Stored, InFiles

LEMMA CompForm ==
  CompRight' <=>
    (comp' # None =>
       /\ Older(comp', levels') /\ Clear(comp', levels')
       /\ limits'.nested => Gapless(comp'.in0 \cup comp'.in1)
       /\ \E t \in 0..lastSeq': (\A s \in snapshots': t <= s) /\ LeftOut(comp', levels', t))
  BY DEF CompRight

LEMMA SameOrdered ==
  ASSUME Ordered, UNCHANGED <<mem, levels, lastSeq, snapshots, comp, contents, held, limits>>
  PROVE  Ordered'
<1>1. CompRight'
  BY CompForm DEF Ordered, CompRight
<1>2. ScanRight'
  <2>1. Stored' = Stored
    BY DEF Stored, InFiles
  <2> QED BY <2>1, ScanForm DEF Ordered
<1>3. KeysDisjoint' /\ NewestAbove' /\ MemNewest'
  BY DEF Ordered, KeysDisjoint, NewestAbove, MemNewest, InFiles
<1> QED BY <1>1, <1>2, <1>3 DEF Ordered

LEMMA WriteOrdered ==
  ASSUME IInv, NEW k \in Keys, NEW type \in {"put", "delete"}, Write(k, type)
  PROVE  Ordered'
<1> DEFINE n == <<k, lastSeq + 1, type>>
<1>1. /\ lastSeq' = lastSeq + 1 /\ mem' = mem \cup {n}
      /\ contents' = [contents EXCEPT ![k] = IF type = "put" THEN lastSeq + 1 ELSE None]
      /\ UNCHANGED <<levels, snapshots, comp, held, limits>>
  BY DEF Write, version, bounds
<1>2. Typed /\ Ordered
  BY DEF IInv
<1>3. /\ lastSeq \in Nat /\ \A e \in Stored: e \in Entry /\ e[2] \in Nat /\ e[2] <= lastSeq
      /\ n \in Entry
  BY <1>2, StoredRight DEF Entry
<1>4. KeysDisjoint' /\ NewestAbove'
  BY <1>1, <1>2 DEF Ordered, KeysDisjoint, NewestAbove
<1>5. MemNewest'
  BY <1>1, <1>2, <1>3 DEF Ordered, MemNewest, Stored, InFiles
<1>6. CompRight'
  <2>1. ASSUME comp # None PROVE \E t \in 0..(lastSeq + 1): (\A s \in snapshots: t <= s) /\ LeftOut(comp, levels, t)
    <3>1. PICK t \in 0..lastSeq: (\A s \in snapshots: t <= s) /\ LeftOut(comp, levels, t)
      BY <1>2, <2>1 DEF Ordered, CompRight
    <3>2. t \in 0..(lastSeq + 1)
      BY <1>3
    <3> QED BY <3>1, <3>2
  <2>2. comp # None => Older(comp, levels) /\ Clear(comp, levels) /\ (limits.nested => Gapless(comp.in0 \cup comp.in1))
    BY <1>2 DEF Ordered, CompRight
  <2> QED BY <1>1, <2>1, <2>2, CompForm
<1>7. ScanRight'
  <2>1. Stored' = Stored \cup {n}
    BY <1>1 DEF Stored, InFiles
  <2>2. Promises(Stored, lastSeq, contents, snapshots, held)
    BY <1>2, ScanForm DEF Ordered
  <2>3. contents \in [Keys -> Nat \cup {None}] /\ \A s \in snapshots: s \in Nat /\ s <= lastSeq
    BY <1>2 DEF Typed, Counters
  <2>4. ASSUME NEW j \in Keys PROVE ScanOf(Stored', j, lastSeq') = contents'[j]
    <3>1. CASE j = k
      <4> DEFINE A == AtMost(Stored', j, lastSeq')
      <4>1. A \in SUBSET Entry /\ n \in A /\ \A e \in A: e[2] <= lastSeq + 1 /\ (e = n \/ e[2] <= lastSeq)
        BY <1>1, <1>3, <2>1, <3>1 DEF AtMost
      <4> HIDE DEF A
      <4>2. Newest(A) \in A /\ n[2] <= Newest(A)[2]
        <5>1. lastSeq + 1 \in Nat
          BY <1>3
        <5> QED BY <4>1, <5>1, NewestRight
      <4>3. Newest(A) = n
        <5>1. Newest(A)[2] \in Nat /\ n[2] = lastSeq + 1
          BY <4>1, <4>2, EntryParts
        <5> QED BY <1>3, <4>1, <4>2, <5>1
      <4>4. Value(A) = IF type = "delete" THEN None ELSE lastSeq + 1
        BY <4>1, <4>3 DEF Value
      <4> QED BY <1>1, <2>3, <3>1, <4>4 DEF A, ScanOf
    <3>2. CASE j # k
      <4>1. AtMost(Stored', j, lastSeq') = AtMost(Stored, j, lastSeq)
        BY <1>1, <1>3, <2>1, <3>2 DEF AtMost
      <4> QED BY <1>1, <2>2, <2>3, <3>2, <4>1 DEF ScanOf, Promises
    <3> QED BY <3>1, <3>2
  <2>5. ASSUME NEW s \in snapshots, NEW j \in Keys PROVE ScanOf(Stored', j, s) = held[s][j]
    <3>1. AtMost(Stored', j, s) = AtMost(Stored, j, s)
      BY <1>3, <2>1, <2>3 DEF AtMost
    <3> QED BY <2>2, <3>1 DEF ScanOf, Promises
  <2> QED BY <1>1, <2>4, <2>5, ScanForm DEF Promises
<1> QED BY <1>4, <1>5, <1>6, <1>7 DEF Ordered

LEMMA GetSnapshotOrdered ==
  ASSUME IInv, GetSnapshot
  PROVE  Ordered'
<1>1. /\ snapshots' = snapshots \cup {lastSeq} /\ lastSeq \notin snapshots
      /\ held' = [s \in snapshots' |-> IF s = lastSeq THEN contents ELSE held[s]]
      /\ UNCHANGED <<mem, levels, lastSeq, comp, contents, limits>>
  BY DEF GetSnapshot, version, bounds
<1>2. Typed /\ Ordered
  BY DEF IInv
<1>3. KeysDisjoint' /\ NewestAbove' /\ MemNewest'
  BY <1>1, <1>2 DEF Ordered, KeysDisjoint, NewestAbove, MemNewest, InFiles
<1>4. CompRight'
  <2>1. ASSUME comp # None PROVE \E t \in 0..lastSeq: (\A s \in snapshots': t <= s) /\ LeftOut(comp, levels, t)
    BY <1>1, <1>2, <2>1 DEF Ordered, CompRight
  <2>2. comp # None => Older(comp, levels) /\ Clear(comp, levels) /\ (limits.nested => Gapless(comp.in0 \cup comp.in1))
    BY <1>2 DEF Ordered, CompRight
  <2> QED BY <1>1, <2>1, <2>2, CompForm
<1>5. ScanRight'
  <2>1. Promises(Stored, lastSeq, contents, snapshots, held)
    BY <1>2, ScanForm DEF Ordered
  <2>2. Stored' = Stored
    BY <1>1 DEF Stored, InFiles
  <2>3. held'[lastSeq] = contents /\ \A s \in snapshots: held'[s] = held[s]
    BY <1>1
  <2> QED BY <1>1, <2>1, <2>2, <2>3, ScanForm DEF Promises
<1> QED BY <1>3, <1>4, <1>5 DEF Ordered

LEMMA ReleaseSnapshotOrdered ==
  ASSUME IInv, NEW r \in snapshots, ReleaseSnapshot(r)
  PROVE  Ordered'
<1>1. /\ snapshots' = snapshots \ {r} /\ held' = Restrict(held, DOMAIN held \ {r})
      /\ UNCHANGED <<mem, levels, lastSeq, comp, contents, limits>>
  BY DEF ReleaseSnapshot, version, bounds
<1>2. Typed /\ Ordered
  BY DEF IInv
<1>3. KeysDisjoint' /\ NewestAbove' /\ MemNewest'
  BY <1>1, <1>2 DEF Ordered, KeysDisjoint, NewestAbove, MemNewest, InFiles
<1>4. CompRight'
  <2>1. ASSUME comp # None PROVE \E t \in 0..lastSeq: (\A s \in snapshots': t <= s) /\ LeftOut(comp, levels, t)
    BY <1>1, <1>2, <2>1 DEF Ordered, CompRight
  <2>2. comp # None => Older(comp, levels) /\ Clear(comp, levels) /\ (limits.nested => Gapless(comp.in0 \cup comp.in1))
    BY <1>2 DEF Ordered, CompRight
  <2> QED BY <1>1, <2>1, <2>2, CompForm
<1>5. ScanRight'
  <2>1. Promises(Stored, lastSeq, contents, snapshots, held)
    BY <1>2, ScanForm DEF Ordered
  <2>2. Stored' = Stored
    BY <1>1 DEF Stored, InFiles
  <2>3. \A s \in snapshots': held'[s] = held[s] /\ s \in snapshots
    <3>1. DOMAIN held = snapshots
      BY <1>2 DEF Typed, Counters
    <3> QED BY <1>1, <3>1 DEF Restrict
  <2>4. \A s \in snapshots': \A k \in Keys: ScanOf(Stored, k, s) = held'[s][k]
    BY <2>1, <2>3 DEF Promises
  <2>5. Promises(Stored', lastSeq', contents', snapshots', held')
    BY <1>1, <2>1, <2>2, <2>4 DEF Promises
  <2> QED BY <2>5, ScanForm
<1> QED BY <1>3, <1>4, <1>5 DEF Ordered

-----------------------------------------------------------------------------
(* Flush.                                                                  *)

LEMMA FlushForm ==
  ASSUME Typed, Flush
  PROVE  \E f, L:
           /\ f.entries = mem /\ f.smallest \in mem /\ f.largest \in mem /\ FileRight(f)
           /\ f.number = nextFile /\ \A e \in mem: f.smallest[1] <= e[1] /\ e[1] <= f.largest[1]
           /\ L \in Levels
           /\ L # 0 => \A m \in 0..L: ~OverlapInLevel(m, f.smallest[1], f.largest[1])
           /\ \A m \in Levels: levels'[m] = IF m = L THEN levels[m] \cup {f} ELSE levels[m]
<1> DEFINE f == File(nextFile, mem)
           L == PickLevelForMemTableOutput(f.smallest[1], f.largest[1])
<1>1. /\ mem # {} /\ levels' = [levels EXCEPT ![L] = @ \cup {f}]
  BY DEF Flush, Install, promised, bounds
<1>2. IsFiniteSet(mem) /\ mem \subseteq Entry /\ Distinct(mem)
  BY StoredRight DEF Typed, MemRight, Distinct, Stored
<1>3. /\ f.number = nextFile /\ f.entries = mem /\ f.smallest \in mem /\ f.largest \in mem /\ FileRight(f)
  BY <1>1, <1>2, FileMade
<1>4. f.smallest[1] \in Nat /\ f.largest[1] \in Nat
  BY <1>2, <1>3, EntryParts
<1> HIDE DEF f
<1>5. L \in Levels /\ (L # 0 => \A m \in 0..L: ~OverlapInLevel(m, f.smallest[1], f.largest[1]))
  BY <1>4, PickLevelRight
<1> HIDE DEF L
<1>6. \A m \in Levels: levels'[m] = IF m = L THEN levels[m] \cup {f} ELSE levels[m]
  BY <1>1 DEF Typed, LevelsTyped
<1>7. ASSUME NEW e \in mem PROVE f.smallest[1] <= e[1] /\ e[1] <= f.largest[1]
  <2>1. e \in Entry /\ f.smallest \in Entry /\ f.largest \in Entry
    BY <1>2, <1>3
  <2>2. (e = f.smallest \/ Before(f.smallest, e)) /\ (e = f.largest \/ Before(e, f.largest))
    BY <1>3 DEF FileRight, Least, Greatest
  <2>3. e[1] \in Nat
    BY <2>1, EntryParts
  <2> QED BY <2>1, <2>2, <2>3, BeforeOrder
<1> QED BY <1>3, <1>5, <1>6, <1>7

\* Where there are no gaps between the files, a file that meets them touches one.
LEMMA MeetsTouches ==
  ASSUME NEW F, Files(F), Gapless(F), NEW f, f.smallest[1] \in Keys, f.largest[1] \in Nat,
         f.smallest[1] <= f.largest[1], Meets(f, F)
  PROVE  \E g \in F: Touches(g, f.smallest[1], f.largest[1])
<1>1. PICK a \in F: f.smallest[1] <= a.largest[1]
  BY DEF Meets
<1>2. PICK b \in F: b.smallest[1] <= f.largest[1]
  BY DEF Meets
<1>3. /\ \A g \in F: g.smallest[1] \in Nat /\ g.largest[1] \in Nat /\ g.smallest[1] <= g.largest[1]
      /\ f.smallest[1] \in Nat
  BY FileKeys, KeysNat
<1>4. CASE Touches(a, f.smallest[1], f.largest[1]) \/ Touches(b, f.smallest[1], f.largest[1])
  BY <1>4
<1>5. CASE ~Touches(a, f.smallest[1], f.largest[1]) /\ ~Touches(b, f.smallest[1], f.largest[1])
  <2>1. b.smallest[1] <= f.smallest[1]
    BY <1>2, <1>3, <1>5 DEF Touches
  <2>2. Within(f.smallest[1], F)
    BY <1>1, <2>1 DEF Within
  <2>3. PICK g \in F: Touches(g, f.smallest[1], f.smallest[1])
    BY <2>2 DEF Gapless
  <2>4. Touches(g, f.smallest[1], f.largest[1])
    BY <1>3, <2>3 DEF Touches
  <2> QED BY <2>4
<1> QED BY <1>4, <1>5

LEMMA FlushOrdered ==
  ASSUME IInv, Flush
  PROVE  Ordered'
<1>1. Typed /\ Ordered
  BY DEF IInv
<1>2. /\ mem' = {} /\ (comp # None => limits.nested)
      /\ UNCHANGED <<lastSeq, snapshots, comp, contents, held, limits>>
  BY DEF Flush, promised, bounds
<1>3. PICK f, L:
           /\ f.entries = mem /\ f.smallest \in mem /\ f.largest \in mem /\ FileRight(f)
           /\ f.number = nextFile /\ \A e \in mem: f.smallest[1] <= e[1] /\ e[1] <= f.largest[1]
           /\ L \in Levels
           /\ L # 0 => \A m \in 0..L: ~OverlapInLevel(m, f.smallest[1], f.largest[1])
           /\ \A m \in Levels: levels'[m] = IF m = L THEN levels[m] \cup {f} ELSE levels[m]
  BY <1>1, FlushForm
<1>4. /\ f.smallest[1] \in Nat /\ f.largest[1] \in Nat /\ f.smallest[1] \in Keys
      /\ f.smallest[1] <= f.largest[1] /\ \A e \in mem: e[1] \in Nat
  <2>1. \A e \in mem: e \in Entry
    BY <1>1, StoredRight DEF Stored
  <2> QED BY <1>3, <2>1, EntryParts
<1>5. \A m \in Levels: \A g \in levels[m]:
        /\ g.smallest[1] \in Nat /\ g.largest[1] \in Nat
        /\ \A e \in g.entries: e[1] \in Nat /\ g.smallest[1] <= e[1] /\ e[1] <= g.largest[1]
  <2>1. ASSUME NEW m \in Levels, NEW g \in levels[m]
        PROVE  /\ g.smallest[1] \in Nat /\ g.largest[1] \in Nat
               /\ \A e \in g.entries: e[1] \in Nat /\ g.smallest[1] <= e[1] /\ e[1] <= g.largest[1]
    <3>1. /\ g.entries \subseteq Entry /\ g.smallest \in g.entries /\ g.largest \in g.entries
          /\ \A e \in g.entries: g.smallest[1] <= e[1] /\ e[1] <= g.largest[1]
      BY <1>1, <2>1, LevelFile
    <3> QED BY <3>1, EntryParts
  <2> QED BY <2>1
<1>6. L # 0 => \A m \in 0..L: \A g \in levels[m]: ~Touches(g, f.smallest[1], f.largest[1])
  BY <1>3 DEF OverlapInLevel
<1>7. \A m \in Levels: \A g \in levels'[m]: g \in levels[m] \/ (g = f /\ m = L)
  BY <1>3
<1>8. L # 0 => \A m \in Levels: m <= L => \A g \in levels[m]: \A e \in g.entries, x \in mem: e[1] # x[1]
  <2>1. ASSUME L # 0, NEW m \in Levels, m <= L, NEW g \in levels[m], NEW e \in g.entries, NEW x \in mem, e[1] = x[1]
        PROVE  FALSE
    <3>1. m \in 0..L
      BY <1>3, <2>1, LevelsNat
    <3>2. ~Touches(g, f.smallest[1], f.largest[1])
      BY <1>6, <2>1, <3>1
    <3>3. e[1] \in Nat /\ g.smallest[1] <= e[1] /\ e[1] <= g.largest[1]
      BY <1>5
    <3>4. g.smallest[1] \in Nat /\ g.largest[1] \in Nat
      BY <1>5
    <3>5. f.smallest[1] <= e[1] /\ e[1] <= f.largest[1]
      BY <1>3, <2>1
    <3> QED BY <1>4, <3>2, <3>3, <3>4, <3>5 DEF Touches
  <2> QED BY <2>1
<1>9. \A m \in Levels: \A g \in levels[m]: \A e \in f.entries, x \in g.entries: e[1] = x[1] => e[2] > x[2]
  BY <1>1, <1>3 DEF Ordered, MemNewest, InFiles
<1>10. KeysDisjoint'
  <2>1. ASSUME NEW g \in levels[L], L # 0 PROVE Left(f, g) \/ Left(g, f)
    <3>1. L \in 0..L
      BY <1>3, LevelsNat
    <3>2. ~Touches(g, f.smallest[1], f.largest[1])
      BY <1>6, <2>1, <3>1
    <3>3. g.smallest[1] \in Nat /\ g.largest[1] \in Nat
      BY <1>3, <1>5
    <3> QED BY <1>4, <3>2, <3>3 DEF Touches, Left
  <2>2. ASSUME NEW l \in Levels \ {0}, NEW g \in levels'[l], NEW h \in levels'[l], g # h
        PROVE  Left(g, h) \/ Left(h, g)
    BY <1>1, <1>7, <2>1, <2>2 DEF Ordered, KeysDisjoint
  <2> QED BY <2>2 DEF KeysDisjoint, Left
<1>11. NewestAbove'
  <2>1. ASSUME NEW g \in levels'[0], NEW h \in levels'[0], g.number > h.number PROVE Newer(g, h)
    <3>1. 0 \in Levels /\ \A m \in Levels: \A a \in levels[m]: a.number \in Nat /\ a.number < nextFile
      BY <1>1, LevelsNat, LevelFile
    <3>2. nextFile \in Nat
      BY <1>1 DEF Typed, Counters
    <3>3. CASE g = f
      <4>1. h # f
        BY <1>3, <2>1, <3>2, <3>3
      <4> QED BY <1>7, <1>9, <3>1, <3>3, <4>1 DEF Newer
    <3>4. CASE g # f
      <4>1. g \in levels[0]
        BY <1>7, <3>1, <3>4
      <4>2. h # f
        BY <1>3, <2>1, <3>1, <3>2, <4>1
      <4>3. h \in levels[0]
        BY <1>7, <3>1, <4>2
      <4> QED BY <1>1, <2>1, <4>1, <4>3 DEF Ordered, NewestAbove, Newer
    <3> QED BY <3>3, <3>4
  <2>2. ASSUME NEW l \in Levels, NEW m \in 0..(l - 1), NEW g \in levels'[m], NEW h \in levels'[l] PROVE Newer(g, h)
    <3>1. m \in Levels /\ m < l /\ l \in Nat /\ m \in Nat
      BY LevelsAssumption DEF Levels
    <3>2. CASE g \in levels[m] /\ h \in levels[l]
      BY <1>1, <3>2 DEF Ordered, NewestAbove, Newer
    <3>3. CASE g = f /\ m = L /\ h \in levels[l]
      BY <1>9, <3>3 DEF Newer
    <3>4. CASE g \in levels[m] /\ h = f /\ l = L
      <4>1. L # 0 /\ m <= L
        BY <3>1, <3>4
      <4> QED BY <1>3, <1>8, <3>1, <3>4, <4>1 DEF Newer
    <3> QED BY <1>7, <3>1, <3>2, <3>3, <3>4
  <2> QED BY <2>1, <2>2 DEF NewestAbove, Newer
<1>12. MemNewest'
  BY <1>2 DEF MemNewest
<1>13. CompRight'
  <2> SUFFICES ASSUME comp # None
               PROVE  /\ Older(comp, levels') /\ Clear(comp, levels')
                      /\ limits.nested => Gapless(comp.in0 \cup comp.in1)
                      /\ \E t \in 0..lastSeq: (\A s \in snapshots: t <= s) /\ LeftOut(comp, levels', t)
    BY <1>2, CompForm
  <2>1. PICK t \in 0..lastSeq: (\A s \in snapshots: t <= s) /\ LeftOut(comp, levels, t)
    BY <1>1 DEF Ordered, CompRight
  <2>2. Older(comp, levels) /\ Clear(comp, levels) /\ Gapless(comp.in0 \cup comp.in1)
    BY <1>1, <1>2 DEF Ordered, CompRight
  <2>3. /\ comp.level \in Levels /\ comp.level + 1 \in Levels /\ comp.level \in Nat
        /\ comp.in0 \subseteq levels[comp.level] /\ comp.in1 \subseteq levels[comp.level + 1]
    BY <1>1, InputsRight, LevelsNat
  <2>4. Older(comp, levels')
    BY <1>7, <1>9, <2>2, <2>3 DEF Older, Newer
  <2>5. Clear(comp, levels')
    <3>1. ASSUME L = comp.level + 1 PROVE ~Meets(f, comp.in0 \cup comp.in1)
      <4> SUFFICES ASSUME Meets(f, comp.in0 \cup comp.in1) PROVE FALSE
        OBVIOUS
      <4>1. Files(comp.in0 \cup comp.in1)
        <5>1. Files(levels[comp.level] \cup levels[comp.level + 1])
          BY <1>1, <2>3, LevelFiles
        <5>2. comp.in0 \cup comp.in1 \in SUBSET (levels[comp.level] \cup levels[comp.level + 1])
          BY <2>3
        <5> QED BY <5>1, <5>2, FilesSubset
      <4>2. PICK g \in comp.in0 \cup comp.in1: Touches(g, f.smallest[1], f.largest[1])
        BY <1>4, <2>2, <4>1, MeetsTouches
      <4>3. comp.level \in 0..L /\ comp.level + 1 \in 0..L /\ L # 0
        BY <2>3, <3>1
      <4> QED BY <1>6, <2>3, <4>2, <4>3
    <3> QED BY <1>7, <2>2, <2>3, <3>1 DEF Clear
  <2>6. LeftOut(comp, levels', t)
    <3>1. ASSUME NEW e \in Ins(comp), NEW l \in (comp.level + 2)..(NumLevels - 1),
                 \A h \in levels[l]: \A x \in h.entries: x[1] # e[1],
                 NEW h \in levels'[l], NEW x \in h.entries, x[1] = e[1]
          PROVE  FALSE
      <4>1. l \in Levels /\ l \in Nat /\ comp.level <= l /\ comp.level + 1 <= l /\ l # 0
        BY <2>3, LevelsNat DEF Levels
      <4>2. h = f /\ l = L
        BY <1>7, <3>1, <4>1
      <4>3. PICK g \in comp.in0 \cup comp.in1: e \in g.entries
        BY DEF Ins
      <4>4. x \in mem
        BY <1>3, <4>2
      <4>5. g \in levels[comp.level] \/ g \in levels[comp.level + 1]
        BY <2>3
      <4> QED BY <1>8, <2>3, <3>1, <4>1, <4>2, <4>3, <4>4, <4>5
    <3>2. ASSUME NEW e \in Ins(comp) \ Outs(comp)
          PROVE  \/ \E x \in Ins(comp): x[1] = e[1] /\ e[2] < x[2] /\ x[2] <= t
                 \/ /\ e[3] = "delete" /\ e[2] <= t
                    /\ \A x \in Outs(comp): x[1] = e[1] => x[2] > e[2]
                    /\ \A l \in (comp.level + 2)..(NumLevels - 1): \A h \in levels'[l]: \A x \in h.entries: x[1] # e[1]
      <4>1. CASE \E x \in Ins(comp): x[1] = e[1] /\ e[2] < x[2] /\ x[2] <= t
        BY <4>1
      <4>2. CASE ~\E x \in Ins(comp): x[1] = e[1] /\ e[2] < x[2] /\ x[2] <= t
        <5>1. /\ e[3] = "delete" /\ e[2] <= t
              /\ \A x \in Outs(comp): x[1] = e[1] => x[2] > e[2]
              /\ \A l \in (comp.level + 2)..(NumLevels - 1): \A h \in levels[l]: \A x \in h.entries: x[1] # e[1]
          BY <2>1, <4>2 DEF LeftOut
        <5>2. \A l \in (comp.level + 2)..(NumLevels - 1): \A h \in levels'[l]: \A x \in h.entries: x[1] # e[1]
          BY <3>1, <5>1
        <5> QED BY <5>1, <5>2
      <4> QED BY <4>1, <4>2
    <3> QED BY <3>2 DEF LeftOut
  <2> QED BY <2>1, <2>2, <2>4, <2>5, <2>6
<1>14. ScanRight'
  <2>1. ASSUME NEW e PROVE e \in Stored' <=> e \in Stored
    <3>1. e \in Stored' <=> \E m \in Levels: \E g \in levels'[m]: e \in g.entries
      BY <1>2 DEF Stored, InFiles
    <3>2. e \in Stored <=> e \in mem \/ \E m \in Levels: \E g \in levels[m]: e \in g.entries
      BY DEF Stored, InFiles
    <3>3. f \in levels'[L] /\ f.entries = mem /\ L \in Levels /\ \A m \in Levels: levels[m] \subseteq levels'[m]
      BY <1>3
    <3> QED BY <1>7, <3>1, <3>2, <3>3
  <2>2. Stored' = Stored
    BY <2>1
  <2> QED BY <1>1, <1>2, <2>2, ScanForm DEF Ordered
<1> QED BY <1>10, <1>11, <1>12, <1>13, <1>14 DEF Ordered

-----------------------------------------------------------------------------
(* A compaction begins.                                                    *)

\* Entries of one key make their files overlap.
LEMMA ShareKey ==
  ASSUME Typed, NEW l \in Levels, NEW m \in Levels, NEW f \in levels[l], NEW g \in levels[m],
         NEW e \in f.entries, NEW x \in g.entries, e[1] = x[1]
  PROVE  /\ f.smallest[1] <= g.largest[1] /\ g.smallest[1] <= f.largest[1]
         /\ ~Left(f, g) /\ ~Left(g, f)
         /\ \A F: g \in F => Meets(f, F)
<1>1. f.smallest[1] <= e[1] /\ e[1] <= f.largest[1] /\ g.smallest[1] <= e[1] /\ e[1] <= g.largest[1]
  BY LevelFile
<1>2. e \in Entry /\ f.smallest \in Entry /\ f.largest \in Entry /\ g.smallest \in Entry /\ g.largest \in Entry
  BY LevelFile
<1>3. e[1] \in Nat /\ f.smallest[1] \in Nat /\ f.largest[1] \in Nat /\ g.smallest[1] \in Nat /\ g.largest[1] \in Nat
  BY <1>2, EntryParts
<1>4. f.smallest[1] <= g.largest[1] /\ g.smallest[1] <= f.largest[1]
  BY <1>1, <1>3
<1> QED BY <1>3, <1>4 DEF Left, Meets

\* What stays behind in the level is newer.
LEMMA StartOlder ==
  ASSUME Typed, KeysDisjoint, NEW c, NEW level, NEW X, Starting(c, level, X)
  PROVE  /\ \A f \in c.in0, g \in levels[level] \ c.in0: \A e \in f.entries, x \in g.entries: e[1] # x[1]
         /\ Older(c, levels)
<1>1. /\ c.level = level /\ level \in Levels /\ c.in0 \subseteq levels[level]
      /\ level = 0 => Closed(c.in0)
  BY DEF Starting
<1>2. ASSUME NEW f \in c.in0, NEW g \in levels[level] \ c.in0, NEW e \in f.entries, NEW x \in g.entries, e[1] = x[1]
      PROVE  FALSE
  <2>1. f \in levels[level] /\ g \in levels[level] /\ f # g
    BY <1>1
  <2>2. ~Left(f, g) /\ ~Left(g, f) /\ Meets(g, c.in0)
    BY <1>1, <1>2, <2>1, ShareKey
  <2>3. CASE level = 0
    BY <1>1, <2>2, <2>3 DEF Closed
  <2>4. CASE level # 0
    BY <1>1, <2>1, <2>2, <2>4 DEF KeysDisjoint
  <2> QED BY <2>3, <2>4
<1> QED BY <1>1, <1>2 DEF Older, Newer

LEMMA MoveOrdered ==
  ASSUME IInv, comp = None, NEW c, NEW level, NEW X, Starting(c, level, X),
         Moves(c), Beginning(c), Cardinality(c.in0) = 1, c.in1 = {}
  PROVE  Ordered'
<1>1. Typed /\ Ordered
  BY DEF IInv
<1>2. /\ c.level = level /\ level \in Levels /\ level + 1 \in Levels /\ level \in Nat
      /\ c.in0 \subseteq levels[level]
      /\ \A f \in levels[level + 1]: ~Meets(f, c.in0)
  BY LevelsNat DEF Starting
<1>3. PICK f: c.in0 = {f}
  <2>1. IsFiniteSet(levels[level])
    BY <1>1, <1>2 DEF Typed, FilesRight
  <2>2. IsFiniteSet(c.in0)
    BY <1>2, <2>1, FS_Subset
  <2> QED BY <2>2, FS_Singleton
<1>4. /\ \A m \in Levels: \A g \in levels'[m]: (g = f /\ m = level + 1) \/ (g \in levels[m] /\ g # f)
      /\ \A m \in Levels: \A g \in levels[m]: \E l \in Levels: g \in levels'[l]
  BY <1>1, <1>2, <1>3, MoveLevels
<1>5. f \in levels[level] /\ \A g \in levels[level]: g # f => Newer(g, f)
  BY <1>1, <1>2, <1>3, StartOlder DEF Ordered, Older
<1>6. mem' = mem /\ comp' = None /\ UNCHANGED <<lastSeq, snapshots, contents, held>>
  BY DEF Beginning, Moves
<1>7. KeysDisjoint'
  <2>1. ASSUME NEW g \in levels[level + 1] PROVE Left(f, g) \/ Left(g, f)
    <3>1. ~(g.smallest[1] <= f.largest[1] /\ f.smallest[1] <= g.largest[1])
      BY <1>2, <1>3 DEF Meets
    <3>2. f.smallest[1] \in Nat /\ f.largest[1] \in Nat /\ g.smallest[1] \in Nat /\ g.largest[1] \in Nat
      BY <1>1, <1>2, <1>5, LevelFilesOne, FileKeys
    <3> QED BY <3>1, <3>2 DEF Left
  <2>2. ASSUME NEW l \in Levels \ {0}, NEW g \in levels'[l], NEW h \in levels'[l], g # h
        PROVE  Left(g, h) \/ Left(h, g)
    BY <1>1, <1>4, <2>1, <2>2 DEF Ordered, KeysDisjoint
  <2> QED BY <2>2 DEF KeysDisjoint, Left
<1>8. NewestAbove'
  <2>1. ASSUME NEW g \in levels'[0], NEW h \in levels'[0], g.number > h.number PROVE Newer(g, h)
    <3>1. 0 \in Levels /\ 0 # level + 1
      BY <1>2, LevelsNat
    <3>2. g \in levels[0] /\ h \in levels[0]
      BY <1>4, <3>1
    <3> QED BY <1>1, <2>1, <3>2 DEF Ordered, NewestAbove, Newer
  <2>2. ASSUME NEW l \in Levels, NEW m \in 0..(l - 1), NEW g \in levels'[m], NEW h \in levels'[l] PROVE Newer(g, h)
    <3>1. m \in Levels /\ m < l /\ l \in Nat /\ m \in Nat
      BY LevelsAssumption DEF Levels
    <3>2. CASE g \in levels[m] /\ h \in levels[l]
      BY <1>1, <3>2 DEF Ordered, NewestAbove, Newer
    <3>3. CASE g = f /\ m = level + 1 /\ h \in levels[l]
      <4>1. level \in 0..(l - 1)
        BY <1>2, <3>1, <3>3
      <4> QED BY <1>1, <1>5, <3>3, <4>1 DEF Ordered, NewestAbove, Newer
    <3>4. CASE g \in levels[m] /\ g # f /\ h = f /\ l = level + 1
      <4>1. m = level \/ m \in 0..(level - 1)
        BY <1>2, <3>1, <3>4
      <4> QED BY <1>1, <1>2, <1>5, <3>4, <4>1 DEF Ordered, NewestAbove, Newer
    <3>5. ~(g = f /\ m = level + 1 /\ h = f /\ l = level + 1)
      BY <3>1
    <3> QED BY <1>4, <3>1, <3>2, <3>3, <3>4, <3>5
  <2> QED BY <2>1, <2>2 DEF NewestAbove, Newer
<1>9. InFiles' = InFiles
  <2>1. ASSUME NEW e PROVE e \in InFiles' <=> e \in InFiles
    <3>1. e \in InFiles' <=> \E m \in Levels: \E g \in levels'[m]: e \in g.entries
      BY DEF InFiles
    <3>2. e \in InFiles <=> \E m \in Levels: \E g \in levels[m]: e \in g.entries
      BY DEF InFiles
    <3> QED BY <1>2, <1>4, <1>5, <3>1, <3>2
  <2> QED BY <2>1
<1>10. MemNewest'
  BY <1>1, <1>6, <1>9 DEF Ordered, MemNewest
<1>11. CompRight'
  BY <1>6, CompForm
<1>12. ScanRight'
  <2>1. Stored' = Stored
    BY <1>6, <1>9 DEF Stored
  <2> QED BY <1>1, <1>6, <2>1, ScanForm DEF Ordered
<1> QED BY <1>7, <1>8, <1>10, <1>11, <1>12 DEF Ordered

\* No file that stays in the level below overlaps the whole of the inputs.
LEMMA StartClear ==
  ASSUME Typed, KeysDisjoint, NEW c, NEW level, NEW X, Starting(c, level, X)
  PROVE  Clear(c, levels)
<1>1. /\ c.level = level /\ level \in Levels /\ level + 1 \in Levels /\ level + 1 # 0 /\ c.in0 \subseteq levels[level]
      /\ c.in1 \subseteq levels[level + 1] /\ \A f \in levels[level + 1]: f \in c.in1 <=> Meets(f, c.in0)
  BY LevelsNat DEF Starting
<1>2. \A g \in levels[level] \cup levels[level + 1]:
        g.smallest[1] \in Nat /\ g.largest[1] \in Nat /\ g.smallest[1] <= g.largest[1]
  BY <1>1, LevelFiles, FileKeys
<1>3. ASSUME NEW g \in levels[level + 1] \ c.in1, Meets(g, c.in0 \cup c.in1) PROVE FALSE
  <2>1. PICK a \in c.in0 \cup c.in1: g.smallest[1] <= a.largest[1]
    BY <1>3 DEF Meets
  <2>2. PICK b \in c.in0 \cup c.in1: b.smallest[1] <= g.largest[1]
    BY <1>3 DEF Meets
  <2>3. ~Meets(g, c.in0)
    BY <1>1
  <2>4. CASE \A h \in c.in0: ~(g.smallest[1] <= h.largest[1])
    <3>1. a \in c.in1 /\ a # g
      BY <2>1, <2>4
    <3>2. Left(g, a) \/ Left(a, g)
      BY <1>1, <3>1 DEF KeysDisjoint
    <3>3. PICK h \in c.in0: a.smallest[1] <= h.largest[1]
      BY <1>1, <3>1 DEF Meets
    <3>4. /\ g.smallest[1] \in Nat /\ g.largest[1] \in Nat /\ g.smallest[1] <= g.largest[1]
          /\ a.smallest[1] \in Nat /\ a.largest[1] \in Nat /\ h.largest[1] \in Nat
      BY <1>1, <1>2, <3>1
    <3>5. h.largest[1] < g.smallest[1]
      BY <2>4, <3>4
    <3> QED BY <2>1, <3>2, <3>3, <3>4, <3>5 DEF Left
  <2>5. CASE \A h \in c.in0: ~(h.smallest[1] <= g.largest[1])
    <3>1. b \in c.in1 /\ b # g
      BY <2>2, <2>5
    <3>2. Left(g, b) \/ Left(b, g)
      BY <1>1, <3>1 DEF KeysDisjoint
    <3>3. PICK h \in c.in0: h.smallest[1] <= b.largest[1]
      BY <1>1, <3>1 DEF Meets
    <3>4. /\ g.smallest[1] \in Nat /\ g.largest[1] \in Nat /\ g.smallest[1] <= g.largest[1]
          /\ b.smallest[1] \in Nat /\ b.largest[1] \in Nat /\ h.smallest[1] \in Nat
      BY <1>1, <1>2, <3>1
    <3>5. g.largest[1] < h.smallest[1]
      BY <2>5, <3>4
    <3> QED BY <2>2, <3>2, <3>3, <3>4, <3>5 DEF Left
  <2> QED BY <2>3, <2>4, <2>5 DEF Meets
<1> QED BY <1>1, <1>3 DEF Clear

\* Rules (A) and (B) of DoCompactionWork leave out what nobody misses.
LEMMA DroppedRight ==
  ASSUME Typed, NEW c, NEW level, NEW X, Starting(c, level, X)
  PROVE  LET t == c.smallestSnapshot
         IN /\ t \in 0..lastSeq /\ \A s \in snapshots: t <= s
            /\ \A e \in Ins(c) \ Kept(c):
                 \/ \E x \in Ins(c): x[1] = e[1] /\ e[2] < x[2] /\ x[2] <= t
                 \/ /\ e[3] = "delete" /\ e[2] <= t
                    /\ \A x \in Kept(c): x[1] = e[1] => x[2] > e[2]
                    /\ \A l \in (c.level + 2)..(NumLevels - 1): \A f \in levels[l]: \A x \in f.entries: x[1] # e[1]
<1> DEFINE t == c.smallestSnapshot
<1>1. /\ t = IF snapshots = {} THEN lastSeq ELSE Min(snapshots)
      /\ c.base = levels /\ c.level = level /\ level \in Nat
      /\ Ins(c) \subseteq Entry /\ Distinct(Ins(c))
  BY LevelsNat DEF Starting, Mergeable
<1> HIDE DEF t
<1>2. lastSeq \in Nat /\ snapshots \subseteq 0..lastSeq
  BY DEF Typed, Counters
<1>3. t \in 0..lastSeq /\ \A s \in snapshots: t <= s
  <2>1. CASE snapshots = {}
    BY <1>1, <1>2, <2>1
  <2>2. CASE snapshots # {}
    <3>1. snapshots \in SUBSET Nat
      BY <1>2
    <3>2. Min(snapshots) \in snapshots /\ \A s \in snapshots: Min(snapshots) <= s
      BY <2>2, <3>1, MinNat
    <3> QED BY <1>1, <1>2, <2>2, <3>2
  <2> QED BY <2>1, <2>2
<1>4. Kept(c) = {e \in Ins(c): ~Hidden(c, e, Ins(c)) /\ ~Obsolete(c, e)}
  BY DEF Kept, Ins
<1>5. \A e \in Ins(c): e[1] \in Nat /\ e[2] \in Nat
  BY <1>1, EntryParts
<1>6. ASSUME NEW e \in Ins(c) \ Kept(c), ~\E x \in Ins(c): x[1] = e[1] /\ e[2] < x[2] /\ x[2] <= t
      PROVE  /\ e[3] = "delete" /\ e[2] <= t
             /\ \A x \in Kept(c): x[1] = e[1] => x[2] > e[2]
             /\ \A l \in (c.level + 2)..(NumLevels - 1): \A f \in levels[l]: \A x \in f.entries: x[1] # e[1]
  <2>1. ~Hidden(c, e, Ins(c))
    BY <1>5, <1>6 DEF Hidden, t
  <2>2. e[3] = "delete" /\ e[2] <= t /\ IsBaseLevelForKey(c, e[1])
    BY <1>4, <1>6, <2>1 DEF Obsolete, t
  <2>3. ASSUME NEW x \in Kept(c), x[1] = e[1] PROVE x[2] > e[2]
    <3>1. x \in Ins(c) /\ ~Hidden(c, x, Ins(c)) /\ x # e
      BY <1>4, <1>6
    <3>2. x[2] # e[2]
      BY <1>1, <1>6, <3>1 DEF Distinct
    <3>3. ~(e[2] > x[2])
      BY <1>6, <2>2, <2>3, <3>1 DEF Hidden, t
    <3> QED BY <1>5, <1>6, <3>1, <3>2, <3>3
  <2>4. ASSUME NEW l \in (c.level + 2)..(NumLevels - 1), NEW f \in levels[l], NEW x \in f.entries, x[1] = e[1]
        PROVE  FALSE
    <3>1. ~Touches(f, e[1], e[1])
      BY <1>1, <2>2 DEF IsBaseLevelForKey
    <3>2. l \in Levels
      BY <1>1, LevelsAssumption DEF Levels
    <3>3. f.smallest[1] <= e[1] /\ e[1] <= f.largest[1]
      BY <2>4, <3>2, LevelFile
    <3>4. f.largest[1] \in Nat /\ e[1] \in Nat
      BY <1>5, <1>6, <3>2, LevelFilesOne, FileKeys
    <3> QED BY <3>1, <3>3, <3>4 DEF Touches
  <2> QED BY <2>2, <2>3, <2>4
<1> QED BY <1>3, <1>6 DEF t

LEMMA MergeOrdered ==
  ASSUME IInv, NEW c, NEW level, NEW X, Starting(c, level, X), limits.nested => Gapless(X),
         Merges(c), Beginning(c)
  PROVE  Ordered'
<1>1. Typed /\ Ordered
  BY DEF IInv
<1>2. /\ comp' = [level |-> c.level, in0 |-> c.in0, in1 |-> c.in1, outputs |-> Outputs(c), byHand |-> manual # None]
      /\ UNCHANGED <<mem, levels, lastSeq, snapshots, contents, held, limits>>
  BY DEF Merges, Beginning
<1>3. Older(c, levels) /\ Clear(c, levels) /\ (limits.nested => Gapless(c.in0 \cup c.in1))
  BY <1>1, StartOlder, StartClear DEF Ordered, Starting
<1> DEFINE d == comp'
<1>4. d.level = c.level /\ d.in0 = c.in0 /\ d.in1 = c.in1 /\ d.outputs = Outputs(c)
  BY <1>2
<1>5. Ins(d) = Ins(c) /\ Outs(d) = Kept(c)
  <2>1. Mergeable(c)
    BY DEF Starting
  <2>2. UNION {Outputs(c)[i] : i \in DOMAIN Outputs(c)} = Kept(c)
    BY <2>1, PartitionRight
  <2> HIDE DEF d
  <2> QED BY <1>4, <2>2 DEF Ins, Outs
<1> HIDE DEF d
<1>6. Older(d, levels) /\ Clear(d, levels) /\ (limits.nested => Gapless(d.in0 \cup d.in1))
  BY <1>3, <1>4 DEF Older, Clear
<1>7. \E t \in 0..lastSeq: (\A s \in snapshots: t <= s) /\ LeftOut(d, levels, t)
  <2> DEFINE t == c.smallestSnapshot
  <2>1. /\ t \in 0..lastSeq /\ \A s \in snapshots: t <= s
        /\ \A e \in Ins(c) \ Kept(c):
             \/ \E x \in Ins(c): x[1] = e[1] /\ e[2] < x[2] /\ x[2] <= t
             \/ /\ e[3] = "delete" /\ e[2] <= t
                /\ \A x \in Kept(c): x[1] = e[1] => x[2] > e[2]
                /\ \A l \in (c.level + 2)..(NumLevels - 1): \A f \in levels[l]: \A x \in f.entries: x[1] # e[1]
    BY <1>1, DroppedRight
  <2> HIDE DEF t
  <2>2. LeftOut(d, levels, t)
    BY <1>4, <1>5, <2>1 DEF LeftOut
  <2> QED BY <2>1, <2>2
<1>8. CompRight'
  BY <1>2, <1>6, <1>7, CompForm DEF d
<1>9. KeysDisjoint' /\ NewestAbove' /\ MemNewest'
  BY <1>1, <1>2 DEF Ordered, KeysDisjoint, NewestAbove, MemNewest, InFiles
<1>10. ScanRight'
  <2>1. Stored' = Stored
    BY <1>2 DEF Stored, InFiles
  <2> QED BY <1>1, <1>2, <2>1, ScanForm DEF Ordered
<1> QED BY <1>8, <1>9, <1>10 DEF Ordered

LEMMA BeginOrdered ==
  ASSUME IInv, comp = None, NEW level, NEW X, Chosen(level, X), X # {}, limits.nested => Gapless(X),
         Begin(CompactionOf(level, X))
  PROVE  Ordered'
<1> DEFINE c == CompactionOf(level, X)
<1>1. Starting(c, level, X)
  BY CompactionRight DEF IInv
<1>2. Beginning(c) /\ ((Moves(c) /\ Cardinality(c.in0) = 1 /\ c.in1 = {}) \/ Merges(c))
  BY BeginForms
<1> HIDE DEF c
<1> QED BY <1>1, <1>2, MoveOrdered, MergeOrdered

LEMMA StartManualOrdered ==
  ASSUME IInv, ManualAlone, StartManual
  PROVE  Ordered'
<1>1. comp = None /\ manual # None /\ ManualInputs(manual) # {} /\ Begin(CompactionOf(manual.level, ManualInputs(manual)))
  BY DEF StartManual
<1>2. Chosen(manual.level, ManualInputs(manual))
  BY <1>1, ManualChosen DEF IInv
<1>3. ~limits.nested
  <2>1. limits \in Scenarios /\ limits.ranges # {}
    BY <1>1 DEF IInv, Typed, Counters, ManualRight
  <2> QED BY <2>1 DEF ManualAlone
<1> QED BY <1>1, <1>2, <1>3, BeginOrdered

LEMMA StartCompactionOrdered ==
  ASSUME IInv, StartCompaction
  PROVE  Ordered'
<1>1. /\ comp = None /\ NeedsCompaction /\ PickCompaction.inputs # {}
      /\ Begin(CompactionOf(PickCompaction.level, PickCompaction.inputs))
  BY DEF StartCompaction
<1>2. Chosen(PickCompaction.level, PickCompaction.inputs) /\ Gapless(PickCompaction.inputs)
  BY <1>1, PickedRight DEF IInv
<1> QED BY <1>1, <1>2, BeginOrdered

-----------------------------------------------------------------------------
(* A merge is installed.                                                   *)

\* An entry of the inputs, and what is where.
LEMMA InputFile ==
  ASSUME Typed, comp # None, NEW e \in Ins(comp)
  PROVE  \E h \in comp.in0 \cup comp.in1: e \in h.entries
  BY DEF Ins

\* Nothing below or in the file of an entry left out is older than it, if it is
\* a deletion that hides nothing.
LEMMA NothingOlder ==
  ASSUME Typed, NewestAbove, MemNewest, comp # None, Older(comp, levels), Clear(comp, levels),
         NEW N \in Ins(comp),
         \A x \in Outs(comp): x[1] = N[1] => x[2] > N[2],
         \A l \in (comp.level + 2)..(NumLevels - 1): \A f \in levels[l]: \A x \in f.entries: x[1] # N[1],
         NEW x, x[1] = N[1],
         x \in mem \/ x \in Outs(comp)
           \/ \E m \in Levels: \E g \in levels[m]: g \notin comp.in0 \cup comp.in1 /\ x \in g.entries
  PROVE  x[2] > N[2]
<1>1. /\ comp.level \in Levels /\ comp.level + 1 \in Levels /\ comp.level \in Nat
      /\ comp.in0 \subseteq levels[comp.level] /\ comp.in1 \subseteq levels[comp.level + 1]
      /\ Ins(comp) \subseteq InFiles /\ Levels \in SUBSET Nat
  BY InputsRight, LevelsNat
<1>2. CASE x \in mem
  BY <1>1, <1>2 DEF MemNewest
<1>3. CASE x \in Outs(comp)
  BY <1>3
<1>4. CASE \E m \in Levels: \E g \in levels[m]: g \notin comp.in0 \cup comp.in1 /\ x \in g.entries
  <2>1. PICK m \in Levels: \E g \in levels[m]: g \notin comp.in0 \cup comp.in1 /\ x \in g.entries
    BY <1>4
  <2>2. PICK g \in levels[m]: g \notin comp.in0 \cup comp.in1 /\ x \in g.entries
    BY <2>1
  <2>3. PICK h \in comp.in0 \cup comp.in1: N \in h.entries
    BY InputFile
  <2>4. m \in Nat
    BY <1>1
  <2>5. CASE m < comp.level
    <3>1. m \in 0..(comp.level - 1) /\ m \in 0..((comp.level + 1) - 1)
      BY <1>1, <2>4, <2>5
    <3> QED BY <1>1, <2>2, <2>3, <3>1 DEF NewestAbove
  <2>6. CASE m = comp.level
    <3>1. CASE h \in comp.in0
      BY <2>2, <2>3, <2>6, <3>1 DEF Older, Newer
    <3>2. CASE h \in comp.in1
      <4>1. m \in 0..((comp.level + 1) - 1)
        BY <1>1, <2>6
      <4> QED BY <1>1, <2>2, <2>3, <3>2, <4>1 DEF NewestAbove
    <3> QED BY <3>1, <3>2
  <2>7. CASE m = comp.level + 1
    <3>1. \E l \in Levels: h \in levels[l]
      BY <1>1
    <3>2. Meets(g, comp.in0 \cup comp.in1)
      BY <2>2, <2>3, <3>1, ShareKey
    <3> QED BY <2>2, <2>7, <3>2 DEF Clear
  <2>8. CASE m > comp.level + 1
    <3>1. m \in (comp.level + 2)..(NumLevels - 1)
      BY <1>1, <2>4, <2>8, LevelsAssumption DEF Levels
    <3> QED BY <2>2, <3>1
  <2> QED BY <1>1, <2>4, <2>5, <2>6, <2>7, <2>8
<1> QED BY <1>2, <1>3, <1>4

\* A reader that sees what all see finds the same after the merge.
LEMMA SameScan ==
  ASSUME Typed, NewestAbove, MemNewest, comp # None, Older(comp, levels), Clear(comp, levels),
         NEW t \in Nat, LeftOut(comp, levels, t), NEW E \in SUBSET Stored,
         \A e \in Stored: e \in E \/ e \in Ins(comp) \ Outs(comp),
         \A e \in E: \/ e \in mem \/ e \in Outs(comp)
                     \/ \E m \in Levels: \E g \in levels[m]: g \notin comp.in0 \cup comp.in1 /\ e \in g.entries,
         NEW k \in Keys, NEW s \in Nat, t <= s
  PROVE  ScanOf(E, k, s) = ScanOf(Stored, k, s)
<1> DEFINE A == AtMost(Stored, k, s)
           B == AtMost(E, k, s)
           N == Newest(A)
<1>1. /\ A \in SUBSET Entry /\ Distinct(A) /\ B \in SUBSET A
      /\ \A e \in A: e \in Stored /\ e[1] = k /\ e[2] <= s /\ e[2] \in Nat
      /\ \A e \in Stored: e[1] = k /\ e[2] <= s => e \in A
      /\ \A e \in A: e \in E => e \in B
      /\ \A e \in B: e \in E
  BY StoredRight DEF AtMost, Typed, Distinct
<1> HIDE DEF A, B
<1>2. CASE A = B
  BY <1>2 DEF A, B, ScanOf
<1>3. CASE A # B
  <2>1. A # {}
    BY <1>1, <1>3
  <2>2. N \in A /\ \A x \in A: x[2] <= N[2]
    BY <1>1, <2>1, NewestRight
  <2> HIDE DEF N
  <2>3. \A x \in A: x # N => x[2] < N[2]
    BY <1>1, <2>2 DEF Distinct
  <2>4. CASE N \in B
    <3>1. B # {} /\ \A x \in {N}, e \in A \ {N}: x[2] > e[2]
      BY <1>1, <2>2, <2>3, <2>4
    <3>2. Value(A) = Value({N})
      <4>1. {N} \in SUBSET A /\ {N} # {} /\ \A e \in A: e[2] <= s
        BY <1>1, <2>2
      <4> QED BY <1>1, <3>1, <4>1, SameValue
    <3>3. Value(B) = Value({N})
      <4>1. {N} \in SUBSET B /\ {N} # {} /\ B \in SUBSET Entry /\ Distinct(B) /\ \A e \in B: e[2] <= s
        BY <1>1, <2>4 DEF Distinct
      <4>2. \A x \in {N}, e \in B \ {N}: x[2] > e[2]
        BY <1>1, <3>1
      <4> QED BY <4>1, <4>2, SameValue
    <3> QED BY <3>2, <3>3 DEF A, B, ScanOf
  <2>5. CASE N \notin B
    <3>1. N \in Ins(comp) \ Outs(comp)
      BY <1>1, <2>2, <2>5
    <3>2. ~\E x \in Ins(comp): x[1] = N[1] /\ N[2] < x[2] /\ x[2] <= t
      <4>1. SUFFICES ASSUME NEW x \in Ins(comp), x[1] = N[1], N[2] < x[2], x[2] <= t PROVE FALSE
        OBVIOUS
      <4>2. x \in Stored /\ x[2] \in Nat
        BY InputsRight, StoredRight
      <4>3. x \in A
        BY <1>1, <2>2, <4>1, <4>2
      <4> QED BY <1>1, <2>2, <4>1, <4>2, <4>3
    <3>3. /\ N[3] = "delete"
          /\ \A x \in Outs(comp): x[1] = N[1] => x[2] > N[2]
          /\ \A l \in (comp.level + 2)..(NumLevels - 1): \A f \in levels[l]: \A x \in f.entries: x[1] # N[1]
      BY <3>1, <3>2 DEF LeftOut
    <3>4. B = {}
      <4>1. SUFFICES ASSUME NEW x \in B PROVE FALSE
        OBVIOUS
      <4>2. x[1] = N[1] /\ x \in E
        BY <1>1, <2>2
      <4>3. x[2] > N[2]
        BY <3>1, <3>3, <4>2, NothingOlder
      <4> QED BY <1>1, <2>2, <4>3
    <3>5. Value(A) = None /\ Value(B) = None
      BY <2>1, <3>3, <3>4 DEF Value, N
    <3> QED BY <3>5 DEF A, B, ScanOf
  <2> QED BY <2>4, <2>5
<1> QED BY <1>2, <1>3

LEMMA FinishOrdered ==
  ASSUME IInv, KeysWhole, FinishCompaction
  PROVE  Ordered'
<1>1. Typed /\ Ordered
  BY DEF IInv
<1>2. /\ comp # None /\ comp' = None
      /\ UNCHANGED <<mem, lastSeq, snapshots, contents, held>>
      /\ \A m \in Levels: \A f \in levels'[m]:
           \/ f \in NewFiles /\ m = comp.level + 1
           \/ f \in levels[m] /\ f \notin comp.in0 \cup comp.in1
      /\ \A m \in Levels: \A f \in levels[m]: f \notin comp.in0 \cup comp.in1 => f \in levels'[m]
      /\ \A f \in NewFiles: f \in levels'[comp.level + 1]
  BY <1>1, FinishForm
<1>3. /\ comp.level \in Levels /\ comp.level + 1 \in Levels /\ comp.level \in Nat /\ Levels \in SUBSET Nat
      /\ comp.in0 \subseteq levels[comp.level] /\ comp.in1 \subseteq levels[comp.level + 1]
      /\ Ins(comp) \subseteq InFiles /\ Ins(comp) \subseteq Stored
      /\ DOMAIN comp.outputs = 1..Len(comp.outputs) /\ Len(comp.outputs) \in Nat
      /\ \A i \in DOMAIN comp.outputs: comp.outputs[i] \subseteq Ins(comp)
      /\ Outs(comp) \subseteq Ins(comp)
  BY <1>1, <1>2, InputsRight, LevelsNat DEF Outs
<1>4. /\ \A f \in NewFiles: \E i \in DOMAIN comp.outputs: NewFile(f, i)
      /\ \A i \in DOMAIN comp.outputs: \E f \in NewFiles: NewFile(f, i)
  BY <1>1, <1>2, NewFilesRight
<1>5. PICK t \in 0..lastSeq: (\A s \in snapshots: t <= s) /\ LeftOut(comp, levels, t)
  BY <1>1, <1>2 DEF Ordered, CompRight
<1>6. Older(comp, levels) /\ Clear(comp, levels) /\ Apart(comp.outputs)
  BY <1>1, <1>2 DEF Ordered, CompRight, KeysWhole
<1>7. \A f \in NewFiles: f.entries \subseteq Ins(comp) /\ f.smallest \in f.entries /\ f.largest \in f.entries
  BY <1>3, <1>4 DEF NewFile
<1>8. ASSUME NEW f \in NewFiles, NEW x \in f.entries
      PROVE  \E h \in comp.in0 \cup comp.in1: x \in h.entries
  BY <1>1, <1>2, <1>7, InputFile
<1>9. KeysDisjoint'
  <2>1. ASSUME NEW f \in NewFiles, NEW g \in NewFiles, f # g PROVE Left(f, g) \/ Left(g, f)
    <3>1. PICK i \in DOMAIN comp.outputs: f = File(nextFile + i - 1, comp.outputs[i])
      BY DEF NewFiles
    <3>2. PICK j \in DOMAIN comp.outputs: g = File(nextFile + j - 1, comp.outputs[j])
      BY DEF NewFiles
    <3>3. f.entries = comp.outputs[i] /\ g.entries = comp.outputs[j]
      BY <3>1, <3>2 DEF File
    <3>4. i < j \/ j < i
      BY <1>3, <2>1, <3>1, <3>2
    <3>5. \/ \A e \in f.entries, x \in g.entries: e[1] < x[1]
          \/ \A e \in f.entries, x \in g.entries: x[1] < e[1]
      BY <1>6, <3>3, <3>4 DEF Apart
    <3> QED BY <1>7, <3>5 DEF Left
  <2>2. ASSUME NEW f \in NewFiles, NEW g \in levels[comp.level + 1], g \notin comp.in0 \cup comp.in1
        PROVE  Left(f, g) \/ Left(g, f)
    <3>1. ~Meets(g, comp.in0 \cup comp.in1)
      BY <1>6, <2>2 DEF Clear
    <3>2. PICK h \in comp.in0 \cup comp.in1: f.smallest \in h.entries
      BY <1>7, <1>8
    <3>3. PICK j \in comp.in0 \cup comp.in1: f.largest \in j.entries
      BY <1>7, <1>8
    <3>4. /\ h.smallest[1] <= f.smallest[1] /\ f.largest[1] <= j.largest[1]
          /\ f.smallest \in Entry /\ f.largest \in Entry
      BY <1>1, <1>3, <3>2, <3>3, LevelFile
    <3>5. /\ h.smallest[1] \in Nat /\ j.largest[1] \in Nat /\ g.smallest[1] \in Nat /\ g.largest[1] \in Nat
          /\ f.smallest[1] \in Nat /\ f.largest[1] \in Nat
      <4>1. \A a \in levels[comp.level] \cup levels[comp.level + 1]: a.smallest[1] \in Nat /\ a.largest[1] \in Nat
        BY <1>1, <1>3, LevelFiles, FileKeys
      <4> QED BY <1>3, <3>4, <4>1, EntryParts
    <3>6. ~(g.smallest[1] <= j.largest[1]) \/ ~(h.smallest[1] <= g.largest[1])
      BY <3>1 DEF Meets
    <3> QED BY <3>4, <3>5, <3>6 DEF Left
  <2>3. ASSUME NEW l \in Levels \ {0}, NEW g \in levels'[l], NEW h \in levels'[l], g # h
        PROVE  Left(g, h) \/ Left(h, g)
    <3>1. CASE g \in NewFiles /\ h \in NewFiles
      BY <2>1, <2>3, <3>1
    <3>2. CASE g \in NewFiles /\ l = comp.level + 1 /\ h \in levels[l] /\ h \notin comp.in0 \cup comp.in1
      BY <2>2, <3>2
    <3>3. CASE h \in NewFiles /\ l = comp.level + 1 /\ g \in levels[l] /\ g \notin comp.in0 \cup comp.in1
      BY <2>2, <3>3
    <3>4. CASE g \in levels[l] /\ h \in levels[l]
      BY <1>1, <2>3, <3>4 DEF Ordered, KeysDisjoint
    <3> QED BY <1>2, <3>1, <3>2, <3>3, <3>4
  <2> QED BY <2>3 DEF KeysDisjoint, Left
<1>10. NewestAbove'
  <2>1. ASSUME NEW g \in levels'[0], NEW h \in levels'[0], g.number > h.number PROVE Newer(g, h)
    <3>1. 0 \in Levels /\ 0 # comp.level + 1
      BY <1>3, LevelsNat
    <3>2. g \in levels[0] /\ h \in levels[0]
      BY <1>2, <3>1
    <3> QED BY <1>1, <2>1, <3>2 DEF Ordered, NewestAbove, Newer
  <2>2. ASSUME NEW l \in Levels, NEW m \in 0..(l - 1), NEW g \in levels'[m], NEW h \in levels'[l] PROVE Newer(g, h)
    <3>1. m \in Levels /\ m < l /\ l \in Nat /\ m \in Nat
      BY LevelsAssumption DEF Levels
    <3>2. CASE g \in levels[m] /\ h \in levels[l]
      BY <1>1, <3>2 DEF Ordered, NewestAbove, Newer
    <3>3. CASE g \in NewFiles /\ m = comp.level + 1 /\ h \in levels[l]
      <4>1. comp.level \in 0..(l - 1) /\ comp.level + 1 \in 0..(l - 1)
        BY <1>3, <3>1, <3>3
      <4>2. ASSUME NEW e \in g.entries, NEW x \in h.entries, e[1] = x[1] PROVE e[2] > x[2]
        <5>1. PICK a \in comp.in0 \cup comp.in1: e \in a.entries
          BY <1>8, <3>3
        <5> QED BY <1>1, <1>3, <3>3, <4>1, <4>2, <5>1 DEF Ordered, NewestAbove
      <4> QED BY <4>2 DEF Newer
    <3>4. CASE g \in levels[m] /\ g \notin comp.in0 \cup comp.in1 /\ h \in NewFiles /\ l = comp.level + 1
      <4>1. ASSUME NEW e \in g.entries, NEW x \in h.entries, e[1] = x[1] PROVE e[2] > x[2]
        <5>1. PICK a \in comp.in0 \cup comp.in1: x \in a.entries
          BY <1>8, <3>4
        <5>2. CASE a \in comp.in1
          BY <1>1, <1>3, <3>4, <4>1, <5>1, <5>2 DEF Ordered, NewestAbove
        <5>3. CASE a \in comp.in0 /\ m = comp.level
          BY <1>6, <3>4, <4>1, <5>1, <5>3 DEF Older, Newer
        <5>4. CASE a \in comp.in0 /\ m # comp.level
          <6>1. m \in 0..(comp.level - 1)
            BY <1>3, <3>1, <3>4, <5>4
          <6> QED BY <1>1, <1>3, <3>4, <4>1, <5>1, <5>4, <6>1 DEF Ordered, NewestAbove
        <5> QED BY <5>2, <5>3, <5>4
      <4> QED BY <4>1 DEF Newer
    <3>5. ~(m = comp.level + 1 /\ l = comp.level + 1)
      BY <3>1
    <3> QED BY <1>2, <3>1, <3>2, <3>3, <3>4, <3>5
  <2> QED BY <2>1, <2>2 DEF NewestAbove, Newer
<1>11. ASSUME NEW e \in Stored'
       PROVE  \/ e \in mem \/ e \in Outs(comp)
              \/ \E m \in Levels: \E g \in levels[m]: g \notin comp.in0 \cup comp.in1 /\ e \in g.entries
  <2>1. CASE e \in mem'
    BY <1>2, <2>1
  <2>2. CASE e \notin mem'
    <3>1. PICK m \in Levels: \E g \in levels'[m]: e \in g.entries
      BY <1>11, <2>2 DEF Stored, InFiles
    <3>2. PICK g \in levels'[m]: e \in g.entries
      BY <3>1
    <3>3. CASE g \in NewFiles
      BY <1>4, <3>2, <3>3 DEF NewFile, Outs
    <3> QED BY <1>2, <3>2, <3>3
  <2> QED BY <2>1, <2>2
<1>12. Stored' \in SUBSET Stored
  <2>1. ASSUME NEW e \in Stored' PROVE e \in Stored
    BY <1>3, <1>11 DEF Stored, InFiles
  <2> QED BY <2>1
<1>13. ASSUME NEW e \in Stored PROVE e \in Stored' \/ e \in Ins(comp) \ Outs(comp)
  <2>1. CASE e \in mem
    BY <1>2, <2>1 DEF Stored
  <2>2. CASE e \notin mem
    <3>1. PICK m \in Levels: \E g \in levels[m]: e \in g.entries
      BY <1>13, <2>2 DEF Stored, InFiles
    <3>2. PICK g \in levels[m]: e \in g.entries
      BY <3>1
    <3>3. CASE g \notin comp.in0 \cup comp.in1
      <4>1. g \in levels'[m]
        BY <1>2, <3>3
      <4> QED BY <3>2, <4>1 DEF Stored, InFiles
    <3>4. CASE g \in comp.in0 \cup comp.in1
      <4>1. e \in Ins(comp)
        BY <3>2, <3>4 DEF Ins
      <4>2. CASE e \in Outs(comp)
        <5>1. PICK i \in DOMAIN comp.outputs: e \in comp.outputs[i]
          BY <4>2 DEF Outs
        <5>2. PICK f \in NewFiles: NewFile(f, i)
          BY <1>4
        <5>3. f \in levels'[comp.level + 1] /\ e \in f.entries
          BY <1>2, <5>1, <5>2 DEF NewFile
        <5> QED BY <1>3, <5>3 DEF Stored, InFiles
      <4> QED BY <4>1, <4>2
    <3> QED BY <3>3, <3>4
  <2> QED BY <2>1, <2>2
<1>14. MemNewest'
  <2>1. ASSUME NEW x \in InFiles' PROVE x \in InFiles
    <3>1. PICK m \in Levels: \E g \in levels'[m]: x \in g.entries
      BY <2>1 DEF InFiles
    <3>2. PICK g \in levels'[m]: x \in g.entries
      BY <3>1
    <3>3. CASE g \in NewFiles
      BY <1>3, <1>7, <3>2, <3>3
    <3>4. CASE g \in levels[m]
      BY <3>2, <3>4 DEF InFiles
    <3> QED BY <1>2, <3>2, <3>3, <3>4
  <2> QED BY <1>1, <1>2, <2>1 DEF Ordered, MemNewest
<1>15. CompRight'
  BY <1>2, CompForm
<1>16. ScanRight'
  <2>1. lastSeq \in Nat /\ t \in Nat /\ t <= lastSeq /\ \A s \in snapshots: s \in Nat /\ t <= s
    BY <1>1, <1>5 DEF Typed, Counters
  <2> DEFINE E == Stored'
  <2>2. E \in SUBSET Stored
    BY <1>12
  <2>3. \A e \in Stored: e \in E \/ e \in Ins(comp) \ Outs(comp)
    BY <1>13
  <2>4. \A e \in E: \/ e \in mem \/ e \in Outs(comp)
                    \/ \E m \in Levels: \E g \in levels[m]: g \notin comp.in0 \cup comp.in1 /\ e \in g.entries
    BY <1>11
  <2>5. NewestAbove /\ MemNewest
    BY <1>1 DEF Ordered
  <2> HIDE DEF E
  <2>6. \A k \in Keys: \A s \in Nat: t <= s => ScanOf(E, k, s) = ScanOf(Stored, k, s)
    BY <1>1, <1>2, <1>5, <1>6, <2>1, <2>2, <2>3, <2>4, <2>5, SameScan
  <2>7. Promises(Stored, lastSeq, contents, snapshots, held)
    BY <1>1, ScanForm DEF Ordered
  <2>8. Promises(E, lastSeq, contents, snapshots, held)
    BY <2>1, <2>6, <2>7 DEF Promises
  <2> QED BY <1>2, <2>8, ScanForm DEF E
<1> QED BY <1>9, <1>10, <1>14, <1>15, <1>16 DEF Ordered

LEMMA NextOrdered ==
  ASSUME IInv, KeysWhole, ManualAlone, [Next]_vars
  PROVE  IInv'
<1> SUFFICES Ordered'
  BY NextTyped DEF IInv
<1>1. Ordered
  BY DEF IInv
<1>2. CASE \E k \in Keys, type \in {"put", "delete"}: Write(k, type)
  BY <1>2, WriteOrdered
<1>3. CASE GetSnapshot
  BY <1>3, GetSnapshotOrdered
<1>4. CASE \E s \in snapshots: ReleaseSnapshot(s)
  BY <1>4, ReleaseSnapshotOrdered
<1>5. CASE \/ \E k \in Keys: ChargeSeek(k)
           \/ \E range \in limits.ranges: BeginManual(range)
           \/ EndManual
           \/ UNCHANGED vars
  <2>1. UNCHANGED <<mem, levels, lastSeq, snapshots, comp, contents, held, limits>>
    BY <1>5 DEF ChargeSeek, BeginManual, EndManual, vars, version, promised, bounds
  <2> QED BY <1>1, <2>1, SameOrdered
<1>6. CASE Flush
  BY <1>6, FlushOrdered
<1>7. CASE StartManual
  BY <1>7, StartManualOrdered
<1>8. CASE StartCompaction
  BY <1>8, StartCompactionOrdered
<1>9. CASE FinishCompaction
  BY <1>9, FinishOrdered
<1> QED BY <1>2, <1>3, <1>4, <1>5, <1>6, <1>7, <1>8, <1>9 DEF Next, Background

LEMMA OrderedRight ==
  ASSUME IInv
  PROVE  LevelsOrdered /\ ReadsPromised
<1>1. Typed /\ KeysDisjoint /\ NewestAbove /\ MemNewest /\ ScanRight
  BY DEF IInv, Ordered
<1>2. LevelsDisjoint
  BY <1>1 DEF KeysDisjoint, LevelsDisjoint, Left, Before
<1>3. lastSeq \in Nat /\ \A s \in snapshots: s \in Nat
  BY <1>1 DEF Typed, Counters
<1>4. ReadsPromised
  BY <1>1, <1>3, ReadsFind DEF ScanRight, ReadsPromised
<1> QED BY <1>1, <1>2, <1>4 DEF LevelsOrdered

-----------------------------------------------------------------------------
(* Without snapshots a merge keeps one entry of a key.                     *)

NoneHeld == snapshots = {} /\ KeysWhole

LEMMA WholeOutputs ==
  ASSUME Typed, snapshots = {}, NEW c, NEW level, NEW X, Starting(c, level, X)
  PROVE  Apart(Outputs(c))
<1>1. /\ c.smallestSnapshot = lastSeq /\ Mergeable(c)
      /\ c.in0 \subseteq levels[level] /\ c.in1 \subseteq levels[level + 1]
      /\ level \in Levels /\ level + 1 \in Levels
  BY DEF Starting
<1>2. Ins(c) \subseteq Entry /\ Distinct(Ins(c)) /\ \A e \in Ins(c): e[1] \in Nat /\ e[2] \in Nat /\ e[2] <= lastSeq
  <2>1. ASSUME NEW e \in Ins(c) PROVE e \in Stored
    <3>1. PICK f \in c.in0 \cup c.in1: e \in f.entries
      BY DEF Ins
    <3> QED BY <1>1, <3>1, LevelFile
  <2>2. \A e \in Stored: e[2] <= lastSeq
    BY StoredRight
  <2>3. Ins(c) \subseteq Entry /\ Distinct(Ins(c))
    BY <1>1 DEF Mergeable
  <2> QED BY <2>1, <2>2, <2>3, EntryParts
<1>3. \A e, x \in Kept(c): e[1] = x[1] => e = x
  <2>1. \A e \in Kept(c): e \in Ins(c) /\ ~Hidden(c, e, Ins(c))
    BY DEF Kept, Ins
  <2>2. ASSUME NEW e \in Kept(c), NEW x \in Kept(c), e[1] = x[1], e # x PROVE FALSE
    <3>1. e[2] # x[2]
      BY <1>2, <2>1, <2>2 DEF Distinct
    <3>2. e[2] < x[2] \/ x[2] < e[2]
      BY <1>2, <2>1, <3>1
    <3> QED BY <1>1, <1>2, <2>1, <2>2, <3>2 DEF Hidden
  <2> QED BY <2>2
<1> DEFINE outs == Outputs(c)
<1>4. Shape(outs, {}, Kept(c), Kept(c))
  BY <1>1, OutputsRight
<1> HIDE DEF outs
<1>5. ASSUME NEW i \in DOMAIN outs, NEW j \in DOMAIN outs, i < j, NEW e \in outs[i], NEW x \in outs[j]
      PROVE  e[1] < x[1]
  <2>1. Before(e, x) /\ e \in Kept(c) /\ x \in Kept(c)
    BY <1>4, <1>5 DEF Shape
  <2>2. e \in Entry /\ x \in Entry
    BY <1>2, <2>1 DEF Kept, Ins
  <2>3. e # x
    BY <2>1, <2>2, BeforeOrder
  <2>4. e[1] # x[1]
    BY <1>3, <2>1, <2>3
  <2> QED BY <2>1, <2>4 DEF Before
<1> QED BY <1>5 DEF Apart, outs

LEMMA NextWhole ==
  ASSUME Typed, NoneHeld, NoSnapshots, [Next]_vars
  PROVE  NoneHeld'
<1>1. limits.snapshots = 0
  BY DEF Typed, Counters, NoSnapshots
<1>2. snapshots' = {}
  <2>1. ~GetSnapshot
    BY <1>1, FS_EmptySet DEF NoneHeld, GetSnapshot
  <2> QED BY <2>1 DEF Next, Background, Write, ReleaseSnapshot, ChargeSeek, BeginManual, Flush, EndManual, StartManual,
                    StartCompaction, Begin, FinishCompaction, NoneHeld, vars
<1>3. CASE comp' = comp \/ comp' = None
  BY <1>2, <1>3 DEF NoneHeld, KeysWhole
<1>4. ASSUME NEW level, NEW X, Chosen(level, X), X # {}, Begin(CompactionOf(level, X))
      PROVE  NoneHeld'
  <2> DEFINE c == CompactionOf(level, X)
  <2>1. Starting(c, level, X)
    BY <1>4, CompactionRight
  <2>2. Moves(c) \/ Merges(c)
    BY <1>4, BeginForms
  <2> HIDE DEF c
  <2>3. CASE Moves(c)
    BY <1>3, <2>3 DEF Moves
  <2>4. CASE Merges(c)
    <3>1. Apart(Outputs(c))
      BY <2>1, WholeOutputs DEF NoneHeld
    <3>2. comp'.outputs = Outputs(c)
      BY <2>4 DEF Merges
    <3> QED BY <1>2, <3>1, <3>2 DEF NoneHeld, KeysWhole
  <2> QED BY <2>2, <2>3, <2>4
<1>5. CASE StartManual
  <2>1. manual # None /\ ManualInputs(manual) # {} /\ Begin(CompactionOf(manual.level, ManualInputs(manual)))
    BY <1>5 DEF StartManual
  <2>2. Chosen(manual.level, ManualInputs(manual))
    BY <2>1, ManualChosen
  <2> QED BY <1>4, <2>1, <2>2
<1>6. CASE StartCompaction
  <2>1. /\ NeedsCompaction /\ PickCompaction.inputs # {}
        /\ Begin(CompactionOf(PickCompaction.level, PickCompaction.inputs))
    BY <1>6 DEF StartCompaction
  <2>2. Chosen(PickCompaction.level, PickCompaction.inputs)
    BY <2>1, PickedRight
  <2> QED BY <1>4, <2>1, <2>2
<1>7. CASE ~StartManual /\ ~StartCompaction
  <2>1. comp' = comp \/ comp' = None
    BY <1>7 DEF Next, Background, Write, GetSnapshot, ReleaseSnapshot, ChargeSeek, BeginManual, Flush, EndManual,
                FinishCompaction, vars
  <2> QED BY <1>3, <2>1
<1> QED BY <1>5, <1>6, <1>7

-----------------------------------------------------------------------------
(* The theorems.                                                           *)

\* As long as no merge puts the entries of one user key into two files, the levels
\* stay in order and every read, a lookup or a scan, with a snapshot or without,
\* finds what was promised: the split key is the one way to lose it.
THEOREM WholeKeysSuffice ==
  ASSUME ManualAlone
  PROVE  Spec /\ []KeysWhole => [](LevelsOrdered /\ ReadsPromised)
<1>1. Init => IInv
  BY InitRight
<1>2. IInv /\ KeysWhole /\ [Next]_vars => IInv'
  BY NextOrdered
<1>3. IInv => LevelsOrdered /\ ReadsPromised
  BY OrderedRight
<1> QED BY <1>1, <1>2, <1>3, PTL DEF Spec

\* Without snapshots no merge does.
THEOREM NoSnapshotsWhole ==
  ASSUME NoSnapshots
  PROVE  Spec => []KeysWhole
<1>1. Init => Typed /\ NoneHeld
  BY InitRight DEF IInv, Init, NoneHeld, KeysWhole
<1>2. Typed /\ NoneHeld /\ [Next]_vars => Typed' /\ NoneHeld'
  BY NextTyped, NextWhole
<1>3. NoneHeld => KeysWhole
  BY DEF NoneHeld
<1> QED BY <1>1, <1>2, <1>3, PTL DEF Spec

\* A client that takes no snapshots: deeper levels are disjoint, of one key what
\* is higher up is newer, whatever is flushed, moved or merged in between.
THEOREM LevelsStayOrdered ==
  ASSUME NoSnapshots, ManualAlone
  PROVE  Spec => []LevelsOrdered
  BY WholeKeysSuffice, NoSnapshotsWhole, PTL

\* And its reads find the last value put, unless a deletion followed.
THEOREM ReadsAsPromised ==
  ASSUME NoSnapshots, ManualAlone
  PROVE  Spec => []ReadsPromised
  BY WholeKeysSuffice, NoSnapshotsWhole, PTL

=============================================================================

---------------------------- MODULE DBReadsProofs ----------------------------
(***************************************************************************)
(* Proofs about DBImpl.  First: every variable keeps its type, every file  *)
(* that is needed is in the directory, and nobody sleeps without work      *)
(* under way.  Then, of what is read: no sequence number is given twice,   *)
(* and an iterator goes on seeing what it saw at first.  Last: DBImpl      *)
(* keeps the promises of DurableStore, and a process that dies loses       *)
(* nothing it acknowledged, as long as no write to a log fails half way.   *)
(***************************************************************************)
EXTENDS DBImpl, FiniteSetTheorems, WellFoundedInduction, TLAPS

(* Numbers.  The library's induction theorems take the induction           *)
(* hypothesis as an operator; here it is a set.                            *)

LEMMA LeastNat ==
  ASSUME NEW T \in SUBSET Nat, T # {}
  PROVE  \E x \in T : \A y \in T : x <= y
<1>1. IsWellFoundedOn(OpToRel(<, Nat), Nat)
  BY NatLessThanWellFounded
<1> DEFINE R == OpToRel(<, Nat)
<1>2. \A x, y \in Nat : <<x, y>> \in R <=> x < y
  BY DEF OpToRel
<1> HIDE DEF R
<1>3. \E x \in T : \A y \in T : ~(<<y, x>> \in R)
  BY <1>1, WFMin DEF R
<1>4. PICK x \in T : \A y \in T : <<y, x>> \notin R
  BY <1>3
<1>5. \A y \in T : ~(y < x)
  BY <1>2, <1>4
<1> QED BY <1>5

LEMMA Induction ==
  ASSUME NEW S \in SUBSET Nat, 0 \in S, \A n \in S : n + 1 \in S
  PROVE  S = Nat
<1> DEFINE T == Nat \ S
<1> SUFFICES ASSUME T # {} PROVE FALSE
  OBVIOUS
<1>1. PICK x \in T : \A y \in T : x <= y
  BY LeastNat
<1>2. x - 1 \in Nat /\ x - 1 \notin T
  BY <1>1
<1> QED BY <1>1, <1>2

\* A function defined by recursion on the natural numbers exists.
LEMMA Recursion ==
  ASSUME NEW T, NEW a \in T, NEW G \in [Nat -> [T -> T]]
  PROVE  \E f \in [Nat -> T] : \A n \in Nat :
            f[n] = IF n = 0 THEN a ELSE G[n][f[n - 1]]
<1> DEFINE Upto(g, n) ==
      /\ g \in [0..n -> T]
      /\ \A k \in 0..n : g[k] = IF k = 0 THEN a ELSE G[k][g[k - 1]]
    S == {n \in Nat : \E g : Upto(g, n)}
<1>1. 0 \in S
  <2>1. Upto([k \in 0..0 |-> a], 0)
    OBVIOUS
  <2> QED BY <2>1
<1>2. ASSUME NEW n \in S PROVE n + 1 \in S
  <2>1. PICK g : Upto(g, n)
    OBVIOUS
  <2> DEFINE h == [k \in 0..(n + 1) |-> IF k = n + 1 THEN G[k][g[n]] ELSE g[k]]
  <2>2. h \in [0..(n + 1) -> T]
    BY <2>1
  <2>3. \A k \in 0..(n + 1) : h[k] = IF k = 0 THEN a ELSE G[k][h[k - 1]]
    BY <2>1
  <2>4. Upto(h, n + 1)
    BY <2>2, <2>3
  <2>5. n + 1 \in Nat /\ \E f : Upto(f, n + 1)
    <3> HIDE DEF Upto
    <3> QED BY <2>4
  <2> QED BY <2>5
<1>3. S = Nat
  <2> HIDE DEF S
  <2> QED BY <1>1, <1>2, Induction DEF S
<1>4. ASSUME NEW n \in Nat, NEW g, Upto(g, n), NEW m \in Nat, NEW h, Upto(h, m)
      PROVE  \A k \in Nat : k <= n /\ k <= m => g[k] = h[k]
  <2> DEFINE E == {i \in Nat : i <= n /\ i <= m => g[i] = h[i]}
  <2>1. 0 \in E
    BY <1>4
  <2>2. ASSUME NEW i \in E PROVE i + 1 \in E
    <3> SUFFICES ASSUME i + 1 <= n, i + 1 <= m PROVE g[i + 1] = h[i + 1]
      OBVIOUS
    <3>1. g[i] = h[i]
      OBVIOUS
    <3>2. g[i + 1] = G[i+1][g[i]] /\ h[i + 1] = G[i+1][h[i]]
      BY <1>4
    <3> QED BY <3>1, <3>2
  <2>3. E \in SUBSET Nat
    OBVIOUS
  <2>4. E = Nat
    <3> HIDE DEF E
    <3> QED BY <2>1, <2>2, <2>3, Induction
  <2> QED BY <2>4
<1> DEFINE Best == [n \in Nat |-> CHOOSE g : Upto(g, n)]
           f == [n \in Nat |-> Best[n][n]]
<1>5. \A n \in Nat : Upto(Best[n], n)
  <2> HIDE DEF Upto
  <2> QED BY <1>3
<1> HIDE DEF Best, S
<1>6. \A n \in Nat : Best[n] \in [0..n -> T] /\ Best[n][n] \in T
  BY <1>5
<1>7. ASSUME NEW n \in Nat PROVE f[n] = IF n = 0 THEN a ELSE G[n][f[n - 1]]
  <2>1. CASE n = 0
    BY <1>5, <2>1
  <2>2. CASE n # 0
    <3>1. n - 1 \in Nat /\ n - 1 <= n /\ n - 1 <= n - 1
      BY <2>2
    <3>2. Upto(Best[n], n) /\ Upto(Best[n - 1], n - 1)
      BY <1>5, <3>1
    <3> DEFINE g == Best[n]
               h == Best[n - 1]
               m == n - 1
    <3>3. \A k \in Nat : k <= n /\ k <= m => g[k] = h[k]
      <4>1. Upto(g, n) /\ m \in Nat /\ Upto(h, m)
        BY <3>1, <3>2
      <4> HIDE DEF Upto, g, h, m
      <4> QED BY <4>1, <1>4
    <3>4. Best[n][n - 1] = Best[n - 1][n - 1]
      BY <3>1, <3>3
    <3>5. Best[n][n] = G[n][Best[n][n - 1]]
      BY <3>2, <2>2
    <3> QED BY <3>1, <3>4, <3>5, <2>2
  <2> QED BY <2>1, <2>2
<1>8. f \in [Nat -> T]
  BY <1>6
<1> HIDE DEF f
<1> QED BY <1>7, <1>8

\* A finite, non-empty set of numbers has a greatest element.
LEMMA MaxFinite ==
  ASSUME NEW S \in SUBSET Nat, S # {}, IsFiniteSet(S)
  PROVE  Max(S) \in S /\ \A y \in S : y <= Max(S)
<1>1. PICK n \in Nat : \E f : f \in Bijection(1..n, S)
  BY FS_CardinalityType DEF ExistsBijection
<1>2. PICK f : f \in [1..n -> S] /\ \A y \in S : \E i \in 1..n : f[i] = y
  BY <1>1 DEF Bijection, Surjection
<1>3. (\A y \in S : y \in Nat) /\ (\A i \in 1..n : f[i] \in Nat)
  BY <1>2
<1> DEFINE B == {k \in Nat : k <= n => \E b \in Nat : \A i \in 1..k : f[i] <= b}
<1>4. B \in SUBSET Nat /\ 0 \in B
  OBVIOUS
<1>5. ASSUME NEW k \in B PROVE k + 1 \in B
  <2> SUFFICES ASSUME k + 1 <= n PROVE \E b \in Nat : \A i \in 1..(k + 1) : f[i] <= b
    OBVIOUS
  <2>1. PICK b \in Nat : \A i \in 1..k : f[i] <= b
    OBVIOUS
  <2>2. k \in Nat /\ k + 1 \in 1..n /\ f[k + 1] \in Nat
    BY <1>3
  <2>3. \A i \in 1..(k + 1) : i \in 1..k \/ i = k + 1
    BY <2>2
  <2>4. b + f[k + 1] \in Nat /\ \A i \in 1..(k + 1) : f[i] <= b + f[k + 1]
    BY <1>3, <2>1, <2>2, <2>3
  <2> QED BY <2>4
<1>6. n \in B
  <2> HIDE DEF B
  <2>1. B = Nat
    BY <1>4, <1>5, Induction
  <2> QED BY <2>1
<1>7. PICK b \in Nat : \A i \in 1..n : f[i] <= b
  BY <1>6
<1>8. \A y \in S : y <= b /\ b - y \in Nat
  BY <1>2, <1>3, <1>7
<1> DEFINE T == {b - y : y \in S}
<1>9. PICK t \in T : \A u \in T : t <= u
  <2>1. T \in SUBSET Nat /\ T # {}
    BY <1>8
  <2> QED BY <2>1, LeastNat
<1>10. PICK x \in S : t = b - x
  OBVIOUS
<1>11. \A y \in S : b - x <= b - y
  BY <1>9, <1>10
<1>12. \A y \in S : x >= y
  BY <1>3, <1>8, <1>11
<1> QED BY <1>3, <1>12 DEF Max

LEMMA MaxOfTwo ==
  ASSUME NEW a \in Nat, NEW b \in Nat
  PROVE  Max({a, b}) \in Nat /\ a <= Max({a, b}) /\ b <= Max({a, b})
<1>1. IsFiniteSet({a, b})
  <2>1. \A y \in {a, b} : y <= a + b
    OBVIOUS
  <2> QED BY <2>1, FS_BoundedSetOfNaturals
<1> QED BY <1>1, MaxFinite

\* What a function yields for the members of a finite set.
LEMMA ImageFinite ==
  ASSUME NEW f, NEW S \in SUBSET DOMAIN f, IsFiniteSet(S)
  PROVE  IsFiniteSet({f[x] : x \in S})
<1> DEFINE T == {f[x] : x \in S}
           g == [x \in S |-> f[x]]
<1>1. g \in Surjection(S, T)
  BY DEF Surjection
<1> HIDE DEF g, T
<1> QED BY <1>1, FS_Surjection DEF T

(* Files.                                                                  *)

LEMMA PutEffect ==
  ASSUME NEW f, NEW n, NEW x
  PROVE  /\ DOMAIN Put(f, n, x) = DOMAIN f \cup {n}
         /\ Put(f, n, x)[n] = x
         /\ \A k \in DOMAIN f : k # n => Put(f, n, x)[k] = f[k]
BY DEF Put

LEMMA OverEffect ==
  ASSUME NEW f, NEW g
  PROVE  /\ DOMAIN Over(f, g) = DOMAIN f \cup DOMAIN g
         /\ \A k \in DOMAIN f : Over(f, g)[k] = f[k]
         /\ \A k \in DOMAIN g \ DOMAIN f : Over(f, g)[k] = g[k]
BY DEF Over

LEMMA RestrictEffect ==
  ASSUME NEW f, NEW S
  PROVE  /\ DOMAIN Restrict(f, S) = S
         /\ \A k \in S : Restrict(f, S)[k] = f[k]
BY DEF Restrict

(* The invariant.                                                          *)

Candidates == {manifest[i] : i \in DOMAIN manifest}
Installing == flush # None /\ flush.installing
Moving == comp # None /\ comp.state = "installing"

\* The files of the candidates and of the open iterators.
Named == (UNION {Files(m) : m \in Candidates}) \cup (UNION {v.files : v \in Viewed})

CallsOK ==
  /\ kind \in [Calls -> Kinds]
  /\ st \in [Calls -> CallStates]
  /\ delayed \subseteq Calls
  /\ mst \in [Manuals -> ManualStates]
  /\ mdone \subseteq Manuals
  /\ manual \in Manuals \cup {None}

\* The queue holds the calls that have not returned, each once; while a group
\* is written its leader stays in front.
QueueOK ==
  /\ writers \in Seq(Calls)
  /\ \A i, j \in DOMAIN writers : writers[i] = writers[j] => i = j
  /\ \A c \in Calls :
       st[c] \in {"queued", "waiting", "writing"} <=> \E i \in DOMAIN writers : writers[i] = c
  /\ \A c \in Calls : st[c] \in {"flushcheck", "flushwait"} => kind[c] = "flush"
  /\ group # None =>
       /\ group \in Groups
       /\ group.size \in 1..Len(writers)
       /\ st[Head(writers)] = "writing"
       /\ IsFiniteSet(group.entries)

NumbersOK ==
  /\ lastSeq \in Nat /\ nextFile \in Nat /\ logNumber \in Nat
  /\ mem \in Nat /\ imm \in Nat \cup {None}
  /\ up \in {"open", "closing", "down"}
  /\ bgError \in BOOLEAN /\ scheduled \in BOOLEAN
  /\ kills \in Nat /\ cuts \in Nat /\ limits \in Scenarios
  /\ version \in Versions /\ IsFiniteSet(version.l0)
  /\ pending \subseteq Nat

LogsOK ==
  /\ DOMAIN logs \subseteq Nat /\ IsFiniteSet(DOMAIN logs)
  /\ \A n \in DOMAIN logs :
       /\ logs[n] \in [recs: Seq(Records), synced: Nat]
       /\ logs[n].synced <= Len(logs[n].recs)
       /\ \A i \in DOMAIN logs[n].recs : IsFiniteSet(logs[n].recs[i].entries)

TablesOK ==
  /\ DOMAIN tables \subseteq Nat
  /\ \A n \in DOMAIN tables : tables[n] \subseteq Entries

ManifestOK ==
  /\ manifest \in Seq(Manifests) /\ manifest # <<>>
  /\ \A m \in Candidates :
       /\ IsFiniteSet(m.l0)
       /\ Files(m) \subseteq DOMAIN tables
       /\ \A n \in Files(m) : n < m.next

\* The memtables and the logs that cover them.
MemoryOK ==
  up # "down" =>
    /\ DOMAIN mems = HeldMems
    /\ \A n \in DOMAIN mems : mems[n] \subseteq Entries
    /\ logNumber = IF imm = None THEN mem ELSE imm
    /\ imm # None => imm < mem
    /\ mem \in DOMAIN logs /\ (imm # None => imm \in DOMAIN logs)
    /\ \A l \in DOMAIN logs : l >= logNumber => l \in {mem, imm}
    /\ \A n \in DOMAIN tables \cup DOMAIN logs \cup DOMAIN mems : n < nextFile
    /\ Files(version) \subseteq DOMAIN tables
    /\ \A m \in Candidates : m.next <= nextFile /\ m.log \in {logNumber, mem}

ViewsOK ==
  /\ view = [r \in Readers |-> view[r]]
  /\ \A r \in Readers : view[r] # None =>
       view[r] \in Views /\ view[r].files \subseteq DOMAIN tables

\* The table a flush builds is its own; once built it is in the edit.
FlushOK ==
  flush # None =>
    /\ flush \in Flushes
    /\ imm # None
    /\ flush.out < nextFile
    /\ comp # None => flush.out # comp.out /\ comp.state # "installing"
    /\ ~flush.installing =>
         /\ flush.out \in DOMAIN tables /\ flush.out \in pending
         /\ flush.out \notin Files(version) \cup Named
         /\ comp # None => flush.out \notin comp.base \cup comp.outs
    /\ flush.installing =>
         /\ flush.log = mem
         /\ flush.edit \in Edits /\ flush.edit.del = {}
         /\ flush.edit.l0 \cup flush.edit.deep \subseteq {flush.out} \cap DOMAIN tables
         /\ Len(manifest) >= 2 /\ Last(manifest).log = mem

\* So is the table a compaction writes; its inputs stay in the version.
CompOK ==
  comp # None =>
    /\ comp \in Compactions
    /\ comp.inputs \subseteq comp.base /\ comp.inputs \subseteq Files(version)
    /\ comp.base \cup comp.outs \subseteq DOMAIN tables
    /\ comp.outs \subseteq pending
    /\ comp.state = "writing" <=> comp.out # None
    /\ comp.moves => comp.state = "installing"
    /\ comp.out # None =>
         /\ comp.out \in DOMAIN tables /\ comp.out \in pending
         /\ comp.out \notin Files(version) \cup Named \cup comp.base \cup comp.outs
    /\ comp.state = "installing" =>
         /\ comp.edit \in Edits /\ comp.edit.l0 = {} /\ comp.edit.del = comp.inputs
         /\ comp.edit.deep = IF comp.moves THEN comp.inputs ELSE comp.outs
         /\ Len(manifest) >= 2

\* Without an error the manifest says what the version does, and at most one
\* edit more.
Agrees(m, v, log) == m.l0 = v.l0 /\ m.deep = v.deep /\ m.log = log
EditsOK ==
  up # "down" /\ ~bgError =>
    /\ Agrees(manifest[1], version, logNumber)
    /\ Installing => Len(manifest) = 2 /\ Agrees(manifest[2], Apply(flush.edit, version), mem)
    /\ Moving => Len(manifest) = 2 /\ Agrees(manifest[2], Apply(comp.edit, version), logNumber)
    /\ ~Installing /\ ~Moving => Len(manifest) = 1

DownOK == up = "down" => Down /\ Len(manifest) = 1

\* While the database closes, and after, nobody is inside a call.
RestOK ==
  up # "open" =>
    /\ \A c \in Calls : st[c] \in {"idle", "ok", "error", "lost"}
    /\ \A m \in Manuals : mst[m] \in {"idle", "done"}

FilesOK == /\ LogsOK /\ TablesOK /\ ManifestOK /\ MemoryOK /\ ViewsOK
           /\ FlushOK /\ CompOK /\ EditsOK /\ DownOK

FileInv == CallsOK /\ QueueOK /\ RestOK /\ NumbersOK /\ FilesOK

(* The queue of writers.                                                   *)

Waiting == {"queued", "waiting", "writing"}

LEMMA WokenTypes ==
  ASSUME CallsOK
  PROVE  /\ WokenCalls(st) \in [Calls -> CallStates]
         /\ WokenManuals(mst) \in [Manuals -> ManualStates]
         /\ \A c \in Calls : WokenCalls(st)[c] \in Waiting <=> st[c] \in Waiting
         /\ \A c \in Calls : WokenCalls(st)[c] \in {"flushcheck", "flushwait"}
                               => st[c] \in {"flushcheck", "flushwait"}
         /\ \A c \in Calls : st[c] = "writing" => WokenCalls(st)[c] = "writing"
         /\ \A c \in Calls : WokenCalls(st)[c] \notin {"waiting", "flushwait"}
         /\ \A m \in Manuals : WokenManuals(mst)[m] # "waiting"
BY DEF CallsOK, WokenCalls, WokenManuals, CallStates, ManualStates, Waiting

\* The first n calls return.
LEMMA ReturnEffect ==
  ASSUME CallsOK, QueueOK, NEW n \in 1..Len(writers), NEW ok \in BOOLEAN,
         NEW s, s = st \/ s = WokenCalls(st), Return(n, ok, s), group' = None, kind' = kind
  PROVE  QueueOK' /\ st' \in [Calls -> CallStates]
<1> USE DEF QueueOK
<1>1. /\ s \in [Calls -> CallStates]
      /\ \A c \in Calls : s[c] \in Waiting <=> st[c] \in Waiting
      /\ \A c \in Calls : s[c] \in {"flushcheck", "flushwait"} => kind[c] = "flush"
  BY WokenTypes DEF CallsOK
<1> DEFINE gone(c) == \E i \in 1..n : writers[i] = c
<1>2. \A c \in Calls : st'[c] = IF ~gone(c) THEN s[c]
                                ELSE IF ~ok THEN "error"
                                ELSE IF kind[c] = "flush" THEN "flushcheck" ELSE "ok"
  BY DEF Return
<1>3. st' \in [Calls -> CallStates]
  <2>1. \A c \in Calls : st'[c] \in CallStates
    BY <1>1, <1>2 DEF CallStates
  <2> QED BY <2>1 DEF Return
<1>4. /\ writers' \in Seq(Calls)
      /\ Len(writers) \in Nat /\ DOMAIN writers = 1..Len(writers)
      /\ DOMAIN writers' = 1..(Len(writers) - n)
      /\ \A i \in 1..(Len(writers) - n) : writers'[i] = writers[i + n]
  BY DEF Return
<1>5. ASSUME NEW i \in DOMAIN writers', NEW j \in DOMAIN writers', writers'[i] = writers'[j]
      PROVE  i = j
  <2>1. i + n \in DOMAIN writers /\ j + n \in DOMAIN writers
    BY <1>4
  <2>2. writers[i + n] = writers[j + n]
    BY <1>4, <1>5
  <2>3. i + n = j + n
    BY <2>1, <2>2
  <2> QED BY <1>4, <2>3
<1>6. ASSUME NEW c \in Calls
      PROVE  st'[c] \in Waiting <=> \E i \in DOMAIN writers' : writers'[i] = c
  <2>1. CASE gone(c)
    <3>1. st'[c] \notin Waiting
      BY <1>2, <2>1 DEF Waiting
    <3>2. ASSUME NEW j \in DOMAIN writers', writers'[j] = c PROVE FALSE
      <4>1. PICK i \in 1..n : writers[i] = c
        BY <2>1
      <4>2. j + n \in DOMAIN writers /\ i \in DOMAIN writers /\ writers[j + n] = c
        BY <1>4, <3>2
      <4>3. j + n = i
        BY <4>1, <4>2
      <4> QED BY <1>4, <4>3
    <3> QED BY <3>1, <3>2
  <2>2. CASE ~gone(c)
    <3>1. st'[c] \in Waiting <=> \E i \in DOMAIN writers : writers[i] = c
      BY <1>1, <1>2, <2>2 DEF Waiting
    <3>2. ASSUME NEW i \in DOMAIN writers, writers[i] = c PROVE \E j \in DOMAIN writers' : writers'[j] = c
      <4>1. i \in 1..Len(writers) /\ i \notin 1..n
        BY <1>4, <2>2, <3>2
      <4>2. i - n \in DOMAIN writers' /\ (i - n) + n = i
        BY <1>4, <4>1
      <4>3. writers'[i - n] = writers[i]
        BY <1>4, <4>2
      <4> QED BY <3>2, <4>2, <4>3
    <3>3. ASSUME NEW j \in DOMAIN writers', writers'[j] = c PROVE \E i \in DOMAIN writers : writers[i] = c
      <4>1. j + n \in DOMAIN writers /\ writers[j + n] = c
        BY <1>4, <3>3
      <4> QED BY <4>1
    <3> QED BY <3>1, <3>2, <3>3
  <2> QED BY <2>1, <2>2
<1>7. \A c \in Calls : st'[c] \in {"flushcheck", "flushwait"} => kind[c] = "flush"
  BY <1>1, <1>2
<1> QED BY <1>3, <1>4, <1>5, <1>6, <1>7 DEF Waiting

LEMMA GroupSizeInQueue ==
  ASSUME QueueOK, writers # <<>>
  PROVE  /\ GroupSize \in 1..Len(writers)
         /\ \A i \in 2..GroupSize : Joins(i)
<1> DEFINE S == {n \in 1..Len(writers) : \A i \in 2..n : Joins(i)}
<1>1. S \in SUBSET Nat /\ 1 \in S /\ IsFiniteSet(S)
  <2>1. Len(writers) \in Nat \ {0}
    BY DEF QueueOK
  <2>2. \A n \in S : n <= Len(writers)
    OBVIOUS
  <2>3. S \in SUBSET Nat
    BY <2>1
  <2>4. 1 \in S
    BY <2>1
  <2> HIDE DEF S
  <2> QED BY <2>1, <2>2, <2>3, <2>4, FS_BoundedSetOfNaturals
<1>2. Max(S) \in S
  <2> HIDE DEF S
  <2> QED BY <1>1, MaxFinite
<1> QED BY <1>2 DEF GroupSize

LEMMA NumberedEffect ==
  ASSUME QueueOK, lastSeq \in Nat, NEW n \in 1..Len(writers)
  PROVE  Numbered(n) \subseteq Entries /\ IsFiniteSet(Numbered(n))
<1> DEFINE data == {i \in 1..n : kind[writers[i]] # "flush"}
           number == [i \in data |-> <<writers[i], lastSeq + Cardinality({j \in data : j <= i})>>]
<1>1. Len(writers) \in Nat /\ \A i \in 1..n : writers[i] \in Calls
  BY DEF QueueOK
<1>2. n \in Nat
  BY <1>1
<1>3. IsFiniteSet(data)
  <2>1. data \subseteq 1..n /\ IsFiniteSet(1..n)
    BY <1>2, FS_Interval
  <2> HIDE DEF data
  <2> QED BY <2>1, FS_Subset
<1>4. \A i \in data : Cardinality({j \in data : j <= i}) \in Nat
  <2> SUFFICES ASSUME NEW i \in data PROVE Cardinality({j \in data : j <= i}) \in Nat
    OBVIOUS
  <2> DEFINE T == {j \in data : j <= i}
  <2>1. T \in SUBSET data
    OBVIOUS
  <2> HIDE DEF data, T
  <2>2. IsFiniteSet(T)
    BY <1>3, <2>1, FS_Subset
  <2>3. Cardinality(T) \in Nat
    BY <2>2, FS_CardinalityType
  <2> QED BY <2>3 DEF T
<1>5. \A i \in data : number[i] \in Entries
  BY <1>1, <1>4 DEF Entries
<1>6. Numbered(n) = {number[i] : i \in data}
  BY DEF Numbered
<1>7. IsFiniteSet({number[i] : i \in data})
  <2>1. DOMAIN number = data
    OBVIOUS
  <2> HIDE DEF number, data
  <2> QED BY <1>3, <2>1, ImageFinite
<1> HIDE DEF number, data
<1> QED BY <1>5, <1>6, <1>7

LEMMA BuildGroupEffect ==
  ASSUME CallsOK, QueueOK, lastSeq \in Nat, NEW c \in Calls, Leads(c), BuildBatchGroup, kind' = kind
  PROVE  QueueOK' /\ st' \in [Calls -> CallStates]
<1>1. writers # <<>> /\ c = Head(writers) /\ st[c] = "queued"
  BY DEF Leads
<1>2. GroupSize \in 1..Len(writers) /\ Len(writers) \in Nat
  BY <1>1, GroupSizeInQueue DEF QueueOK
<1>3. Numbered(GroupSize) \subseteq Entries /\ IsFiniteSet(Numbered(GroupSize))
  BY <1>2, NumberedEffect
<1>4. group' = [phase |-> "append", size |-> GroupSize, entries |-> Numbered(GroupSize), status |-> "ok"]
  BY DEF BuildBatchGroup
<1>5. group' \in Groups /\ group'.size = GroupSize /\ group'.entries = Numbered(GroupSize)
  BY <1>2, <1>3, <1>4 DEF Groups
<1>6. st' = [st EXCEPT ![c] = "writing"] /\ writers' = writers
  BY <1>1 DEF BuildBatchGroup
<1>7. st' \in [Calls -> CallStates] /\ st'[c] = "writing"
  BY <1>6 DEF CallsOK, CallStates
<1>8. \A d \in Calls :
        /\ st'[d] \in Waiting <=> st[d] \in Waiting
        /\ st'[d] \in {"flushcheck", "flushwait"} => st[d] \in {"flushcheck", "flushwait"}
  BY <1>1, <1>6 DEF CallsOK, Waiting
<1> QED BY <1>1, <1>2, <1>3, <1>5, <1>6, <1>7, <1>8 DEF QueueOK, Waiting

LEMMA QueueKept ==
  ASSUME CallsOK, QueueOK, UNCHANGED <<kind, writers, group>>, st' = st \/ st' = WokenCalls(st)
  PROVE  QueueOK' /\ kind' \in [Calls -> Kinds] /\ st' \in [Calls -> CallStates]
<1>1. /\ st' \in [Calls -> CallStates]
      /\ \A c \in Calls : st'[c] \in Waiting <=> st[c] \in Waiting
      /\ \A c \in Calls : st'[c] \in {"flushcheck", "flushwait"} => st[c] \in {"flushcheck", "flushwait"}
      /\ \A c \in Calls : st[c] = "writing" => st'[c] = "writing"
  BY WokenTypes DEF CallsOK
<1>2. writers # <<>> => Head(writers) \in Calls
  BY DEF QueueOK
<1>3. group # None => writers # <<>>
  BY DEF QueueOK
<1> QED BY <1>1, <1>2, <1>3 DEF QueueOK, CallsOK, Waiting

\* While a group is written nobody else leads.
LEMMA LeaderAlone ==
  ASSUME QueueOK, NEW c \in Calls, Leads(c)
  PROVE  group = None /\ 1 \in 1..Len(writers) /\ writers[1] = c /\ Len(writers) \in Nat
BY DEF QueueOK, Leads

LEMMA CallStepQueue ==
  ASSUME CallsOK, QueueOK, lastSeq \in Nat, NEW c \in Calls, CallStep(c)
  PROVE  CallsOK' /\ QueueOK'
<1>1. CASE Refuse(c) \/ SwitchFails(c)
  <2>1. Return(1, FALSE, st) /\ UNCHANGED <<kind, delayed, mst, mdone, group, manual>> /\ Leads(c)
    BY <1>1 DEF Refuse, SwitchFails, background
  <2>2. QueueOK' /\ st' \in [Calls -> CallStates]
    BY <2>1, LeaderAlone, ReturnEffect
  <2> QED BY <2>1, <2>2 DEF CallsOK
<1>2. CASE SlowDown(c)
  BY <1>2, QueueKept DEF SlowDown, CallsOK, background
<1>3. CASE WaitForRoom(c)
  <2>1. /\ st' = [st EXCEPT ![c] = "waiting"] /\ Leads(c)
        /\ UNCHANGED <<kind, delayed, mst, mdone, writers, group, manual>>
    BY <1>3 DEF WaitForRoom, background
  <2>2. /\ st' \in [Calls -> CallStates]
        /\ \A d \in Calls : st'[d] \in Waiting <=> st[d] \in Waiting
        /\ \A d \in Calls : st'[d] \in {"flushcheck", "flushwait"} => st[d] \in {"flushcheck", "flushwait"}
    BY <2>1 DEF CallsOK, CallStates, Leads, Waiting
  <2> QED BY <2>1, <2>2, LeaderAlone DEF CallsOK, QueueOK, Waiting
<1>4. CASE WriteToMem(c)
  <2>1. BuildBatchGroup /\ Leads(c) /\ UNCHANGED <<kind, delayed, mst, mdone, manual>>
    BY <1>4 DEF WriteToMem, background
  <2> QED BY <2>1, BuildGroupEffect DEF CallsOK
<1>5. CASE SwitchMemTable(c)
  <2>1. Leads(c) /\ UNCHANGED <<kind, delayed, mst, mdone, manual>>
    BY <1>5 DEF SwitchMemTable
  <2>2. CASE kind[c] = "flush"
    <3>1. Return(1, TRUE, st) /\ group' = group
      BY <1>5, <2>2 DEF SwitchMemTable
    <3>2. QueueOK' /\ st' \in [Calls -> CallStates]
      BY <2>1, <3>1, LeaderAlone, ReturnEffect
    <3> QED BY <2>1, <3>2 DEF CallsOK
  <2>3. CASE kind[c] # "flush"
    <3>1. BuildBatchGroup
      BY <1>5, <2>3 DEF SwitchMemTable
    <3> QED BY <2>1, <3>1, BuildGroupEffect DEF CallsOK
  <2> QED BY <2>2, <2>3
<1>6. CASE AwaitFlush(c)
  <2>1. /\ st[c] = "flushcheck"
        /\ UNCHANGED <<kind, delayed, mst, mdone, writers, group, manual>>
        /\ \E x \in {"ok", "error", "flushwait"} : st' = [st EXCEPT ![c] = x]
    BY <1>6 DEF AwaitFlush, background
  <2>2. /\ st' \in [Calls -> CallStates]
        /\ \A d \in Calls : st'[d] \in Waiting <=> st[d] \in Waiting
        /\ \A d \in Calls : st'[d] \in {"flushcheck", "flushwait"} => st[d] \in {"flushcheck", "flushwait"}
        /\ \A d \in Calls : st[d] = "writing" => st'[d] = "writing"
    BY <2>1 DEF CallsOK, CallStates, Waiting
  <2>3. group # None => Head(writers) \in Calls
    BY DEF QueueOK
  <2> QED BY <2>1, <2>2, <2>3 DEF CallsOK, QueueOK, Waiting
<1> QED BY <1>1, <1>2, <1>3, <1>4, <1>5, <1>6 DEF CallStep

LEMMA GroupKept ==
  ASSUME CallsOK, QueueOK, UNCHANGED <<clients, writers, manual>>, group # None,
         group' \in Groups, group'.size = group.size, group'.entries = group.entries
  PROVE  CallsOK' /\ QueueOK'
<1> QED BY DEF CallsOK, QueueOK, clients

LEMMA LogGroupQueue ==
  ASSUME CallsOK, QueueOK, LogGroup
  PROVE  CallsOK' /\ QueueOK'
<1>1. group # None /\ group \in Groups /\ group.size \in 1..Len(writers)
  BY DEF LogGroup, AddRecord, AddRecordFails, SyncLog, SyncFails, InsertInto, FinishWrite,
         Phase, PhaseFails, QueueOK
<1>2. CASE FinishWrite
  <2>1. /\ group' = None /\ UNCHANGED <<kind, delayed, mdone, manual>>
        /\ mst' = mst \/ mst' = WokenManuals(mst)
        /\ \/ Return(group.size, FALSE, WokenCalls(st))
           \/ Return(group.size, group.status = "ok", st)
    BY <1>2 DEF FinishWrite
  <2>2. QueueOK' /\ st' \in [Calls -> CallStates]
    BY <1>1, <2>1, ReturnEffect
  <2> QED BY <2>1, <2>2, WokenTypes DEF CallsOK
<1>3. CASE ~FinishWrite
  <2>1. CASE \E from, to \in {"append", "sync", "insert", "finish"} : Phase(from, to)
    <3>1. UNCHANGED <<clients, writers, manual>>
      BY <2>1 DEF Phase, background
    <3>2. PICK to \in {"append", "sync", "insert", "finish"} : group' = [group EXCEPT !.phase = to]
      BY <2>1 DEF Phase
    <3>3. group' \in Groups /\ group'.size = group.size /\ group'.entries = group.entries
      BY <1>1, <3>2 DEF Groups
    <3> QED BY <1>1, <3>1, <3>3, GroupKept
  <2>2. CASE \E from \in {"append", "sync"}, x \in {"error", "syncerror"} : PhaseFails(from, x)
    <3>1. UNCHANGED <<clients, writers, manual>>
      BY <2>2 DEF PhaseFails, background
    <3>2. PICK x \in {"error", "syncerror"} : group' = [group EXCEPT !.phase = "finish", !.status = x]
      BY <2>2 DEF PhaseFails
    <3>3. group' \in Groups /\ group'.size = group.size /\ group'.entries = group.entries
      BY <1>1, <3>2 DEF Groups
    <3> QED BY <1>1, <3>1, <3>3, GroupKept
  <2> QED BY <1>3, <2>1, <2>2 DEF LogGroup, AddRecord, AddRecordFails, SyncLog, SyncFails, InsertInto
<1> QED BY <1>2, <1>3

LEMMA StopQueue ==
  ASSUME CallsOK, NEW l, NEW m, Stop(l, m)
  PROVE  CallsOK' /\ QueueOK'
<1>1. /\ kind' = kind /\ writers' = <<>> /\ group' = None /\ manual' = None
      /\ delayed' = {} /\ mdone' = {}
      /\ st' \in [Calls -> {"idle", "ok", "error", "lost"}]
      /\ mst' \in [Manuals -> {"idle", "done"}]
  BY DEF Stop, CallsOK, CallStates
<1>2. CallsOK'
  BY <1>1 DEF CallsOK, CallStates, ManualStates
<1>3. QueueOK'
  BY <1>1 DEF QueueOK
<1> QED BY <1>2, <1>3

LEMMA StoppedBy ==
  ASSUME EndClose \/ Kill \/ NullManual \/ PowerCut
  PROVE  \E l, m : Stop(l, m)
BY DEF EndClose, Kill, NullManual, PowerCut

LEMMA BackgroundQueue ==
  ASSUME CallsOK, QueueOK, BackgroundWork
  PROVE  CallsOK' /\ QueueOK'
<1> DEFINE Quiet == UNCHANGED <<kind, st, delayed, mst, mdone, writers, group, manual>>
           Woken == /\ UNCHANGED <<kind, delayed, writers, group>>
                    /\ st' = WokenCalls(st) /\ mst' = WokenManuals(mst)
                    /\ mdone' \subseteq Manuals /\ manual' \in Manuals \cup {None}
<1>1. ASSUME Quiet PROVE CallsOK' /\ QueueOK'
  BY <1>1, QueueKept DEF CallsOK
<1>2. ASSUME Woken PROVE CallsOK' /\ QueueOK'
  BY <1>2, QueueKept, WokenTypes DEF CallsOK
<1>3. mdone \subseteq Manuals /\ manual \in Manuals \cup {None}
  BY DEF CallsOK
<1>4. CASE StartFlush
  BY <1>1, <1>4 DEF StartFlush, clients
<1>5. CASE LogFlush(0) \/ LogFlush(1)
  BY <1>1, <1>5 DEF LogFlush, clients
<1>6. CASE \E inputs \in Inputs : StartCompaction(inputs)
  BY <1>1, <1>6 DEF StartCompaction, clients
<1>7. CASE OpenCompactionOutputFile
  BY <1>1, <1>7 DEF OpenCompactionOutputFile, clients
<1>8. CASE \E part \in SUBSET (IF comp = None THEN {} ELSE comp.left) : FinishCompactionOutputFile(part)
  BY <1>1, <1>8 DEF FinishCompactionOutputFile, clients
<1>9. CASE LogCompaction
  BY <1>1, <1>9 DEF LogCompaction, clients
<1>10. CASE BackgroundCallIdle
  BY <1>2, <1>3, <1>10 DEF BackgroundCallIdle, EndBackgroundCall
<1>11. ASSUME FlushFails PROVE st' = WokenCalls(st) /\ mst' = WokenManuals(mst) /\ manual' = manual
  BY <1>11 DEF FlushFails, EndBackgroundCall, SignalAll
<1>12. CASE BuildTableFails
  BY <1>2, <1>3, <1>11, <1>12 DEF BuildTableFails
<1>13. CASE FlushAborted
  BY <1>2, <1>3, <1>11, <1>13 DEF FlushAborted
<1>14. CASE FlushEditFails
  BY <1>2, <1>3, <1>11, <1>14 DEF FlushEditFails
<1>15. CASE EndFlush
  BY <1>2, <1>3, <1>15 DEF EndFlush, EndBackgroundCall, SignalAll
<1>16. CASE ManualHasNothing
  BY <1>2, <1>3, <1>16 DEF ManualHasNothing, EndBackgroundCall
<1>17. ASSUME NEW ok \in BOOLEAN, EndCompaction(ok) PROVE Woken
  <2>1. /\ UNCHANGED <<kind, delayed, writers, group>>
        /\ st' = WokenCalls(st) /\ mst' = WokenManuals(mst)
        /\ manual' \in {manual, None}
    BY <1>17 DEF EndCompaction, EndBackgroundCall
  <2>2. mdone' = mdone \/ (mdone' = mdone \cup {manual} /\ manual # None)
    BY <1>17 DEF EndCompaction
  <2> QED BY <1>3, <2>1, <2>2
<1>18. CASE InstallCompaction
  BY <1>2, <1>17, <1>18 DEF InstallCompaction
<1>19. CASE CompactionEditFails
  BY <1>2, <1>17, <1>19 DEF CompactionEditFails
<1>20. CASE CompactionFails
  BY <1>2, <1>17, <1>20 DEF CompactionFails
<1>21. CASE NullManual
  BY <1>21, StoppedBy, StopQueue
<1> HIDE DEF Quiet, Woken
<1> QED BY <1>4, <1>5, <1>6, <1>7, <1>8, <1>9, <1>10, <1>12, <1>13, <1>14, <1>15, <1>16,
           <1>18, <1>19, <1>20, <1>21 DEF BackgroundWork

LEMMA StepQueue ==
  ASSUME CallsOK, QueueOK, lastSeq \in Nat, [Next]_vars
  PROVE  CallsOK' /\ QueueOK'
<1>1. CASE \E c \in Calls : CallStep(c)
  BY <1>1, CallStepQueue
<1>2. CASE LogGroup
  BY <1>2, LogGroupQueue
<1>3. CASE BackgroundWork
  BY <1>3, BackgroundQueue
<1>4. ASSUME NEW m \in Manuals, BeginManual(m) \/ EndManual(m) \/ AwaitManual(m)
      PROVE  CallsOK' /\ QueueOK'
  <2>1. /\ UNCHANGED <<kind, st, delayed, mdone, writers, group>>
        /\ mst' \in [Manuals -> ManualStates] /\ manual' \in Manuals \cup {None}
    BY <1>4 DEF BeginManual, EndManual, AwaitManual, CallsOK, ManualStates, background
  <2> QED BY <2>1, QueueKept DEF CallsOK
<1>5. CASE EndClose \/ Kill \/ PowerCut
  BY <1>5, StoppedBy, StopQueue
<1>6. ASSUME UNCHANGED <<clients, writers, group, manual>> PROVE CallsOK' /\ QueueOK'
  BY <1>6, QueueKept DEF CallsOK, clients
<1>7. CASE Open \/ OpenDies
  BY <1>6, <1>7 DEF Open, OpenDies, background
<1>8. CASE BeginClose
  BY <1>6, <1>8 DEF BeginClose, background
<1>9. CASE \E r \in Readers : NewIterator(r) \/ CloseIterator(r)
  BY <1>6, <1>9 DEF NewIterator, CloseIterator, background
<1>10. CASE UNCHANGED vars
  BY <1>6, <1>10 DEF vars, background
<1>11. ASSUME NEW c \in Calls, NEW k \in Kinds, Enqueue(c, k) PROVE CallsOK' /\ QueueOK'
  <2>1. /\ st[c] = "idle" /\ kind' = [kind EXCEPT ![c] = k] /\ st' = [st EXCEPT ![c] = "queued"]
        /\ writers' = Append(writers, c)
        /\ UNCHANGED <<delayed, mst, mdone, group, manual>>
    BY <1>11 DEF Enqueue, background
  <2>2. CallsOK'
    BY <2>1 DEF CallsOK, CallStates
  <2>3. /\ writers' \in Seq(Calls) /\ Len(writers) \in Nat /\ Len(writers') = Len(writers) + 1
        /\ DOMAIN writers = 1..Len(writers) /\ DOMAIN writers' = 1..(Len(writers) + 1)
        /\ writers'[Len(writers) + 1] = c /\ \A i \in DOMAIN writers : writers'[i] = writers[i]
    BY <2>1 DEF QueueOK
  <2>4. \A i \in DOMAIN writers : writers[i] \in Calls /\ writers[i] # c
    BY <2>1 DEF QueueOK, CallsOK
  <2>5. \A i, j \in DOMAIN writers' : writers'[i] = writers'[j] => i = j
    BY <2>3, <2>4 DEF QueueOK
  <2>6. ASSUME NEW d \in Calls
        PROVE  /\ st'[d] \in Waiting <=> \E i \in DOMAIN writers' : writers'[i] = d
               /\ st'[d] \in {"flushcheck", "flushwait"} => kind'[d] = "flush"
    <3>1. CASE d = c
      BY <2>1, <2>3, <3>1 DEF CallsOK, Waiting
    <3>2. CASE d # c
      <4>1. st'[d] = st[d] /\ kind'[d] = kind[d]
        BY <2>1, <3>2 DEF CallsOK
      <4>2. (\E i \in DOMAIN writers' : writers'[i] = d) <=> \E i \in DOMAIN writers : writers[i] = d
        BY <2>3, <3>2
      <4> QED BY <4>1, <4>2 DEF QueueOK, Waiting
    <3> QED BY <3>1, <3>2
  <2>7. ASSUME group # None
        PROVE  group' \in Groups /\ group'.size \in 1..Len(writers') /\ st'[Head(writers')] = "writing"
               /\ IsFiniteSet(group'.entries)
    <3>1. /\ group \in Groups /\ group.size \in 1..Len(writers) /\ st[Head(writers)] = "writing"
          /\ IsFiniteSet(group.entries) /\ group' = group
      BY <2>1, <2>7 DEF QueueOK
    <3>2. Head(writers') = Head(writers) /\ Head(writers) \in Calls
      BY <2>3, <2>4, <3>1
    <3>3. st'[Head(writers)] = "writing"
      BY <2>1, <3>1, <3>2 DEF CallsOK
    <3> QED BY <2>3, <3>1, <3>2, <3>3
  <2>8. QueueOK'
    BY <2>1, <2>3, <2>5, <2>6, <2>7 DEF QueueOK, Waiting
  <2> QED BY <2>2, <2>8
<1> QED BY <1>1, <1>2, <1>3, <1>4, <1>5, <1>7, <1>8, <1>9, <1>10, <1>11
        DEF Next, Work, Environment

(* What a recovery makes of the logs.                                      *)

LEMMA NumberAtEffect ==
  ASSUME LogsOK, ManifestOK
  PROVE  /\ NumberAt \in [Nat -> Nat]
         /\ NumberAt[0] = Max({manifest[1].next, manifest[1].log}) + 1
         /\ \A n \in Nat :
              /\ NumberAt[n] <= NumberAt[n + 1]
              /\ n \in FullLogs => NumberAt[n] < NumberAt[n + 1]
              /\ n \in OpenLogs => n < NumberAt[n + 1]
<1> DEFINE a == Max({manifest[1].next, manifest[1].log}) + 1
           step(n, x) == LET after == x + IF n - 1 \in FullLogs THEN 1 ELSE 0
                         IN IF n - 1 \in OpenLogs THEN Max({after, n}) ELSE after
           G == [n \in Nat |-> [x \in Nat |-> step(n, x)]]
<1>1. a \in Nat
  <2>1. manifest[1] \in Manifests
    BY DEF ManifestOK
  <2>2. manifest[1].next \in Nat /\ manifest[1].log \in Nat
    BY <2>1 DEF Manifests
  <2> QED BY <2>2, MaxOfTwo
<1>2. \A n, x \in Nat : x + (IF n - 1 \in FullLogs THEN 1 ELSE 0) \in Nat
  OBVIOUS
<1>3. ASSUME NEW n \in Nat, NEW x \in Nat
      PROVE  /\ step(n, x) \in Nat /\ x <= step(n, x)
             /\ n - 1 \in FullLogs => x < step(n, x)
             /\ n - 1 \in OpenLogs => n <= step(n, x)
  <2> DEFINE after == x + IF n - 1 \in FullLogs THEN 1 ELSE 0
  <2>1. after \in Nat /\ x <= after /\ (n - 1 \in FullLogs => x < after)
    OBVIOUS
  <2>2. step(n, x) = IF n - 1 \in OpenLogs THEN Max({after, n}) ELSE after
    OBVIOUS
  <2>3. Max({after, n}) \in Nat /\ after <= Max({after, n}) /\ n <= Max({after, n})
    <3> HIDE DEF after
    <3> QED BY <2>1, MaxOfTwo
  <2> HIDE DEF after, step
  <2> QED BY <2>1, <2>2, <2>3
<1>4. G \in [Nat -> [Nat -> Nat]]
  <2> HIDE DEF step
  <2> QED BY <1>3
<1>5. \A n, x \in Nat : G[n][x] = step(n, x)
  OBVIOUS
<1> HIDE DEF G
<1>6. PICK f \in [Nat -> Nat] : \A n \in Nat : f[n] = IF n = 0 THEN a ELSE G[n][f[n - 1]]
  <2>1. PICK T : T = Nat
    OBVIOUS
  <2> HIDE DEF a
  <2>2. a \in T /\ G \in [Nat -> [T -> T]]
    BY <1>1, <1>4, <2>1
  <2>3. PICK f \in [Nat -> T] : \A n \in Nat : f[n] = IF n = 0 THEN a ELSE G[n][f[n - 1]]
    BY <2>2, Recursion
  <2> QED BY <2>1, <2>3
<1> DEFINE P(g) == g = [n \in Nat |-> IF n = 0 THEN a ELSE step(n, g[n - 1])]
<1>7. P(f)
  <2> HIDE DEF a, step
  <2>1. \A n \in Nat : n # 0 => n - 1 \in Nat /\ f[n - 1] \in Nat
    OBVIOUS
  <2>2. \A n \in Nat : f[n] = IF n = 0 THEN a ELSE step(n, f[n - 1])
    BY <1>5, <1>6, <2>1
  <2> QED BY <2>2
<1>8. P(NumberAt)
  <2>1. P(CHOOSE g : P(g))
    <3> HIDE DEF P
    <3> QED BY <1>7
  <2> QED BY <2>1 DEF NumberAt
<1>9. \A n \in Nat : NumberAt[n] = IF n = 0 THEN a ELSE step(n, NumberAt[n - 1])
  <2> HIDE DEF a, step
  <2> QED BY <1>8
<1>10. NumberAt[0] = a /\ \A n \in Nat : NumberAt[n + 1] = step(n + 1, NumberAt[n])
  <2> HIDE DEF a, step
  <2> QED BY <1>9
<1>11. NumberAt \in [Nat -> Nat]
  <2> DEFINE S == {n \in Nat : NumberAt[n] \in Nat}
  <2>1. S \in SUBSET Nat /\ 0 \in S
    BY <1>1, <1>10
  <2>2. ASSUME NEW n \in S PROVE n + 1 \in S
    <3> HIDE DEF step
    <3>1. n \in Nat /\ n + 1 \in Nat /\ NumberAt[n] \in Nat
      OBVIOUS
    <3>2. step(n + 1, NumberAt[n]) \in Nat
      BY <1>3, <3>1
    <3>3. NumberAt[n + 1] \in Nat
      BY <1>10, <3>1, <3>2
    <3> QED BY <3>1, <3>3
  <2>3. S = Nat
    <3> HIDE DEF S
    <3> QED BY <2>1, <2>2, Induction
  <2>4. \A n \in Nat : NumberAt[n] \in Nat
    BY <2>3
  <2>5. NumberAt = [n \in Nat |-> NumberAt[n]]
    <3> HIDE DEF a, step
    <3> QED BY <1>8
  <2> QED BY <2>4, <2>5
<1>12. ASSUME NEW n \in Nat
       PROVE  /\ NumberAt[n] <= NumberAt[n + 1]
              /\ n \in FullLogs => NumberAt[n] < NumberAt[n + 1]
              /\ n \in OpenLogs => n < NumberAt[n + 1]
  <2>1. NumberAt[n] \in Nat /\ n + 1 \in Nat /\ (n + 1) - 1 = n
    BY <1>11
  <2> HIDE DEF step
  <2>2. /\ step(n + 1, NumberAt[n]) \in Nat /\ NumberAt[n] <= step(n + 1, NumberAt[n])
        /\ n \in FullLogs => NumberAt[n] < step(n + 1, NumberAt[n])
        /\ n \in OpenLogs => n + 1 <= step(n + 1, NumberAt[n])
    BY <1>3, <2>1
  <2> QED BY <1>10, <2>1, <2>2
<1> QED BY <1>10, <1>11, <1>12

\* Numbers given out later are larger.
LEMMA NumberAtGrows ==
  ASSUME LogsOK, ManifestOK, NEW i \in Nat, NEW j \in Nat, i <= j
  PROVE  NumberAt[i] <= NumberAt[j]
<1> DEFINE S == {n \in Nat : NumberAt[i] <= NumberAt[i + n]}
<1>1. /\ NumberAt \in [Nat -> Nat]
      /\ \A n \in Nat : NumberAt[n] <= NumberAt[n + 1]
  BY NumberAtEffect
<1>2. S \in SUBSET Nat /\ 0 \in S
  BY <1>1
<1>3. ASSUME NEW n \in S PROVE n + 1 \in S
  <2>1. i + n \in Nat /\ (i + n) + 1 = i + (n + 1)
    OBVIOUS
  <2>2. NumberAt[i + n] <= NumberAt[(i + n) + 1]
    BY <1>1, <2>1
  <2>3. NumberAt[i] \in Nat /\ NumberAt[i + n] \in Nat /\ NumberAt[i + (n + 1)] \in Nat
    BY <1>1
  <2> QED BY <2>1, <2>2, <2>3
<1>4. S = Nat
  <2> HIDE DEF S
  <2> QED BY <1>2, <1>3, Induction
<1>5. j - i \in Nat /\ i + (j - i) = j
  OBVIOUS
<1>6. j - i \in S
  BY <1>4, <1>5
<1> QED BY <1>5, <1>6

LEMMA ReadLogEntries ==
  ASSUME NEW recs \in Seq(Records)
  PROVE  ReadLog(recs) \subseteq Entries
<1>1. \A i \in DOMAIN recs : recs[i] \in Records
  OBVIOUS
<1>2. \A i \in DOMAIN recs : recs[i].entries \subseteq Entries
  BY <1>1 DEF Records
<1> HIDE DEF Records, Entries
<1> QED BY <1>2 DEF ReadLog

LEMMA RecoveredEffect ==
  ASSUME LogsOK, ManifestOK
  PROVE  /\ Recovered.next \in Nat
         /\ manifest[1].next < Recovered.next
         /\ \A l \in DOMAIN logs : l < Recovered.next
         /\ DOMAIN Recovered.tables \subseteq Nat /\ IsFiniteSet(DOMAIN Recovered.tables)
         /\ \A t \in DOMAIN Recovered.tables :
              /\ manifest[1].next < t /\ t < Recovered.next
              /\ \E l \in FullLogs : Recovered.tables[t] = ReadLog(logs[l].recs)
         /\ \A l \in FullLogs : \E t \in DOMAIN Recovered.tables :
              Recovered.tables[t] = ReadLog(logs[l].recs)
<1> DEFINE m == manifest[1]
           last == Max({0} \cup DOMAIN logs)
           tabs == [t \in {NumberAt[l] : l \in FullLogs} |->
                      ReadLog(logs[CHOOSE l \in FullLogs : NumberAt[l] = t].recs)]
<1>1. m.next \in Nat /\ m.log \in Nat
  <2>1. m \in Manifests
    BY DEF ManifestOK
  <2> QED BY <2>1 DEF Manifests
<1>2. last \in Nat /\ \A l \in DOMAIN logs : l <= last
  <2> DEFINE S == {0} \cup DOMAIN logs
  <2>1. S \in SUBSET Nat /\ S # {}
    BY DEF LogsOK
  <2>2. IsFiniteSet(S)
    <3>1. S = DOMAIN logs \cup {0} /\ IsFiniteSet(DOMAIN logs)
      BY DEF LogsOK
    <3> HIDE DEF S
    <3> QED BY <3>1, FS_AddElement
  <2>3. Max(S) \in S /\ \A y \in S : y <= Max(S)
    <3> HIDE DEF S
    <3> QED BY <2>1, <2>2, MaxFinite
  <2> QED BY <2>1, <2>3
<1>3. /\ NumberAt \in [Nat -> Nat]
      /\ NumberAt[0] = Max({m.next, m.log}) + 1
  BY NumberAtEffect
<1>4. m.next < NumberAt[0] /\ m.log < NumberAt[0]
  <2>1. Max({m.next, m.log}) \in Nat /\ m.next <= Max({m.next, m.log}) /\ m.log <= Max({m.next, m.log})
    <3> HIDE DEF m
    <3> QED BY <1>1, MaxOfTwo
  <2> HIDE DEF m
  <2> QED BY <1>1, <1>3, <2>1
<1>5. OpenLogs \subseteq DOMAIN logs /\ FullLogs \subseteq OpenLogs /\ DOMAIN logs \subseteq Nat
      /\ \A l \in DOMAIN logs : l \in OpenLogs \/ l < m.log
  BY <1>1 DEF OpenLogs, FullLogs, LogsFrom, LogsOK
<1>6. Recovered.tables = tabs /\ Recovered.next = NumberAt[last + 1]
  BY DEF Recovered
<1> HIDE DEF m, last
<1>7. last + 1 \in Nat /\ NumberAt[last + 1] \in Nat /\ NumberAt[0] <= NumberAt[last + 1]
  BY <1>2, <1>3, NumberAtGrows
<1>8. \A l \in DOMAIN logs : l < NumberAt[last + 1]
  <2> SUFFICES ASSUME NEW l \in DOMAIN logs PROVE l < NumberAt[last + 1]
    OBVIOUS
  <2>1. CASE l \in OpenLogs
    <3>1. l \in Nat /\ l + 1 \in Nat /\ l + 1 <= last + 1 /\ NumberAt[l + 1] \in Nat
      BY <1>2, <1>3, <1>5
    <3>2. l < NumberAt[l + 1]
      BY <2>1, <3>1, NumberAtEffect
    <3>3. NumberAt[l + 1] <= NumberAt[last + 1]
      BY <1>7, <3>1, NumberAtGrows
    <3> QED BY <1>7, <3>1, <3>2, <3>3
  <2>2. CASE l < m.log
    BY <1>1, <1>3, <1>4, <1>5, <1>7, <2>2
  <2> QED BY <1>5, <2>1, <2>2
<1>9. \A l \in FullLogs : /\ NumberAt[l] \in Nat /\ m.next < NumberAt[l]
                          /\ NumberAt[l] < NumberAt[last + 1]
  <2> SUFFICES ASSUME NEW l \in FullLogs
               PROVE  NumberAt[l] \in Nat /\ m.next < NumberAt[l] /\ NumberAt[l] < NumberAt[last + 1]
    OBVIOUS
  <2>1. l \in Nat /\ l + 1 \in Nat /\ l + 1 <= last + 1 /\ 0 <= l
        /\ NumberAt[l] \in Nat /\ NumberAt[l + 1] \in Nat
    BY <1>2, <1>3, <1>5
  <2>2. NumberAt[l] < NumberAt[l + 1]
    BY <2>1, NumberAtEffect
  <2>3. NumberAt[l + 1] <= NumberAt[last + 1] /\ NumberAt[0] <= NumberAt[l]
    BY <1>7, <2>1, NumberAtGrows
  <2> QED BY <1>1, <1>3, <1>4, <1>7, <2>1, <2>2, <2>3
<1>10. ASSUME NEW k \in FullLogs, NEW l \in FullLogs, NumberAt[k] = NumberAt[l], k < l
       PROVE  FALSE
  <2>1. k \in Nat /\ l \in Nat /\ k + 1 \in Nat /\ k + 1 <= l /\ NumberAt[k + 1] \in Nat
        /\ NumberAt[k] \in Nat /\ NumberAt[l] \in Nat
    BY <1>3, <1>5, <1>10
  <2>2. NumberAt[k] < NumberAt[k + 1]
    BY <2>1, NumberAtEffect
  <2>3. NumberAt[k + 1] <= NumberAt[l]
    BY <2>1, NumberAtGrows
  <2> QED BY <1>10, <2>1, <2>2, <2>3
<1>11. \A k, l \in FullLogs : NumberAt[k] = NumberAt[l] => k = l
  <2> SUFFICES ASSUME NEW k \in FullLogs, NEW l \in FullLogs, NumberAt[k] = NumberAt[l], k # l
               PROVE  FALSE
    OBVIOUS
  <2>1. k \in Nat /\ l \in Nat
    BY <1>5
  <2>2. k < l \/ l < k
    BY <2>1
  <2> QED BY <1>10, <2>2
<1>12. \A l \in FullLogs : NumberAt[l] \in DOMAIN tabs /\ tabs[NumberAt[l]] = ReadLog(logs[l].recs)
  <2> SUFFICES ASSUME NEW l \in FullLogs
               PROVE  NumberAt[l] \in DOMAIN tabs /\ tabs[NumberAt[l]] = ReadLog(logs[l].recs)
    OBVIOUS
  <2>1. (CHOOSE k \in FullLogs : NumberAt[k] = NumberAt[l]) = l
    BY <1>11
  <2> QED BY <2>1
<1>13. DOMAIN tabs = {NumberAt[l] : l \in FullLogs}
  OBVIOUS
<1>14. IsFiniteSet({NumberAt[l] : l \in FullLogs})
  <2>1. IsFiniteSet(FullLogs)
    BY <1>5, FS_Subset DEF LogsOK
  <2>2. FullLogs \subseteq DOMAIN NumberAt
    BY <1>3, <1>5
  <2> QED BY <2>1, <2>2, ImageFinite
<1> HIDE DEF tabs
<1> QED BY <1>6, <1>7, <1>8, <1>9, <1>12, <1>13, <1>14, <1>1, <1>3, <1>4 DEF m

(* Steps that leave the files alone but for what the log holds.            *)

LEMMA StepRest ==
  ASSUME CallsOK, QueueOK, RestOK, [Next]_vars
  PROVE  RestOK'
<1>1. up # "open" => group = None
  <2>1. group # None => Head(writers) \in Calls /\ st[Head(writers)] = "writing"
    BY DEF QueueOK
  <2> QED BY <2>1 DEF RestOK
<1>2. CASE \E l, m : Stop(l, m)
  BY <1>2 DEF Stop, RestOK, CallsOK, CallStates
<1>3. CASE BeginClose
  BY <1>3 DEF BeginClose, RestOK, clients
<1>4. CASE Open
  BY <1>4 DEF Open, RestOK
<1>5. ASSUME up' = up, up # "open" =>
               /\ st' = st \/ st' = WokenCalls(st)
               /\ mst' = mst \/ mst' = WokenManuals(mst)
      PROVE  RestOK'
  BY <1>5 DEF RestOK, WokenCalls, WokenManuals
<1>6. CASE \E c \in Calls : CallStep(c)
  <2>1. up = "open" /\ up' = up
    BY <1>6 DEF CallStep, Refuse, SlowDown, WaitForRoom, WriteToMem, SwitchMemTable, SwitchFails,
                AwaitFlush, Leads
  <2> QED BY <2>1, <1>5
<1>7. CASE LogGroup
  <2>1. group # None /\ up' = up
    BY <1>7 DEF LogGroup, AddRecord, AddRecordFails, SyncLog, SyncFails, InsertInto, FinishWrite,
                Phase, PhaseFails
  <2> QED BY <1>1, <2>1, <1>5
<1>8. CASE \E c \in Calls, k \in Kinds : Enqueue(c, k)
  BY <1>5, <1>8 DEF Enqueue
<1>9. CASE \E m \in Manuals : BeginManual(m) \/ EndManual(m) \/ AwaitManual(m)
  BY <1>9 DEF BeginManual, EndManual, AwaitManual, RestOK
<1>10. CASE OpenDies \/ \E r \in Readers : NewIterator(r) \/ CloseIterator(r)
  BY <1>5, <1>10 DEF OpenDies, NewIterator, CloseIterator, clients
<1>11. CASE UNCHANGED vars
  BY <1>5, <1>11 DEF vars, clients
<1>12. CASE StartFlush \/ LogFlush(0) \/ LogFlush(1) \/ OpenCompactionOutputFile \/ LogCompaction
            \/ (\E inputs \in Inputs : StartCompaction(inputs))
            \/ \E part \in SUBSET (IF comp = None THEN {} ELSE comp.left) : FinishCompactionOutputFile(part)
  BY <1>5, <1>12 DEF StartFlush, LogFlush, OpenCompactionOutputFile, LogCompaction, StartCompaction,
                     FinishCompactionOutputFile, clients
<1>13. CASE BackgroundCallIdle \/ BuildTableFails \/ FlushAborted \/ EndFlush \/ FlushEditFails
            \/ ManualHasNothing
  BY <1>5, <1>13 DEF BackgroundCallIdle, BuildTableFails, FlushAborted, EndFlush, FlushEditFails,
                     ManualHasNothing, FlushFails, EndBackgroundCall, SignalAll
<1>14. CASE InstallCompaction \/ CompactionEditFails \/ CompactionFails
  BY <1>5, <1>14 DEF InstallCompaction, CompactionEditFails, CompactionFails, EndCompaction,
                     EndBackgroundCall
<1> QED BY <1>2, <1>3, <1>4, <1>6, <1>7, <1>8, <1>9, <1>10, <1>11, <1>12, <1>13, <1>14, StoppedBy
        DEF Next, Work, Environment, BackgroundWork

LEMMA FilesKept ==
  ASSUME FilesOK, up # "down",
         up' # "down",
         UNCHANGED <<mem, imm, nextFile, logNumber, version, flush, comp, pending, view,
                     tables, manifest>>,
         bgError' = bgError \/ bgError' = TRUE,
         LogsOK', DOMAIN logs' = DOMAIN logs,
         DOMAIN mems' = DOMAIN mems, \A n \in DOMAIN mems : mems'[n] \subseteq Entries
  PROVE  FilesOK'
<1> USE DEF FilesOK
<1>1. Candidates' = Candidates /\ Viewed' = Viewed /\ Named' = Named /\ HeldMems' = HeldMems
  BY DEF Candidates, Viewed, Named, HeldMems
<1>2. TablesOK' /\ ManifestOK'
  BY <1>1 DEF TablesOK, ManifestOK
<1>3. MemoryOK'
  BY <1>1 DEF MemoryOK
<1>4. ViewsOK'
  BY DEF ViewsOK
<1>5. FlushOK'
  BY <1>1 DEF FlushOK
<1>6. CompOK'
  BY <1>1 DEF CompOK
<1>7. EditsOK'
  BY DEF EditsOK, Installing, Moving, Agrees
<1>8. DownOK'
  BY DEF DownOK
<1> QED BY <1>2, <1>3, <1>4, <1>5, <1>6, <1>7, <1>8

LEMMA BusyRuns ==
  ASSUME QueueOK, RestOK, group # None
  PROVE  up = "open"
<1>1. Head(writers) \in Calls /\ st[Head(writers)] = "writing"
  BY DEF QueueOK
<1> QED BY <1>1 DEF RestOK

LEMMA MemHeld ==
  ASSUME NumbersOK, MemoryOK, up # "down"
  PROVE  /\ mem \in DOMAIN mems /\ mem \in DOMAIN logs
         /\ imm # None => imm \in DOMAIN mems /\ imm \in DOMAIN logs /\ imm \in Nat
BY NoneAssumption DEF NumbersOK, MemoryOK, HeldMems

\* One log gets another state.
LEMMA LogSet ==
  ASSUME LogsOK, NEW l \in DOMAIN logs, NEW x \in [recs: Seq(Records), synced: Nat],
         x.synced <= Len(x.recs),
         \A i \in DOMAIN x.recs : IsFiniteSet(x.recs[i].entries),
         logs' = [logs EXCEPT ![l] = x]
  PROVE  LogsOK' /\ DOMAIN logs' = DOMAIN logs
BY DEF LogsOK

LEMMA RecordAdded ==
  ASSUME NumbersOK, LogsOK, MemoryOK, QueueOK, up # "down", group # None, NEW w \in BOOLEAN,
         logs' = [logs EXCEPT ![mem].recs = Append(@, [entries |-> group.entries, whole |-> w])]
  PROVE  LogsOK' /\ DOMAIN logs' = DOMAIN logs
<1> DEFINE rec == [entries |-> group.entries, whole |-> w]
           x == [logs[mem] EXCEPT !.recs = Append(@, rec)]
<1>1. mem \in DOMAIN logs
  BY MemHeld
<1>2. /\ logs[mem] \in [recs: Seq(Records), synced: Nat]
      /\ logs[mem].synced <= Len(logs[mem].recs)
      /\ \A i \in DOMAIN logs[mem].recs : IsFiniteSet(logs[mem].recs[i].entries)
  BY <1>1 DEF LogsOK
<1>3. rec \in Records /\ rec.entries = group.entries /\ IsFiniteSet(group.entries)
  BY DEF QueueOK, Groups, Records
<1>4. x.recs = Append(logs[mem].recs, rec) /\ x.synced = logs[mem].synced
      /\ x \in [recs: Seq(Records), synced: Nat]
  <2>1. Append(logs[mem].recs, rec) \in Seq(Records)
    <3> HIDE DEF rec
    <3> QED BY <1>2, <1>3
  <2> HIDE DEF rec
  <2> QED BY <1>2, <2>1
<1>5. x.synced <= Len(x.recs)
  <2> HIDE DEF rec, x
  <2> QED BY <1>2, <1>3, <1>4
<1>6. \A i \in DOMAIN x.recs : IsFiniteSet(x.recs[i].entries)
  <2> HIDE DEF rec, x
  <2>1. \A i \in DOMAIN x.recs : x.recs[i] = rec \/ (i \in DOMAIN logs[mem].recs /\ x.recs[i] = logs[mem].recs[i])
    BY <1>2, <1>3, <1>4
  <2> QED BY <1>2, <1>3, <2>1
<1>7. logs' = [logs EXCEPT ![mem] = x]
  OBVIOUS
<1> HIDE DEF x
<1> QED BY <1>1, <1>4, <1>5, <1>6, <1>7, LogSet

LEMMA LogGroupFiles ==
  ASSUME FileInv, LogGroup
  PROVE  FilesOK' /\ NumbersOK'
<1> USE DEF FileInv
<1>1. group # None /\ group \in Groups /\ up # "down" /\ IsFiniteSet(group.entries)
  <2>1. group # None
    BY DEF LogGroup, AddRecord, AddRecordFails, SyncLog, SyncFails, InsertInto, FinishWrite,
           Phase, PhaseFails
  <2> QED BY <2>1, BusyRuns DEF QueueOK
<1>2. Cardinality(group.entries) \in Nat
  BY <1>1, FS_CardinalityType
<1> DEFINE Frame == /\ UNCHANGED <<mem, imm, numbers, version, flush, comp, pending, view, up,
                                    bounds, scheduled, bgError, tables, manifest>>
<1>3. ASSUME Frame, LogsOK', DOMAIN logs' = DOMAIN logs,
             DOMAIN mems' = DOMAIN mems, \A n \in DOMAIN mems : mems'[n] \subseteq Entries
      PROVE  FilesOK' /\ NumbersOK'
  <2>1. FilesOK'
    BY <1>1, <1>3, FilesKept DEF numbers
  <2>2. NumbersOK'
    BY <1>3 DEF NumbersOK, numbers, bounds
  <2> QED BY <2>1, <2>2
<1>4. \A n \in DOMAIN mems : mems[n] \subseteq Entries
  BY <1>1 DEF FilesOK, MemoryOK
<1>5. LogsOK /\ MemoryOK
  BY DEF FilesOK
<1>6. CASE AddRecord \/ AddRecordFails
  <2>1. Frame /\ mems' = mems
    BY <1>6 DEF AddRecord, AddRecordFails, Phase, PhaseFails, background, memory
  <2>2. \/ logs' = logs
        \/ \E w \in BOOLEAN :
             logs' = [logs EXCEPT ![mem].recs = Append(@, [entries |-> group.entries, whole |-> w])]
    BY <1>6 DEF AddRecord, AddRecordFails
  <2>3. LogsOK' /\ DOMAIN logs' = DOMAIN logs
    BY <1>1, <1>5, <2>2, RecordAdded DEF LogsOK
  <2> QED BY <1>3, <1>4, <2>1, <2>3
<1>7. CASE SyncLog \/ SyncFails
  <2>1. Frame /\ mems' = mems
    BY <1>7 DEF SyncLog, SyncFails, Phase, PhaseFails, background, memory
  <2>2. logs' = logs \/ logs' = [logs EXCEPT ![mem].synced = Len(logs[mem].recs)]
    BY <1>7 DEF SyncLog, SyncFails
  <2>3. CASE logs' = logs
    BY <1>3, <1>4, <1>5, <2>1, <2>3 DEF LogsOK
  <2>4. CASE logs' = [logs EXCEPT ![mem].synced = Len(logs[mem].recs)]
    <3> DEFINE x == [logs[mem] EXCEPT !.synced = Len(logs[mem].recs)]
    <3>1. mem \in DOMAIN logs
      BY <1>1, MemHeld DEF FilesOK
    <3>2. /\ logs[mem] \in [recs: Seq(Records), synced: Nat]
          /\ \A i \in DOMAIN logs[mem].recs : IsFiniteSet(logs[mem].recs[i].entries)
      BY <1>5, <3>1 DEF LogsOK
    <3>3. x \in [recs: Seq(Records), synced: Nat] /\ x.recs = logs[mem].recs
          /\ x.synced <= Len(x.recs)
      BY <3>2
    <3>4. logs' = [logs EXCEPT ![mem] = x]
      BY <2>4
    <3>5. LogsOK' /\ DOMAIN logs' = DOMAIN logs
      <4> HIDE DEF x
      <4> QED BY <1>5, <3>1, <3>2, <3>3, <3>4, LogSet
    <3> QED BY <1>3, <1>4, <2>1, <3>5
  <2> QED BY <2>2, <2>3, <2>4
<1>8. CASE InsertInto
  <2>1. Frame /\ logs' = logs /\ mems' = [mems EXCEPT ![mem] = @ \cup group.entries]
    BY <1>8 DEF InsertInto, Phase, background
  <2>2. \A n \in DOMAIN mems : mems'[n] \subseteq Entries
    BY <1>1, <1>4, <2>1 DEF Groups
  <2>3. LogsOK'
    BY <1>5, <2>1 DEF LogsOK
  <2> QED BY <1>3, <2>1, <2>2, <2>3
<1>9. CASE FinishWrite
  <2>1. /\ UNCHANGED <<memory, nextFile, logNumber, version, scheduled, flush, comp, pending, view, up,
                       bounds, disk>>
        /\ lastSeq' = lastSeq + Cardinality(group.entries)
        /\ bgError' = bgError \/ bgError' = TRUE
    BY <1>9 DEF FinishWrite
  <2>2. NumbersOK'
    <3>1. lastSeq' \in Nat
      BY <1>2, <2>1 DEF NumbersOK
    <3>2. bgError' \in BOOLEAN
      BY <2>1 DEF NumbersOK
    <3> QED BY <2>1, <3>1, <3>2 DEF NumbersOK, memory, bounds
  <2>3. LogsOK' /\ DOMAIN logs' = DOMAIN logs /\ DOMAIN mems' = DOMAIN mems /\ mems' = mems
    BY <1>5, <2>1 DEF LogsOK, disk, memory
  <2>4. FilesOK'
    BY <1>1, <1>4, <2>1, <2>3, FilesKept DEF disk, memory
  <2> QED BY <2>2, <2>4
<1> QED BY <1>6, <1>7, <1>8, <1>9 DEF LogGroup

LEMMA QuietFiles ==
  ASSUME FileInv, up # "down", scheduled' \in BOOLEAN, up' = up \/ up' = "closing",
         UNCHANGED <<memory, numbers, version, flush, comp, pending, bgError, view, bounds, disk>>
  PROVE  FilesOK' /\ NumbersOK'
<1>1. NumbersOK'
  BY DEF FileInv, NumbersOK, memory, numbers, bounds
<1>2. LogsOK' /\ \A n \in DOMAIN mems : mems'[n] \subseteq Entries
  BY DEF FileInv, FilesOK, LogsOK, MemoryOK, memory, disk
<1>3. FilesOK'
  BY <1>2, FilesKept DEF FileInv, memory, numbers, disk
<1> QED BY <1>1, <1>3

LEMMA CandidateTypes ==
  ASSUME ManifestOK
  PROVE  /\ \A m \in Candidates : /\ m \in Manifests
                                  /\ m.l0 \subseteq Nat /\ m.deep \subseteq Nat
                                  /\ m.log \in Nat /\ m.next \in Nat /\ m.seq \in Nat
         /\ Len(manifest) \in Nat \ {0} /\ DOMAIN manifest = 1..Len(manifest)
         /\ manifest[1] \in Candidates /\ Last(manifest) \in Candidates
<1>1. /\ Len(manifest) \in Nat \ {0} /\ DOMAIN manifest = 1..Len(manifest)
      /\ manifest[1] \in Candidates /\ Last(manifest) \in Candidates
  BY DEF ManifestOK, Candidates, Last
<1>2. \A m \in Candidates : m \in Manifests
  BY DEF ManifestOK, Candidates
<1> QED BY <1>1, <1>2 DEF Manifests

LEMMA EmptyLogType ==
  /\ EmptyLog \in [recs: Seq(Records), synced: Nat]
  /\ EmptyLog.synced <= Len(EmptyLog.recs)
  /\ \A i \in DOMAIN EmptyLog.recs : IsFiniteSet(EmptyLog.recs[i].entries)
BY DEF EmptyLog

LEMMA LogCreated ==
  ASSUME LogsOK, NEW n \in Nat, NEW l, l = Put(logs, n, EmptyLog), logs' = l
  PROVE  LogsOK' /\ DOMAIN logs' = DOMAIN logs \cup {n}
<1>1. /\ DOMAIN l = DOMAIN logs \cup {n} /\ l[n] = EmptyLog
      /\ \A k \in DOMAIN logs : k # n => l[k] = logs[k]
  BY DEF Put
<1>2. IsFiniteSet(DOMAIN l)
  BY <1>1, FS_AddElement DEF LogsOK
<1>3. \A k \in DOMAIN l : l[k] = EmptyLog \/ (k \in DOMAIN logs /\ l[k] = logs[k])
  BY <1>1
<1> QED BY <1>1, <1>2, <1>3, EmptyLogType DEF LogsOK

LEMMA SwitchFiles ==
  ASSUME FileInv, NEW c \in Calls, SwitchMemTable(c)
  PROVE  FilesOK' /\ NumbersOK'
<1> USE DEF FileInv
<1>1. /\ up = "open" /\ up' = up /\ imm = None
      /\ logs' = Put(logs, nextFile, EmptyLog)
      /\ imm' = mem /\ mem' = nextFile /\ nextFile' = nextFile + 1
      /\ mems' = Put(mems, nextFile, {})
      /\ UNCHANGED <<bgError, version, lastSeq, logNumber, flush, comp, pending, view, bounds,
                     tables, manifest>>
  BY DEF SwitchMemTable, Leads, MustWait
<1>2. scheduled' \in BOOLEAN
  BY DEF SwitchMemTable, MaybeScheduleCompaction
<1>3. NumbersOK'
  BY <1>1, <1>2 DEF NumbersOK, bounds
<1>4. nextFile \in Nat /\ mem \in Nat /\ mem # None /\ nextFile # None
  BY NoneAssumption DEF NumbersOK
<1>5. LogsOK' /\ DOMAIN logs' = DOMAIN logs \cup {nextFile}
  BY <1>1, <1>4, LogCreated DEF FilesOK
<1>6. /\ DOMAIN mems' = DOMAIN mems \cup {nextFile} /\ mems'[nextFile] = {}
      /\ \A n \in DOMAIN mems : n # nextFile => mems'[n] = mems[n]
  BY <1>1 DEF Put
<1>7. Candidates' = Candidates /\ Viewed' = Viewed /\ Named' = Named
  BY <1>1 DEF Candidates, Viewed, Named
<1>8. TablesOK' /\ ManifestOK' /\ ViewsOK' /\ CompOK'
  BY <1>1, <1>7 DEF FilesOK, TablesOK, ManifestOK, ViewsOK, CompOK
<1>9. flush = None /\ FlushOK' /\ DownOK'
  BY <1>1 DEF FilesOK, FlushOK, DownOK
<1>10. EditsOK'
  BY <1>1, <1>9 DEF FilesOK, EditsOK, Installing, Moving, Agrees
<1>11. MemoryOK'
  <2> USE DEF FilesOK, MemoryOK
  <2>1. HeldMems' = HeldMems \cup {nextFile}
    BY <1>1, <1>4, <1>7 DEF HeldMems
  <2>2. DOMAIN mems' = HeldMems' /\ \A n \in DOMAIN mems' : mems'[n] \subseteq Entries
    BY <1>1, <1>6, <2>1
  <2>3. logNumber = mem /\ mem < nextFile
    BY <1>1
  <2>4. \A l \in DOMAIN logs' : l >= logNumber' => l \in {mem', imm'}
    <3>1. \A l \in DOMAIN logs : l \in Nat /\ (l >= mem => l \in {mem, imm})
      BY <1>1, <2>3 DEF LogsOK
    <3>2. \A l \in DOMAIN logs : l >= mem => l = mem
      BY <1>1, <3>1, NoneAssumption
    <3> QED BY <1>1, <1>5, <2>3, <3>2
  <2>5. \A n \in DOMAIN tables' \cup DOMAIN logs' \cup DOMAIN mems' : n < nextFile'
    <3>1. \A n \in DOMAIN tables \cup DOMAIN logs \cup DOMAIN mems : n \in Nat /\ n < nextFile
      BY <1>1 DEF TablesOK, LogsOK, HeldMems, ViewsOK, Views, NumbersOK, Viewed
    <3> QED BY <1>1, <1>4, <1>5, <1>6, <3>1
  <2>6. Files(version') \subseteq DOMAIN tables'
    BY <1>1
  <2>7. \A m \in Candidates' : m.next <= nextFile' /\ m.log \in {logNumber', mem'}
    <3>1. \A m \in Candidates : m.next \in Nat /\ m.next <= nextFile /\ m.log = logNumber
      BY <1>1, <2>3, CandidateTypes
    <3> QED BY <1>1, <1>4, <1>7, <3>1
  <2> QED BY <1>1, <1>4, <1>5, <2>2, <2>3, <2>4, <2>5, <2>6, <2>7
<1> QED BY <1>3, <1>5, <1>8, <1>9, <1>10, <1>11 DEF FilesOK

LEMMA CallStepFiles ==
  ASSUME FileInv, NEW c \in Calls, CallStep(c)
  PROVE  FilesOK' /\ NumbersOK'
<1>1. CASE SwitchMemTable(c)
  BY <1>1, SwitchFiles
<1>2. CASE ~SwitchMemTable(c)
  <2>1. /\ up = "open"
        /\ UNCHANGED <<memory, numbers, version, scheduled, flush, comp, pending, bgError, view, up,
                       bounds, disk>>
    BY <1>2 DEF CallStep, Refuse, SlowDown, WaitForRoom, WriteToMem, SwitchFails, AwaitFlush, Leads,
                background
  <2>2. scheduled' \in BOOLEAN
    BY <2>1 DEF FileInv, NumbersOK
  <2> QED BY <2>1, <2>2, QuietFiles
<1> QED BY <1>1, <1>2

(* Iterators.                                                              *)

LEMMA HeldEntries ==
  ASSUME NumbersOK, TablesOK, MemoryOK, up # "down"
  PROVE  Held \subseteq Entries
<1>1. mems[mem] \subseteq Entries /\ (imm # None => mems[imm] \subseteq Entries)
  BY MemHeld DEF MemoryOK
<1>2. \A n \in Files(version) \cap DOMAIN tables : tables[n] \subseteq Entries
  BY DEF TablesOK
<1> HIDE DEF Entries
<1> QED BY <1>1, <1>2 DEF Held

\* The set of open iterators after one step of one of them.
LEMMA ViewStep ==
  ASSUME DOMAIN view = Readers, NEW r \in Readers, NEW x, view' = [view EXCEPT ![r] = x]
  PROVE  /\ Viewed' \subseteq Viewed \cup ({x} \ {None})
         /\ view[r] = None => Viewed \subseteq Viewed'
         /\ \A q \in Readers : view'[q] = IF q = r THEN x ELSE view[q]
<1>1. \A q \in Readers : view'[q] = IF q = r THEN x ELSE view[q]
  OBVIOUS
<1>2. ASSUME NEW v \in Viewed' PROVE v \in Viewed \cup ({x} \ {None})
  <2>1. PICK q \in Readers : view'[q] # None /\ v = view'[q]
    BY DEF Viewed
  <2> QED BY <1>1, <2>1 DEF Viewed
<1>3. ASSUME view[r] = None, NEW v \in Viewed PROVE v \in Viewed'
  <2>1. PICK q \in Readers : view[q] # None /\ v = view[q]
    BY DEF Viewed
  <2>2. q # r /\ view'[q] = view[q]
    BY <1>1, <1>3, <2>1
  <2> QED BY <2>1, <2>2 DEF Viewed
<1> QED BY <1>1, <1>2, <1>3

LEMMA ViewedTypes ==
  ASSUME ViewsOK
  PROVE  \A v \in Viewed : /\ v \in Views /\ v.files \subseteq DOMAIN tables
                           /\ v.mems \subseteq Nat /\ v.files \subseteq Nat
<1>1. \A v \in Viewed : v \in Views /\ v.files \subseteq DOMAIN tables
  BY DEF ViewsOK, Viewed
<1> QED BY <1>1 DEF Views

\* Flushes and compactions do not mind fewer names, or those of the version.
LEMMA NamedLess ==
  ASSUME FlushOK, CompOK,
         UNCHANGED <<flush, comp, imm, mem, nextFile, tables, pending, version, manifest>>,
         Named' \subseteq Named \cup Files(version)
  PROVE  FlushOK' /\ CompOK'
<1>1. FlushOK'
  BY DEF FlushOK
<1>2. CompOK'
  BY DEF CompOK
<1> QED BY <1>1, <1>2

LEMMA NamedWithin ==
  ASSUME NEW S
  PROVE  /\ (\A m \in Candidates : Files(m) \subseteq S) /\ (\A v \in Viewed : v.files \subseteq S)
              => Named \subseteq S
         /\ \A m \in Candidates : Files(m) \subseteq Named
         /\ \A v \in Viewed : v.files \subseteq Named
<1> DEFINE A == {Files(m) : m \in Candidates}
           B == {v.files : v \in Viewed}
<1>1. /\ \A m \in Candidates : Files(m) \in A
      /\ \A a \in A : \E m \in Candidates : a = Files(m)
  OBVIOUS
<1>2. /\ \A v \in Viewed : v.files \in B
      /\ \A b \in B : \E v \in Viewed : b = v.files
  OBVIOUS
<1>3. Named = (UNION A) \cup (UNION B)
  BY DEF Named
<1> HIDE DEF A, B
<1> QED BY <1>1, <1>2, <1>3

LEMMA IteratorFiles ==
  ASSUME FileInv, NEW r \in Readers, NewIterator(r) \/ CloseIterator(r)
  PROVE  FilesOK' /\ NumbersOK'
<1> USE DEF FileInv, FilesOK
<1>1. up # "down" /\ DOMAIN view = Readers
  BY DEF NewIterator, CloseIterator, DownOK, Down, ViewsOK
<1>2. UNCHANGED <<mem, imm, lastSeq, nextFile, logNumber, version, scheduled, flush, comp, pending,
                  bgError, up, kills, cuts, limits, logs, tables, manifest>>
  BY DEF NewIterator, CloseIterator, memory, numbers, background, bounds, disk
<1>3. NumbersOK' /\ LogsOK' /\ TablesOK'
  BY <1>2 DEF NumbersOK, LogsOK, TablesOK
<1>4. Candidates' = Candidates
  BY <1>2 DEF Candidates
<1>5. ManifestOK' /\ EditsOK' /\ DownOK'
  BY <1>1, <1>2, <1>4 DEF ManifestOK, EditsOK, DownOK, Installing, Moving, Agrees
<1>6. \A v \in Viewed : /\ v \in Views /\ v.files \subseteq DOMAIN tables
                        /\ v.mems \subseteq Nat /\ v.files \subseteq Nat
  BY ViewedTypes
<1>7. ASSUME DOMAIN mems' = HeldMems', HeldMems' \subseteq HeldMems,
             \A n \in DOMAIN mems' : mems'[n] = mems[n]
      PROVE  MemoryOK'
  BY <1>1, <1>2, <1>4, <1>7 DEF MemoryOK
<1>8. CASE NewIterator(r)
  <2> DEFINE x == [snapshot |-> lastSeq, mems |-> {mem, imm} \ {None}, files |-> Files(version),
                   seen |-> UpTo(Held, lastSeq)]
  <2>1. view[r] = None /\ view' = [view EXCEPT ![r] = x] /\ mems' = mems
    BY <1>8 DEF NewIterator, Capture, memory
  <2>2. x.files = Files(version) /\ x.mems = {mem, imm} \ {None}
    OBVIOUS
  <2>3. x \in Views /\ Files(version) \subseteq DOMAIN tables
    <3>1. Held \subseteq Entries
      BY <1>1, HeldEntries
    <3>2. UpTo(Held, lastSeq) \subseteq Entries
      BY <3>1 DEF UpTo
    <3>3. Files(version) \subseteq DOMAIN tables /\ DOMAIN tables \subseteq Nat
      BY <1>1 DEF MemoryOK, TablesOK
    <3> HIDE DEF Entries
    <3> QED BY <3>2, <3>3 DEF Views, NumbersOK
  <2> HIDE DEF x
  <2>4. /\ Viewed' \subseteq Viewed \cup {x} /\ Viewed \subseteq Viewed'
        /\ \A q \in Readers : view'[q] = IF q = r THEN x ELSE view[q]
    BY <1>1, <2>1, ViewStep
  <2>5. ViewsOK'
    BY <1>2, <2>1, <2>3, <2>2, <2>4 DEF ViewsOK
  <2>6. HeldMems' = HeldMems
    BY <1>2, <2>2, <2>4 DEF HeldMems
  <2>7. MemoryOK'
    BY <1>7, <1>1, <2>1, <2>6 DEF MemoryOK
  <2>8. Named' \subseteq Named \cup Files(version)
    <3>1. \A m \in Candidates' : Files(m) \subseteq Named \cup Files(version)
      BY <1>4, NamedWithin
    <3>2. \A v \in Viewed' : v.files \subseteq Named \cup Files(version)
      BY <2>2, <2>4, NamedWithin
    <3> QED BY <3>1, <3>2 DEF Named
  <2> QED BY <1>2, <1>3, <1>5, <2>5, <2>7, <2>8, NamedLess
<1>9. CASE CloseIterator(r)
  <2>1. view' = [view EXCEPT ![r] = None] /\ mems' = Restrict(mems, DOMAIN mems \cap HeldMems')
    BY <1>9 DEF CloseIterator, Unref
  <2>2. /\ Viewed' \subseteq Viewed
        /\ \A q \in Readers : view'[q] = IF q = r THEN None ELSE view[q]
    BY <1>1, <2>1, ViewStep
  <2>3. ViewsOK'
    BY <1>2, <2>1, <2>2 DEF ViewsOK
  <2>4. HeldMems' \subseteq HeldMems
    BY <1>2, <2>2 DEF HeldMems
  <2>5. DOMAIN mems' = DOMAIN mems \cap HeldMems' /\ \A n \in DOMAIN mems' : mems'[n] = mems[n]
    BY <2>1 DEF Restrict
  <2>6. MemoryOK'
    BY <1>7, <1>1, <2>4, <2>5 DEF MemoryOK
  <2>7. Named' \subseteq Named \cup Files(version)
    BY <1>4, <2>2 DEF Named
  <2> QED BY <1>2, <1>3, <1>5, <2>3, <2>6, <2>7, NamedLess
<1> QED BY <1>8, <1>9

(* The background thread.                                                  *)

LEMMA QuietSteps ==
  ASSUME FileInv,
         \/ \E c \in Calls, k \in Kinds : Enqueue(c, k)
         \/ \E m \in Manuals : BeginManual(m) \/ EndManual(m) \/ AwaitManual(m)
         \/ BeginClose \/ BackgroundCallIdle \/ ManualHasNothing
  PROVE  FilesOK' /\ NumbersOK'
<1> DEFINE Frame == UNCHANGED <<memory, numbers, version, flush, comp, pending, bgError, view,
                                bounds, disk>>
<1>1. scheduled \in BOOLEAN
  BY DEF FileInv, NumbersOK
<1>2. CASE \/ \E c \in Calls, k \in Kinds : Enqueue(c, k)
           \/ \E m \in Manuals : BeginManual(m)
           \/ BeginClose
  <2>1. Frame /\ scheduled' = scheduled /\ up = "open" /\ (up' = up \/ up' = "closing")
    BY <1>2 DEF Enqueue, BeginManual, BeginClose, background
  <2> QED BY <1>1, <2>1, QuietFiles
<1>3. CASE \E m \in Manuals : EndManual(m) \/ AwaitManual(m)
  <2>1. Frame /\ up' = up
    BY <1>3 DEF EndManual, AwaitManual, memory
  <2>2. up = "open"
    BY <1>3 DEF EndManual, AwaitManual, FileInv, RestOK
  <2>3. scheduled' \in BOOLEAN
    BY <1>1, <1>3 DEF EndManual, AwaitManual, MaybeScheduleCompaction
  <2> QED BY <2>1, <2>2, <2>3, QuietFiles
<1>4. CASE BackgroundCallIdle \/ ManualHasNothing
  <2>1. Frame /\ up' = up
    BY <1>4 DEF BackgroundCallIdle, ManualHasNothing, memory
  <2>2. up # "down"
    BY <1>4 DEF BackgroundCallIdle, ManualHasNothing, Running, FileInv, FilesOK, DownOK, Down
  <2>3. scheduled' \in BOOLEAN
    BY <1>4 DEF BackgroundCallIdle, ManualHasNothing, EndBackgroundCall, WorkToDo
  <2> QED BY <2>1, <2>2, <2>3, QuietFiles
<1> QED BY <1>2, <1>3, <1>4

\* A table gets a number of its own and is protected from deletion.
LEMMA FileCreated ==
  ASSUME FileInv, up # "down",
         nextFile' = nextFile + 1, pending' = pending \cup {nextFile},
         tables' = Put(tables, nextFile, {}),
         UNCHANGED <<mem, imm, mems, lastSeq, logNumber, version, scheduled, bgError, view, up,
                     bounds, logs, manifest>>
  PROVE  /\ NumbersOK' /\ LogsOK' /\ TablesOK' /\ ManifestOK' /\ MemoryOK' /\ ViewsOK' /\ DownOK'
         /\ DOMAIN tables' = DOMAIN tables \cup {nextFile}
         /\ nextFile \in Nat /\ nextFile \notin DOMAIN tables
         /\ nextFile \notin Files(version) \cup Named
         /\ Named' = Named /\ Candidates' = Candidates
<1> USE DEF FileInv, FilesOK
<1>1. nextFile \in Nat
  BY DEF NumbersOK
<1>2. NumbersOK'
  <2>1. nextFile' \in Nat
    BY <1>1
  <2>2. pending' \subseteq Nat
    BY <1>1 DEF NumbersOK
  <2> QED BY <2>1, <2>2 DEF NumbersOK, bounds
<1>3. /\ DOMAIN tables' = DOMAIN tables \cup {nextFile} /\ tables'[nextFile] = {}
      /\ \A n \in DOMAIN tables : n # nextFile => tables'[n] = tables[n]
  BY DEF Put
<1>4. LogsOK' /\ TablesOK'
  BY <1>1, <1>3 DEF LogsOK, TablesOK
<1>5. Candidates' = Candidates /\ Viewed' = Viewed /\ Named' = Named /\ HeldMems' = HeldMems
  BY DEF Candidates, Viewed, Named, HeldMems
<1>6. \A n \in DOMAIN tables \cup DOMAIN logs \cup DOMAIN mems : n < nextFile
  BY DEF MemoryOK
<1>7. nextFile \notin DOMAIN tables
  BY <1>1, <1>6
<1>8. Named \subseteq DOMAIN tables
  <2>1. \A m \in Candidates : Files(m) \subseteq DOMAIN tables
    BY DEF ManifestOK
  <2>2. \A v \in Viewed : v.files \subseteq DOMAIN tables
    BY ViewedTypes
  <2> QED BY <2>1, <2>2, NamedWithin
<1>9. ManifestOK' /\ ViewsOK' /\ DownOK'
  BY <1>3, <1>5 DEF ManifestOK, ViewsOK, DownOK
<1>10. MemoryOK'
  <2> USE DEF MemoryOK
  <2>1. \A n \in DOMAIN tables \cup DOMAIN logs \cup DOMAIN mems : n \in Nat
    BY DEF TablesOK, LogsOK, HeldMems, ViewsOK, Views, NumbersOK, Viewed
  <2>2. \A n \in DOMAIN tables' \cup DOMAIN logs' \cup DOMAIN mems' : n < nextFile'
    BY <1>1, <1>3, <1>6, <2>1
  <2>3. \A m \in Candidates' : m.next <= nextFile' /\ m.log \in {logNumber', mem'}
    <3>1. \A m \in Candidates : m.next \in Nat /\ m.next <= nextFile /\ m.log \in {logNumber, mem}
      BY CandidateTypes
    <3> QED BY <1>1, <1>5, <3>1
  <2> QED BY <1>3, <1>5, <2>2, <2>3
<1>11. Files(version) \subseteq DOMAIN tables
  BY DEF MemoryOK
<1> QED BY <1>1, <1>2, <1>3, <1>4, <1>5, <1>7, <1>8, <1>9, <1>10, <1>11

LEMMA StartFlushFiles ==
  ASSUME FileInv, StartFlush
  PROVE  FilesOK' /\ NumbersOK'
<1> USE DEF FileInv, FilesOK
<1>1. /\ flush = None /\ imm # None
      /\ flush' = [out |-> nextFile, installing |-> FALSE, edit |-> None, log |-> 0]
      /\ nextFile' = nextFile + 1 /\ pending' = pending \cup {nextFile}
      /\ tables' = Put(tables, nextFile, {})
      /\ comp' = IF comp = None THEN None ELSE [comp EXCEPT !.tried = TRUE]
      /\ UNCHANGED <<mem, imm, mems, lastSeq, logNumber, version, scheduled, bgError, view, up,
                     bounds, logs, manifest>>
  BY DEF StartFlush, memory
<1>2. up # "down"
  BY DEF StartFlush, DownOK, Down
<1>3. /\ NumbersOK' /\ LogsOK' /\ TablesOK' /\ ManifestOK' /\ MemoryOK' /\ ViewsOK' /\ DownOK'
      /\ DOMAIN tables' = DOMAIN tables \cup {nextFile}
      /\ nextFile \in Nat /\ nextFile \notin DOMAIN tables
      /\ nextFile \notin Files(version) \cup Named
      /\ Named' = Named /\ Candidates' = Candidates
  BY <1>1, <1>2, FileCreated
<1>4. comp # None =>
        /\ comp' \in Compactions
        /\ comp'.inputs = comp.inputs /\ comp'.base = comp.base /\ comp'.outs = comp.outs
        /\ comp'.state = comp.state /\ comp'.out = comp.out /\ comp'.edit = comp.edit
        /\ comp'.moves = comp.moves
  BY <1>1 DEF CompOK, Compactions
<1>5. comp' # None => comp # None
  BY <1>1
<1>6. comp # None => comp.state # "installing"
  BY DEF StartFlush, Running
<1>7. CompOK'
  BY <1>1, <1>3, <1>4, <1>5, <1>6 DEF CompOK
<1>8. FlushOK'
  <2>1. flush' \in Flushes /\ flush'.out = nextFile /\ flush'.installing = FALSE /\ nextFile < nextFile'
    BY <1>1, <1>3 DEF Flushes
  <2>2. comp' # None => nextFile # comp'.out /\ nextFile \notin comp'.base \cup comp'.outs
    BY <1>3, <1>4, <1>5, NoneAssumption DEF CompOK
  <2>3. comp' # None => comp'.state # "installing"
    BY <1>4, <1>5, <1>6
  <2> HIDE DEF Flushes
  <2> QED BY <1>1, <1>3, <2>1, <2>2, <2>3 DEF FlushOK
<1>9. EditsOK'
  BY <1>1, <1>2, <1>4, <1>5, <1>6 DEF EditsOK, Installing, Moving, Agrees
<1> QED BY <1>3, <1>7, <1>8, <1>9

LEMMA OpenOutputFiles ==
  ASSUME FileInv, OpenCompactionOutputFile
  PROVE  FilesOK' /\ NumbersOK'
<1> USE DEF FileInv, FilesOK
<1>1. /\ flush = None /\ comp # None /\ comp.state = "merging"
      /\ comp' = [comp EXCEPT !.state = "writing", !.out = nextFile, !.tried = FALSE]
      /\ nextFile' = nextFile + 1 /\ pending' = pending \cup {nextFile}
      /\ tables' = Put(tables, nextFile, {})
      /\ UNCHANGED <<flush, mem, imm, mems, lastSeq, logNumber, version, scheduled, bgError, view,
                     up, bounds, logs, manifest>>
  BY DEF OpenCompactionOutputFile, Merging, memory
<1>2. up # "down"
  BY <1>1 DEF DownOK, Down
<1>3. /\ NumbersOK' /\ LogsOK' /\ TablesOK' /\ ManifestOK' /\ MemoryOK' /\ ViewsOK' /\ DownOK'
      /\ DOMAIN tables' = DOMAIN tables \cup {nextFile}
      /\ nextFile \in Nat /\ nextFile \notin DOMAIN tables
      /\ nextFile \notin Files(version) \cup Named
      /\ Named' = Named /\ Candidates' = Candidates
  BY <1>1, <1>2, FileCreated
<1>4. /\ comp' \in Compactions
      /\ comp'.inputs = comp.inputs /\ comp'.base = comp.base /\ comp'.outs = comp.outs
      /\ comp'.state = "writing" /\ comp'.out = nextFile
  BY <1>1, <1>3 DEF CompOK, Compactions
<1>5. CompOK'
  BY <1>1, <1>3, <1>4, NoneAssumption DEF CompOK
<1>6. FlushOK' /\ EditsOK'
  BY <1>1, <1>2, <1>4 DEF FlushOK, EditsOK, Installing, Moving, Agrees
<1> QED BY <1>3, <1>5, <1>6

(* The manifest.                                                           *)

LEMMA ApplyEffect ==
  ASSUME NEW edit \in Edits, NEW v \in Versions
  PROVE  /\ Apply(edit, v) \in Versions
         /\ Apply(edit, v).l0 = (v.l0 \ edit.del) \cup edit.l0
         /\ Apply(edit, v).deep = (v.deep \ edit.del) \cup edit.deep
         /\ Files(Apply(edit, v)) \subseteq Files(v) \cup edit.l0 \cup edit.deep
BY DEF Edits, Versions, Apply, Files

\* The state an edit adds to the manifest.
LEMMA EditLogged ==
  ASSUME NumbersOK, ManifestOK, MemoryOK, up # "down",
         NEW edit \in Edits, IsFiniteSet(edit.l0), edit.l0 \cup edit.deep \subseteq DOMAIN tables',
         \A n \in edit.l0 \cup edit.deep : n < nextFile,
         NEW log \in {logNumber, mem}, nextFile' = nextFile, LogEdit(edit, log),
         \A m \in Candidates : Files(m) \subseteq DOMAIN tables'
  PROVE  /\ ManifestOK'
         /\ Len(manifest) \in Nat \ {0} /\ Len(manifest') = Len(manifest) + 1
         /\ manifest'[1] = manifest[1]
         /\ Last(manifest') = manifest'[Len(manifest) + 1]
         /\ Candidates' = Candidates \cup {Last(manifest')}
         /\ Last(manifest') \in Manifests
         /\ Last(manifest').l0 = (Last(manifest).l0 \ edit.del) \cup edit.l0
         /\ Last(manifest').deep = (Last(manifest).deep \ edit.del) \cup edit.deep
         /\ Last(manifest').log = log /\ Last(manifest').next = nextFile
         /\ Last(manifest').seq = lastSeq
         /\ Files(Last(manifest')) \subseteq Files(Last(manifest)) \cup edit.l0 \cup edit.deep
<1> DEFINE last == Last(manifest)
           x == [Apply(edit, last) EXCEPT !.log = log, !.next = nextFile', !.seq = lastSeq]
<1>1. /\ last \in Candidates /\ last \in Manifests
      /\ Len(manifest) \in Nat \ {0} /\ DOMAIN manifest = 1..Len(manifest)
  BY CandidateTypes
<1>2. manifest' = Append(manifest, x)
  BY DEF LogEdit
<1>3. log \in Nat /\ nextFile \in Nat /\ lastSeq \in Nat
  BY DEF NumbersOK
<1>4. /\ x \in Manifests
      /\ x.l0 = (last.l0 \ edit.del) \cup edit.l0
      /\ x.deep = (last.deep \ edit.del) \cup edit.deep
      /\ x.log = log /\ x.next = nextFile /\ x.seq = lastSeq
  <2> HIDE DEF last
  <2> QED BY <1>1, <1>3 DEF Manifests, Apply, Edits
<1>5. Files(x) \subseteq Files(last) \cup edit.l0 \cup edit.deep
  <2> HIDE DEF x, last
  <2> QED BY <1>4 DEF Files
<1> HIDE DEF x
<1>6. /\ manifest' \in Seq(Manifests) /\ Len(manifest') = Len(manifest) + 1
      /\ DOMAIN manifest' = 1..(Len(manifest) + 1)
      /\ \A i \in 1..Len(manifest) : manifest'[i] = manifest[i]
      /\ manifest'[Len(manifest) + 1] = x
  BY <1>1, <1>2, <1>4 DEF ManifestOK
<1>7. Last(manifest') = x /\ Last(manifest') = manifest'[Len(manifest) + 1]
  BY <1>6 DEF Last
<1>8. Candidates' = Candidates \cup {x}
  <2>1. ASSUME NEW m \in Candidates' PROVE m \in Candidates \cup {x}
    <3>1. PICK i \in DOMAIN manifest' : m = manifest'[i]
      BY DEF Candidates
    <3> QED BY <1>1, <1>6, <3>1 DEF Candidates
  <2>2. ASSUME NEW m \in Candidates \cup {x} PROVE m \in Candidates'
    <3>1. CASE m = x
      BY <1>1, <1>6, <3>1 DEF Candidates
    <3>2. CASE m \in Candidates
      BY <1>1, <1>6, <3>2 DEF Candidates
    <3> QED BY <3>1, <3>2
  <2> QED BY <2>1, <2>2
<1>9. IsFiniteSet(x.l0)
  <2>1. IsFiniteSet(last.l0)
    BY <1>1 DEF ManifestOK
  <2>2. IsFiniteSet(last.l0 \ edit.del)
    BY <2>1, FS_Subset
  <2>3. IsFiniteSet((last.l0 \ edit.del) \cup edit.l0)
    <3> DEFINE S == last.l0 \ edit.del
               T == edit.l0
    <3>1. IsFiniteSet(S) /\ IsFiniteSet(T)
      BY <2>2
    <3> HIDE DEF S, T
    <3>2. IsFiniteSet(S \cup T)
      BY <3>1, FS_Union
    <3> QED BY <3>2 DEF S, T
  <2> QED BY <1>4, <2>3
<1>10. Files(x) \subseteq DOMAIN tables'
  BY <1>1, <1>5
<1>11. \A n \in Files(x) : n < x.next
  <2>1. \A n \in Files(last) : n \in Nat /\ n < last.next
    <3> HIDE DEF last
    <3> QED BY <1>1 DEF ManifestOK, Manifests, Files
  <2>2. last.next \in Nat /\ last.next <= nextFile
    <3> HIDE DEF last
    <3> QED BY <1>1 DEF MemoryOK, Manifests
  <2>3. \A n \in Files(last) : n < nextFile
    BY <1>3, <2>1, <2>2
  <2> QED BY <1>4, <1>5, <2>3
<1>12. ManifestOK'
  <2>1. manifest' # <<>>
    BY <1>1, <1>6
  <2>2. ASSUME NEW m \in Candidates'
        PROVE  /\ IsFiniteSet(m.l0) /\ Files(m) \subseteq DOMAIN tables'
               /\ \A n \in Files(m) : n < m.next
    BY <1>8, <1>9, <1>10, <1>11, <2>2 DEF ManifestOK
  <2> QED BY <1>6, <2>1, <2>2 DEF ManifestOK
<1> QED BY <1>1, <1>4, <1>5, <1>6, <1>7, <1>8, <1>12

\* An edit is in the manifest, its installation to follow.
LEMMA NamedGrows ==
  ASSUME NEW x, Candidates' = Candidates \cup {x}, view' = view
  PROVE  Named' \subseteq Named \cup Files(x)
<1>1. Viewed' = Viewed
  BY DEF Viewed
<1>2. \A m \in Candidates' : Files(m) \subseteq Named \cup Files(x)
  BY NamedWithin
<1>3. \A v \in Viewed' : v.files \subseteq Named \cup Files(x)
  BY <1>1, NamedWithin
<1> QED BY <1>2, <1>3 DEF Named

LEMMA LogFlushFiles ==
  ASSUME FileInv, NEW level \in {0, 1}, LogFlush(level)
  PROVE  FilesOK' /\ NumbersOK'
<1> USE DEF FileInv, FilesOK
<1> DEFINE new == IF mems[imm] = {} THEN {} ELSE {flush.out}
           edit == [l0 |-> IF level = 0 THEN new ELSE {},
                    deep |-> IF level = 0 THEN {} ELSE new, del |-> {}]
<1>1. /\ flush # None /\ ~flush.installing /\ up = "open"
      /\ flush' = [flush EXCEPT !.installing = TRUE, !.edit = edit, !.log = mem]
      /\ nextFile' = nextFile /\ LogEdit(edit, mem)
      /\ BuildTable
      /\ pending' = pending \ {flush.out}
      /\ UNCHANGED <<mem, imm, mems, lastSeq, logNumber, version, scheduled, comp, bgError, view,
                     up, bounds, logs>>
  BY DEF LogFlush, Building, memory
<1>2. /\ flush \in Flushes /\ imm # None /\ flush.out \in Nat /\ flush.out < nextFile
      /\ flush.out \in DOMAIN tables /\ flush.out \notin Files(version) \cup Named
      /\ comp # None => /\ flush.out \notin comp.base \cup comp.outs /\ flush.out # comp.out
                        /\ comp.state # "installing"
  BY <1>1 DEF FlushOK, Flushes
<1>3. mem \in Nat /\ mem # None /\ mems[imm] \subseteq Entries
  BY <1>1, <1>2, MemHeld, NoneAssumption DEF NumbersOK, MemoryOK
<1>4. /\ DOMAIN tables' \subseteq DOMAIN tables /\ DOMAIN tables \ {flush.out} \subseteq DOMAIN tables'
      /\ new \subseteq DOMAIN tables' /\ new \subseteq {flush.out}
      /\ \A n \in DOMAIN tables' : tables'[n] \subseteq Entries
  <2>1. CASE mems[imm] = {}
    <3>1. tables' = Restrict(tables, DOMAIN tables \ {flush.out})
      BY <1>1, <2>1 DEF BuildTable
    <3>2. DOMAIN tables' = DOMAIN tables \ {flush.out}
          /\ \A n \in DOMAIN tables' : tables'[n] = tables[n]
      BY <3>1 DEF Restrict
    <3> QED BY <2>1, <3>2 DEF TablesOK
  <2>2. CASE mems[imm] # {}
    <3>1. tables' = [tables EXCEPT ![flush.out] = mems[imm]]
      BY <1>1, <2>2 DEF BuildTable
    <3> QED BY <1>2, <1>3, <2>2, <3>1 DEF TablesOK
  <2> QED BY <2>1, <2>2
<1>5. TablesOK' /\ LogsOK'
  BY <1>1, <1>4 DEF TablesOK, LogsOK
<1>6. /\ edit \in Edits /\ IsFiniteSet(edit.l0) /\ edit.del = {}
      /\ edit.l0 \cup edit.deep = new
  <2>1. new \subseteq Nat
    BY <1>2
  <2>2. IsFiniteSet(new) /\ IsFiniteSet({})
    BY FS_Singleton, FS_EmptySet
  <2> HIDE DEF new
  <2> QED BY <2>1, <2>2 DEF Edits
<1> HIDE DEF new, edit
<1>7. \A n \in edit.l0 \cup edit.deep : n < nextFile
  BY <1>2, <1>4, <1>6
<1>8. \A m \in Candidates : Files(m) \subseteq DOMAIN tables'
  BY <1>2, <1>4, NamedWithin DEF ManifestOK
<1>9. /\ ManifestOK'
      /\ Len(manifest) \in Nat \ {0} /\ Len(manifest') = Len(manifest) + 1
      /\ manifest'[1] = manifest[1]
      /\ Last(manifest') = manifest'[Len(manifest) + 1]
      /\ Candidates' = Candidates \cup {Last(manifest')}
      /\ Last(manifest') \in Manifests
      /\ Last(manifest').l0 = (Last(manifest).l0 \ edit.del) \cup edit.l0
      /\ Last(manifest').deep = (Last(manifest).deep \ edit.del) \cup edit.deep
      /\ Last(manifest').log = mem /\ Last(manifest').next = nextFile
      /\ Files(Last(manifest')) \subseteq Files(Last(manifest)) \cup edit.l0 \cup edit.deep
  BY <1>1, <1>4, <1>6, <1>7, <1>8, EditLogged
<1>10. Named' \subseteq Named \cup {flush.out}
  <2>1. Named' \subseteq Named \cup Files(Last(manifest'))
    BY <1>1, <1>9, NamedGrows
  <2>2. Files(Last(manifest)) \subseteq Named
    BY NamedWithin, CandidateTypes
  <2> QED BY <1>4, <1>6, <1>9, <2>1, <2>2
<1>11. NumbersOK'
  BY <1>1 DEF NumbersOK, bounds
<1>12. MemoryOK'
  <2>1. HeldMems' = HeldMems
    BY <1>1 DEF HeldMems, Viewed
  <2>2. Files(version) \subseteq DOMAIN tables'
    BY <1>1, <1>2, <1>4 DEF MemoryOK
  <2>3. nextFile <= nextFile
    BY DEF NumbersOK
  <2>4. \A m \in Candidates' : m.next <= nextFile /\ m.log \in {logNumber, mem}
    BY <1>1, <1>9, <2>3 DEF MemoryOK
  <2> QED BY <1>1, <1>4, <2>1, <2>2, <2>4 DEF MemoryOK
<1>13. ViewsOK'
  <2>1. \A r \in Readers : view[r] # None => view[r].files \subseteq Named
    BY NamedWithin DEF Viewed
  <2> QED BY <1>1, <1>2, <1>4, <2>1 DEF ViewsOK
<1>14. FlushOK'
  <2>1. /\ flush' \in Flushes /\ flush'.out = flush.out /\ flush'.installing = TRUE
        /\ flush'.edit = edit /\ flush'.log = mem
    BY <1>1, <1>2, <1>3, <1>6 DEF Flushes
  <2>2. edit.l0 \cup edit.deep \subseteq {flush.out} \cap DOMAIN tables'
    BY <1>4, <1>6
  <2>3. Len(manifest') >= 2
    BY <1>9
  <2> QED BY <1>1, <1>2, <1>6, <1>9, <2>1, <2>2, <2>3 DEF FlushOK
<1>15. CompOK'
  BY <1>1, <1>2, <1>4, <1>10 DEF CompOK
<1>16. EditsOK'
  <2> SUFFICES ASSUME ~bgError' PROVE EditsOK'
    BY DEF EditsOK
  <2>1. Len(manifest) = 1 /\ Agrees(manifest[1], version, logNumber)
    BY <1>1, <1>2 DEF EditsOK, Installing, Moving
  <2>2. flush'.installing = TRUE /\ flush'.edit = edit /\ (flush' # None => Installing')
    BY <1>1, <1>2 DEF Installing, Flushes
  <2>3. Last(manifest) = manifest[1] /\ Last(manifest') = manifest'[2] /\ Len(manifest') = 2
    BY <1>9, <2>1 DEF Last
  <2>4. version \in Versions
    BY DEF NumbersOK
  <2>5. Apply(edit, version).l0 = (version.l0 \ edit.del) \cup edit.l0
        /\ Apply(edit, version).deep = (version.deep \ edit.del) \cup edit.deep
    BY <1>6, <2>4, ApplyEffect
  <2>6. Agrees(manifest'[2], Apply(edit, version), mem)
    BY <1>9, <2>1, <2>3, <2>5 DEF Agrees
  <2>7. ~Moving'
    BY <1>1, <1>2 DEF Moving
  <2>8. flush' # None
    BY <1>1, <1>2, <1>3, <1>6, NoneAssumption DEF Flushes
  <2> QED BY <1>1, <1>9, <2>1, <2>2, <2>3, <2>6, <2>7, <2>8 DEF EditsOK, Agrees
<1>17. DownOK'
  BY <1>1 DEF DownOK
<1> QED BY <1>5, <1>9, <1>11, <1>12, <1>13, <1>14, <1>15, <1>16, <1>17

\* What a compaction leaves alone.
LEMMA CompFrame ==
  ASSUME FileInv, up # "down", up' = up, flush = None, flush' = None, nextFile' = nextFile,
         UNCHANGED <<mem, imm, mems, lastSeq, logNumber, version, scheduled, pending, bgError, view,
                     bounds, logs>>,
         DOMAIN tables' = DOMAIN tables, \A n \in DOMAIN tables : tables'[n] \subseteq Entries,
         ManifestOK', \A m \in Candidates' : m.next <= nextFile /\ m.log \in {logNumber, mem}
  PROVE  /\ NumbersOK' /\ LogsOK' /\ TablesOK' /\ MemoryOK' /\ ViewsOK' /\ FlushOK' /\ DownOK'
<1> USE DEF FileInv, FilesOK
<1>1. NumbersOK' /\ LogsOK' /\ TablesOK'
  BY DEF NumbersOK, bounds, LogsOK, TablesOK
<1>2. HeldMems' = HeldMems
  BY DEF HeldMems, Viewed
<1>3. MemoryOK'
  BY <1>2 DEF MemoryOK
<1> QED BY <1>1, <1>3 DEF ViewsOK, FlushOK, DownOK

LEMMA LastAgrees ==
  ASSUME FileInv, up # "down", ~bgError, ~Installing, ~Moving
  PROVE  Len(manifest) = 1 /\ Last(manifest) = manifest[1] /\ Agrees(manifest[1], version, logNumber)
BY DEF FileInv, FilesOK, EditsOK, Last

LEMMA StartCompactionFiles ==
  ASSUME FileInv, NEW inputs \in Inputs, StartCompaction(inputs)
  PROVE  FilesOK' /\ NumbersOK'
<1> USE DEF FileInv, FilesOK
<1>0. PICK moves \in {FALSE, MayMove(inputs)} :
         LET edit == [l0 |-> {}, deep |-> inputs, del |-> inputs]
         IN /\ comp' = [state |-> IF moves THEN "installing" ELSE "merging",
                        manual |-> manual, moves |-> moves,
                        base |-> Files(version), inputs |-> inputs,
                        left |-> UNION {tables[n] : n \in inputs},
                        out |-> None, outs |-> {}, tried |-> FALSE,
                        edit |-> IF moves THEN edit ELSE None]
            /\ UNCHANGED nextFile
            /\ IF moves THEN LogEdit(edit, logNumber) ELSE UNCHANGED manifest
  BY DEF StartCompaction
<1> DEFINE edit == [l0 |-> {}, deep |-> inputs, del |-> inputs]
           left == UNION {tables[n] : n \in inputs}
           x == [state |-> IF moves THEN "installing" ELSE "merging",
                 manual |-> manual, moves |-> moves,
                 base |-> Files(version), inputs |-> inputs, left |-> left,
                 out |-> None, outs |-> {}, tried |-> FALSE,
                 edit |-> IF moves THEN edit ELSE None]
<1>1. /\ flush = None /\ comp = None /\ up = "open" /\ ~bgError /\ imm = None
      /\ comp' = x /\ nextFile' = nextFile
      /\ IF moves THEN LogEdit(edit, logNumber) ELSE UNCHANGED manifest
      /\ UNCHANGED <<mem, imm, mems, lastSeq, logNumber, version, scheduled, pending, bgError, view,
                     up, bounds, logs, flush, tables>>
  BY <1>0 DEF StartCompaction, Running, memory
<1>2. /\ inputs \subseteq Files(version) /\ Files(version) \subseteq DOMAIN tables
      /\ inputs \subseteq DOMAIN tables /\ inputs \subseteq Nat
      /\ Files(version) \subseteq Nat
  <2>1. inputs \subseteq Files(version)
    BY DEF Inputs, Files
  <2> QED BY <1>1, <2>1 DEF MemoryOK, TablesOK
<1>3. left \subseteq Entries
  <2>1. \A n \in inputs : tables[n] \subseteq Entries
    BY <1>2 DEF TablesOK
  <2> HIDE DEF Entries
  <2> QED BY <2>1
<1>4. edit \in Edits /\ edit.l0 = {} /\ edit.deep = inputs /\ edit.del = inputs
  BY <1>2 DEF Edits
<1>5. manual \in Manuals \cup {None}
  BY DEF CallsOK
<1>6. moves \in BOOLEAN
  BY DEF MayMove
<1> HIDE DEF edit, left
<1>7. /\ x \in Compactions
      /\ x.state = IF moves THEN "installing" ELSE "merging"
      /\ x.moves = moves /\ x.base = Files(version) /\ x.inputs = inputs
      /\ x.out = None /\ x.outs = {} /\ x.edit = IF moves THEN edit ELSE None
  <2> HIDE DEF Edits
  <2> QED BY <1>2, <1>3, <1>4, <1>5, <1>6 DEF Compactions
<1>8. x # None
  <2> HIDE DEF x
  <2> QED BY <1>7, NoneAssumption
<1> HIDE DEF x
<1>9. CASE ~moves
  <2>1. manifest' = manifest
    BY <1>1, <1>9
  <2>2. Candidates' = Candidates /\ Named' = Named
    BY <1>1, <2>1 DEF Candidates, Named, Viewed
  <2>3. ManifestOK' /\ \A m \in Candidates' : m.next <= nextFile /\ m.log \in {logNumber, mem}
    BY <1>1, <2>1, <2>2 DEF ManifestOK, MemoryOK
  <2>4. NumbersOK' /\ LogsOK' /\ TablesOK' /\ MemoryOK' /\ ViewsOK' /\ FlushOK' /\ DownOK'
    <3>1. \A n \in DOMAIN tables : tables'[n] \subseteq Entries
      BY <1>1 DEF TablesOK
    <3> QED BY <1>1, <2>3, <3>1, CompFrame
  <2>5. CompOK'
    BY <1>1, <1>2, <1>7, <1>9 DEF CompOK
  <2>6. EditsOK'
    BY <1>1, <1>7, <1>9, <2>1 DEF EditsOK, Installing, Moving, Agrees
  <2> QED BY <2>3, <2>4, <2>5, <2>6
<1>10. CASE moves
  <2>1. LogEdit(edit, logNumber)
    BY <1>1, <1>10
  <2>2. /\ IsFiniteSet(edit.l0) /\ edit.l0 \cup edit.deep \subseteq DOMAIN tables'
        /\ \A n \in edit.l0 \cup edit.deep : n < nextFile
        /\ \A m \in Candidates : Files(m) \subseteq DOMAIN tables'
    <3>1. \A n \in inputs : n < nextFile
      BY <1>1, <1>2 DEF MemoryOK
    <3> QED BY <1>1, <1>2, <1>4, <3>1, FS_EmptySet DEF ManifestOK
  <2>3. /\ ManifestOK'
        /\ Len(manifest) \in Nat \ {0} /\ Len(manifest') = Len(manifest) + 1
        /\ manifest'[1] = manifest[1]
        /\ Last(manifest') = manifest'[Len(manifest) + 1]
        /\ Candidates' = Candidates \cup {Last(manifest')}
        /\ Last(manifest').l0 = (Last(manifest).l0 \ edit.del) \cup edit.l0
        /\ Last(manifest').deep = (Last(manifest).deep \ edit.del) \cup edit.deep
        /\ Last(manifest').log = logNumber /\ Last(manifest').next = nextFile
    BY <1>1, <1>4, <2>1, <2>2, EditLogged
  <2>4. \A m \in Candidates' : m.next <= nextFile /\ m.log \in {logNumber, mem}
    <3>1. nextFile <= nextFile
      BY DEF NumbersOK
    <3> QED BY <1>1, <2>3, <3>1 DEF MemoryOK
  <2>5. NumbersOK' /\ LogsOK' /\ TablesOK' /\ MemoryOK' /\ ViewsOK' /\ FlushOK' /\ DownOK'
    <3>1. \A n \in DOMAIN tables : tables'[n] \subseteq Entries
      BY <1>1 DEF TablesOK
    <3> QED BY <1>1, <2>3, <2>4, <3>1, CompFrame
  <2>6. CompOK'
    <3>1. Len(manifest') >= 2
      BY <2>3
    <3> QED BY <1>1, <1>2, <1>4, <1>7, <1>10, <3>1 DEF CompOK
  <2>7. EditsOK'
    <3>1. Len(manifest) = 1 /\ Last(manifest) = manifest[1] /\ Agrees(manifest[1], version, logNumber)
      BY <1>1, LastAgrees DEF Installing, Moving
    <3>2. version \in Versions
      BY DEF NumbersOK
    <3>4. Last(manifest') = manifest'[2] /\ Len(manifest') = 2
      BY <2>3, <3>1
    <3>5. Apply(edit, version).l0 = (version.l0 \ edit.del) \cup edit.l0
          /\ Apply(edit, version).deep = (version.deep \ edit.del) \cup edit.deep
      BY <1>4, <3>2, ApplyEffect
    <3>3. Agrees(manifest'[2], Apply(edit, version), logNumber)
      BY <2>3, <3>1, <3>4, <3>5 DEF Agrees
    <3> QED BY <1>1, <1>7, <1>8, <1>10, <2>3, <3>1, <3>3 DEF EditsOK, Installing, Moving, Agrees
  <2> QED BY <2>3, <2>5, <2>6, <2>7
<1> QED BY <1>9, <1>10

LEMMA LogCompactionFiles ==
  ASSUME FileInv, LogCompaction
  PROVE  FilesOK' /\ NumbersOK'
<1> USE DEF FileInv, FilesOK
<1> DEFINE edit == [l0 |-> {}, deep |-> comp.outs, del |-> comp.inputs]
<1>1. /\ flush = None /\ comp # None /\ comp.state = "merging" /\ comp.left = {}
      /\ comp' = [comp EXCEPT !.state = "installing", !.edit = edit] /\ nextFile' = nextFile
      /\ LogEdit(edit, logNumber)
      /\ UNCHANGED <<mem, imm, mems, lastSeq, logNumber, version, scheduled, pending, bgError, view,
                     up, bounds, logs, flush, tables>>
  BY DEF LogCompaction, Merging, memory
<1>2. up # "down"
  BY <1>1 DEF DownOK, Down
<1>3. /\ comp \in Compactions /\ comp.outs \subseteq Nat /\ comp.inputs \subseteq Nat
      /\ comp.base \cup comp.outs \subseteq DOMAIN tables /\ comp.out = None
  BY <1>1 DEF CompOK, Compactions
<1>4. edit \in Edits /\ edit.l0 = {} /\ edit.deep = comp.outs /\ edit.del = comp.inputs
  BY <1>3 DEF Edits
<1> HIDE DEF edit
<1>5. /\ comp' \in Compactions /\ comp'.state = "installing" /\ comp'.edit = edit
      /\ comp'.inputs = comp.inputs /\ comp'.base = comp.base /\ comp'.outs = comp.outs
      /\ comp'.out = None /\ comp'.moves = comp.moves
  <2> HIDE DEF Edits
  <2> QED BY <1>1, <1>3, <1>4 DEF Compactions
<1>6. comp' # None
  BY <1>5, NoneAssumption
<1>7. /\ IsFiniteSet(edit.l0) /\ edit.l0 \cup edit.deep \subseteq DOMAIN tables'
      /\ \A n \in edit.l0 \cup edit.deep : n < nextFile
      /\ \A m \in Candidates : Files(m) \subseteq DOMAIN tables'
  <2>1. \A n \in comp.outs : n < nextFile
    BY <1>2, <1>3 DEF MemoryOK
  <2> QED BY <1>1, <1>3, <1>4, <2>1, FS_EmptySet DEF ManifestOK
<1>8. /\ ManifestOK'
      /\ Len(manifest) \in Nat \ {0} /\ Len(manifest') = Len(manifest) + 1
      /\ manifest'[1] = manifest[1]
      /\ Last(manifest') = manifest'[Len(manifest) + 1]
      /\ Candidates' = Candidates \cup {Last(manifest')}
      /\ Last(manifest').l0 = (Last(manifest).l0 \ edit.del) \cup edit.l0
      /\ Last(manifest').deep = (Last(manifest).deep \ edit.del) \cup edit.deep
      /\ Last(manifest').log = logNumber /\ Last(manifest').next = nextFile
  BY <1>1, <1>2, <1>4, <1>7, EditLogged
<1>9. \A m \in Candidates' : m.next <= nextFile /\ m.log \in {logNumber, mem}
  <2>1. nextFile <= nextFile
    BY DEF NumbersOK
  <2> QED BY <1>2, <1>8, <2>1 DEF MemoryOK
<1>10. NumbersOK' /\ LogsOK' /\ TablesOK' /\ MemoryOK' /\ ViewsOK' /\ FlushOK' /\ DownOK'
  <2>1. \A n \in DOMAIN tables : tables'[n] \subseteq Entries
    BY <1>1 DEF TablesOK
  <2> QED BY <1>1, <1>2, <1>8, <1>9, <2>1, CompFrame
<1>11. CompOK'
  <2>1. Len(manifest') >= 2
    BY <1>8
  <2> QED BY <1>1, <1>3, <1>4, <1>5, <2>1 DEF CompOK
<1>12. EditsOK'
  <2> SUFFICES ASSUME ~bgError PROVE EditsOK'
    BY <1>1 DEF EditsOK
  <2>1. Len(manifest) = 1 /\ Last(manifest) = manifest[1] /\ Agrees(manifest[1], version, logNumber)
    BY <1>1, <1>2, LastAgrees DEF Installing, Moving
  <2>2. version \in Versions
    BY DEF NumbersOK
  <2>4. Last(manifest') = manifest'[2] /\ Len(manifest') = 2
    BY <1>8, <2>1
  <2>5. Apply(edit, version).l0 = (version.l0 \ edit.del) \cup edit.l0
        /\ Apply(edit, version).deep = (version.deep \ edit.del) \cup edit.deep
    BY <1>4, <2>2, ApplyEffect
  <2>3. Agrees(manifest'[2], Apply(edit, version), logNumber)
    BY <1>8, <2>1, <2>4, <2>5 DEF Agrees
  <2> QED BY <1>1, <1>2, <1>5, <1>6, <1>8, <2>1, <2>3 DEF EditsOK, Installing, Moving, Agrees
<1> QED BY <1>8, <1>10, <1>11, <1>12

LEMMA FinishOutputFiles ==
  ASSUME FileInv, NEW part, FinishCompactionOutputFile(part)
  PROVE  FilesOK' /\ NumbersOK'
<1> USE DEF FileInv, FilesOK
<1>1. /\ flush = None /\ comp # None /\ comp.state = "writing"
      /\ part \subseteq comp.left
      /\ tables' = [n \in DOMAIN tables |-> IF n = comp.out THEN part ELSE tables[n]]
      /\ comp' = [comp EXCEPT !.state = "merging", !.left = @ \ part,
                              !.outs = @ \cup {comp.out}, !.out = None, !.tried = FALSE]
      /\ UNCHANGED <<mem, imm, mems, lastSeq, nextFile, logNumber, version, scheduled, pending,
                     bgError, view, up, bounds, logs, flush, manifest>>
  BY DEF FinishCompactionOutputFile, Merging, memory, numbers
<1>2. up # "down"
  BY <1>1 DEF DownOK, Down
<1>3. /\ comp \in Compactions /\ comp.out \in DOMAIN tables /\ comp.out \in Nat /\ comp.out # None
      /\ comp.left \subseteq Entries
  BY <1>1 DEF CompOK, Compactions, TablesOK
<1>4. /\ comp' \in Compactions /\ comp'.state = "merging" /\ comp'.out = None
      /\ comp'.inputs = comp.inputs /\ comp'.base = comp.base /\ comp'.outs = comp.outs \cup {comp.out}
  <2> HIDE DEF Edits, Entries
  <2> QED BY <1>1, <1>3 DEF Compactions
<1>5. Candidates' = Candidates /\ Named' = Named
  BY <1>1 DEF Candidates, Named, Viewed
<1>6. ManifestOK' /\ \A m \in Candidates' : m.next <= nextFile /\ m.log \in {logNumber, mem}
  BY <1>1, <1>2, <1>5 DEF ManifestOK, MemoryOK
<1>7. NumbersOK' /\ LogsOK' /\ TablesOK' /\ MemoryOK' /\ ViewsOK' /\ FlushOK' /\ DownOK'
  <2>1. \A n \in DOMAIN tables : tables'[n] \subseteq Entries
    BY <1>1, <1>3 DEF TablesOK
  <2> QED BY <1>1, <1>2, <1>6, <2>1, CompFrame
<1>8. CompOK'
  BY <1>1, <1>3, <1>4 DEF CompOK
<1>9. EditsOK'
  BY <1>1, <1>2, <1>4 DEF EditsOK, Installing, Moving, Agrees
<1> QED BY <1>6, <1>7, <1>8, <1>9

(* The end of a flush or of a compaction.                                  *)

LEMMA ObsoleteEffect ==
  ASSUME NEW f, DOMAIN f \subseteq Nat, \A n \in DOMAIN f : f[n] \subseteq Entries,
         NEW l, DOMAIN l \subseteq Nat, IsFiniteSet(DOMAIN l),
         \A n \in DOMAIN l : /\ l[n] \in [recs: Seq(Records), synced: Nat]
                             /\ l[n].synced <= Len(l[n].recs)
                             /\ \A i \in DOMAIN l[n].recs : IsFiniteSet(l[n].recs[i].entries),
         DeleteObsoleteFiles(f, l)
  PROVE  /\ TablesOK' /\ LogsOK'
         /\ DOMAIN tables' \subseteq DOMAIN f /\ DOMAIN f \cap LiveTables' \subseteq DOMAIN tables'
         /\ \A n \in DOMAIN tables' : tables'[n] = f[n]
         /\ DOMAIN logs' \subseteq DOMAIN l
         /\ \A n \in DOMAIN l : n >= logNumber' => n \in DOMAIN logs'
         /\ \A n \in DOMAIN logs' : logs'[n] = l[n]
         /\ bgError' => tables' = f /\ logs' = l
         /\ ~bgError' => DOMAIN tables' \subseteq LiveTables'
<1>1. CASE bgError'
  <2>1. tables' = f /\ logs' = l
    BY <1>1 DEF DeleteObsoleteFiles
  <2>2. TablesOK' /\ LogsOK'
    BY <2>1 DEF TablesOK, LogsOK
  <2>3. \A n \in DOMAIN tables' : tables'[n] = f[n]
    BY <2>1
  <2>4. \A n \in DOMAIN logs' : logs'[n] = l[n]
    BY <2>1
  <2> QED BY <1>1, <2>1, <2>2, <2>3, <2>4
<1>2. CASE ~bgError'
  <2>1. /\ tables' = Restrict(f, DOMAIN f \cap LiveTables')
        /\ logs' = Restrict(l, {n \in DOMAIN l : n >= logNumber'})
    BY <1>2 DEF DeleteObsoleteFiles
  <2> DEFINE T == LiveTables'
             L == {n \in DOMAIN l : n >= logNumber'}
  <2> HIDE DEF T
  <2>2. DOMAIN tables' = DOMAIN f \cap T /\ \A n \in DOMAIN tables' : tables'[n] = f[n]
    BY <2>1 DEF Restrict, T
  <2>3. DOMAIN logs' = L /\ \A n \in DOMAIN logs' : logs'[n] = l[n]
    BY <2>1 DEF Restrict
  <2>4. L \subseteq DOMAIN l /\ IsFiniteSet(L)
    BY FS_Subset
  <2>5. TablesOK'
    BY <2>2 DEF TablesOK
  <2>6. LogsOK'
    BY <2>3, <2>4 DEF LogsOK
  <2> QED BY <1>2, <2>2, <2>3, <2>5, <2>6 DEF T
<1> QED BY <1>1, <1>2

LEMMA PrefixEffect ==
  ASSUME NEW S, NEW s \in Seq(S), NEW k \in 0..Len(s)
  PROVE  /\ SubSeq(s, 1, k) \in Seq(S) /\ Len(SubSeq(s, 1, k)) = k
         /\ DOMAIN SubSeq(s, 1, k) = 1..k
         /\ \A i \in 1..k : SubSeq(s, 1, k)[i] = s[i]
OBVIOUS

\* The manifest without its last state.
LEMMA FrontEffect ==
  ASSUME ManifestOK,
         manifest' = manifest \/ (Len(manifest) >= 2 /\ manifest' = Front(manifest))
  PROVE  /\ manifest' \in Seq(Manifests) /\ manifest' # <<>>
         /\ Candidates' \subseteq Candidates /\ manifest'[1] = manifest[1]
<1>1. CASE manifest' = manifest
  BY <1>1 DEF ManifestOK, Candidates
<1>2. CASE Len(manifest) >= 2 /\ manifest' = Front(manifest)
  <2>1. /\ Len(manifest) \in Nat /\ DOMAIN manifest = 1..Len(manifest)
        /\ \A i \in 1..Len(manifest) : manifest[i] \in Manifests
    BY DEF ManifestOK
  <2>2. manifest' = SubSeq(manifest, 1, Len(manifest) - 1)
    BY <1>2 DEF Front
  <2>3. manifest' \in Seq(Manifests) /\ Len(manifest') = Len(manifest) - 1
        /\ \A i \in 1..(Len(manifest) - 1) : manifest'[i] = manifest[i]
    <3> DEFINE k == Len(manifest) - 1
    <3>1. k \in 0..Len(manifest) /\ manifest \in Seq(Manifests)
      BY <1>2, <2>1 DEF ManifestOK
    <3>2. manifest' = SubSeq(manifest, 1, k)
      BY <2>2
    <3> HIDE DEF k
    <3>3. manifest' \in Seq(Manifests) /\ Len(manifest') = k
          /\ \A i \in 1..k : manifest'[i] = manifest[i]
      BY <3>1, <3>2, PrefixEffect
    <3> QED BY <3>3 DEF k
  <2>4. DOMAIN manifest' = 1..(Len(manifest) - 1) /\ 1 \in 1..(Len(manifest) - 1)
    BY <1>2, <2>1, <2>3
  <2>5. Candidates' \subseteq Candidates
    <3>1. ASSUME NEW m \in Candidates' PROVE m \in Candidates
      <4>1. PICK i \in DOMAIN manifest' : m = manifest'[i]
        BY DEF Candidates
      <4>2. i \in DOMAIN manifest /\ m = manifest[i]
        BY <2>1, <2>3, <2>4, <4>1
      <4> QED BY <4>2 DEF Candidates
    <3> QED BY <3>1
  <2> QED BY <1>2, <2>1, <2>3, <2>4, <2>5
<1> QED BY <1>1, <1>2

\* An error is noted; whatever the manifest may be read back as stays readable.
LEMMA FailFrame ==
  ASSUME FileInv, up # "down", up' = up, bgError' = TRUE, scheduled' \in BOOLEAN,
         UNCHANGED <<mem, imm, mems, lastSeq, nextFile, logNumber, version, view, bounds, logs>>,
         pending' \subseteq pending, flush' = None,
         DOMAIN tables' \subseteq DOMAIN tables, Named \cup Files(version) \subseteq DOMAIN tables',
         \A n \in DOMAIN tables' : tables'[n] \subseteq Entries,
         manifest' = manifest \/ (Len(manifest) >= 2 /\ manifest' = Front(manifest))
  PROVE  /\ NumbersOK' /\ LogsOK' /\ TablesOK' /\ ManifestOK' /\ MemoryOK' /\ ViewsOK' /\ FlushOK'
         /\ EditsOK' /\ DownOK'
         /\ Named' \subseteq Named
<1> USE DEF FileInv, FilesOK
<1>1. NumbersOK'
  BY DEF NumbersOK, bounds
<1>2. LogsOK' /\ TablesOK'
  BY DEF LogsOK, TablesOK
<1>3. /\ manifest' \in Seq(Manifests) /\ manifest' # <<>> /\ Candidates' \subseteq Candidates
  BY FrontEffect
<1>4. Viewed' = Viewed /\ HeldMems' = HeldMems
  BY DEF Viewed, HeldMems
<1>5. Named' \subseteq Named
  <2>1. (\A m \in Candidates' : Files(m) \subseteq Named) /\ (\A v \in Viewed' : v.files \subseteq Named)
    BY <1>3, <1>4, NamedWithin
  <2> QED BY <2>1 DEF Named
<1>6. ManifestOK'
  <2>1. \A m \in Candidates' : Files(m) \subseteq DOMAIN tables'
    BY <1>3, NamedWithin
  <2> QED BY <1>3, <2>1 DEF ManifestOK
<1>7. MemoryOK'
  BY <1>3, <1>4 DEF MemoryOK
<1>8. ViewsOK'
  <2>1. \A r \in Readers : view[r] # None => view[r].files \subseteq Named
    BY NamedWithin DEF Viewed
  <2> QED BY <2>1 DEF ViewsOK
<1>9. FlushOK' /\ EditsOK' /\ DownOK'
  BY DEF FlushOK, EditsOK, DownOK
<1> QED BY <1>1, <1>2, <1>5, <1>6, <1>7, <1>8, <1>9

LEMMA NamedPresent ==
  ASSUME FilesOK, up # "down"
  PROVE  Named \cup Files(version) \subseteq DOMAIN tables
<1>1. \A v \in Viewed : v.files \subseteq DOMAIN tables
  BY ViewedTypes DEF FilesOK
<1>2. \A m \in Candidates : Files(m) \subseteq DOMAIN tables
  BY DEF FilesOK, ManifestOK
<1>3. Named \subseteq DOMAIN tables
  BY <1>1, <1>2, NamedWithin
<1> QED BY <1>3 DEF FilesOK, MemoryOK

LEMMA FlushFailsFiles ==
  ASSUME FileInv, BuildTableFails \/ FlushAborted \/ FlushEditFails
  PROVE  FilesOK' /\ NumbersOK'
<1> USE DEF FileInv, FilesOK
<1>1. /\ flush # None /\ flush' = None /\ bgError' = TRUE
      /\ UNCHANGED <<mem, imm, mems, lastSeq, nextFile, logNumber, version, view, up, bounds, logs,
                     comp>>
  BY DEF BuildTableFails, FlushAborted, FlushEditFails, FlushFails, EditFails, Building, numbers
<1>2. scheduled' \in BOOLEAN
  BY DEF BuildTableFails, FlushAborted, FlushEditFails, FlushFails, EndBackgroundCall, WorkToDo,
         NumbersOK
<1>3. up # "down" /\ imm # None
  BY <1>1 DEF DownOK, Down, FlushOK
<1>4. /\ flush \in Flushes /\ flush.out \in Nat
      /\ comp # None => flush.out # comp.out /\ comp.state # "installing"
  BY <1>1 DEF FlushOK, Flushes
<1>5. mems[imm] \subseteq Entries
  BY <1>3, MemHeld DEF MemoryOK
<1>6. CASE FlushEditFails
  <2>1. flush.installing /\ tables' = tables /\ pending' = pending
        /\ (manifest' = manifest \/ (Len(manifest) >= 2 /\ manifest' = Front(manifest)))
    BY <1>6 DEF FlushEditFails, EditFails, FlushOK
  <2>2. Named \cup Files(version) \subseteq DOMAIN tables'
    BY <1>3, <2>1, NamedPresent
  <2>3. \A n \in DOMAIN tables' : tables'[n] \subseteq Entries
    BY <2>1 DEF TablesOK
  <2>4. /\ NumbersOK' /\ LogsOK' /\ TablesOK' /\ ManifestOK' /\ MemoryOK' /\ ViewsOK' /\ FlushOK'
        /\ EditsOK' /\ DownOK' /\ Named' \subseteq Named
    BY <1>1, <1>2, <1>3, <2>1, <2>2, <2>3, FailFrame
  <2>5. CompOK'
    BY <1>1, <1>4, <2>1, <2>4 DEF CompOK
  <2> QED BY <2>4, <2>5
<1>7. CASE BuildTableFails \/ FlushAborted
  <2>1. ~flush.installing /\ pending' = pending \ {flush.out} /\ manifest' = manifest
    BY <1>7 DEF BuildTableFails, FlushAborted, Building
  <2>2. /\ flush.out \in DOMAIN tables /\ flush.out \notin Files(version) \cup Named
        /\ comp # None => flush.out \notin comp.base \cup comp.outs
    BY <1>1, <2>1 DEF FlushOK
  <2>3. \/ tables' = Restrict(tables, DOMAIN tables \ {flush.out})
        \/ tables' = [tables EXCEPT ![flush.out] = mems[imm]]
    BY <1>7 DEF BuildTableFails, FlushAborted, BuildTable
  <2>4. /\ DOMAIN tables' \subseteq DOMAIN tables
        /\ DOMAIN tables \ {flush.out} \subseteq DOMAIN tables'
        /\ \A n \in DOMAIN tables' : tables'[n] \subseteq Entries
    <3>1. CASE tables' = Restrict(tables, DOMAIN tables \ {flush.out})
      BY <3>1 DEF TablesOK, Restrict
    <3>2. CASE tables' = [tables EXCEPT ![flush.out] = mems[imm]]
      BY <1>5, <3>2 DEF TablesOK
    <3> QED BY <2>3, <3>1, <3>2
  <2>5. Named \cup Files(version) \subseteq DOMAIN tables'
    BY <1>3, <2>2, <2>4, NamedPresent
  <2>6. /\ NumbersOK' /\ LogsOK' /\ TablesOK' /\ ManifestOK' /\ MemoryOK' /\ ViewsOK' /\ FlushOK'
        /\ EditsOK' /\ DownOK' /\ Named' \subseteq Named
    BY <1>1, <1>2, <1>3, <2>1, <2>4, <2>5, FailFrame
  <2>7. CompOK'
    BY <1>1, <1>4, <2>1, <2>2, <2>4, <2>6 DEF CompOK
  <2> QED BY <2>6, <2>7
<1> QED BY <1>6, <1>7

LEMMA CompactionFailsFiles ==
  ASSUME FileInv, CompactionEditFails \/ CompactionFails
  PROVE  FilesOK' /\ NumbersOK'
<1> USE DEF FileInv, FilesOK
<1>1. /\ comp # None /\ comp' = None /\ bgError' = TRUE
      /\ UNCHANGED <<mem, imm, mems, lastSeq, nextFile, logNumber, version, view, up, bounds, flush>>
      /\ pending' = pending \ (comp.outs \cup {comp.out})
      /\ (UNCHANGED <<tables, logs>> \/ DeleteObsoleteFiles(tables, logs))
  BY DEF CompactionEditFails, CompactionFails, CompactionBreaks, Merging, EndCompaction, EditFails
<1>2. tables' = tables /\ logs' = logs
  BY <1>1 DEF DeleteObsoleteFiles
<1>3. scheduled' \in BOOLEAN
  BY DEF CompactionEditFails, CompactionFails, EndCompaction, EndBackgroundCall, WorkToDo
<1>4. flush = None
  BY DEF CompactionEditFails, CompactionFails, CompactionBreaks, Merging, FlushOK
<1>5. up # "down"
  BY <1>1 DEF DownOK, Down
<1>6. manifest' = manifest \/ (Len(manifest) >= 2 /\ manifest' = Front(manifest))
  BY <1>1 DEF CompactionEditFails, CompactionFails, EditFails, CompOK
<1>7. /\ Named \cup Files(version) \subseteq DOMAIN tables'
      /\ \A n \in DOMAIN tables' : tables'[n] \subseteq Entries
  BY <1>2, <1>5, NamedPresent DEF TablesOK
<1>8. /\ NumbersOK' /\ LogsOK' /\ TablesOK' /\ ManifestOK' /\ MemoryOK' /\ ViewsOK' /\ FlushOK'
      /\ EditsOK' /\ DownOK'
  BY <1>1, <1>2, <1>3, <1>4, <1>5, <1>6, <1>7, FailFrame
<1>9. CompOK'
  BY <1>1 DEF CompOK
<1> QED BY <1>8, <1>9

\* The manifest says what its last state said, and the version follows it.
LEMMA EditTaken ==
  ASSUME NumbersOK, ManifestOK, manifest' = <<Last(manifest)>>
  PROVE  /\ Candidates' = {Last(manifest)} /\ Candidates' \subseteq Candidates
         /\ manifest' \in Seq(Manifests) /\ manifest' # <<>> /\ Len(manifest') = 1
         /\ manifest'[1] = Last(manifest)
<1>1. Last(manifest) \in Candidates /\ Last(manifest) \in Manifests
  BY CandidateTypes
<1>2. Len(manifest') = 1 /\ DOMAIN manifest' = {1} /\ manifest'[1] = Last(manifest)
  OBVIOUS
<1>3. Candidates' = {Last(manifest)}
  BY <1>2 DEF Candidates
<1>4. manifest' \in Seq(Manifests)
  BY <1>1
<1> QED BY <1>1, <1>2, <1>3, <1>4

\* A version and a manifest made of what was there and is still there.
LEMMA InstallFrame ==
  ASSUME FileInv, up # "down", NEW edit \in Edits, IsFiniteSet(edit.l0),
         edit.l0 \cup edit.deep \subseteq DOMAIN tables,
         manifest' = <<Last(manifest)>>, version' = Apply(edit, version),
         bgError' = bgError, scheduled' \in BOOLEAN, logNumber' \in Nat,
         UNCHANGED <<up, mem, view, lastSeq, nextFile, bounds>>,
         imm' \in {imm, None}, pending' \subseteq pending,
         TablesOK', LogsOK', DOMAIN tables' \subseteq DOMAIN tables,
         ~bgError => DOMAIN tables \cap LiveTables' \subseteq DOMAIN tables',
         bgError => tables' = tables,
         ~bgError => Agrees(Last(manifest), version', logNumber')
  PROVE  /\ NumbersOK' /\ ManifestOK' /\ ViewsOK' /\ DownOK'
         /\ Files(version') \subseteq DOMAIN tables'
         /\ Files(version') \subseteq Files(version) \cup edit.l0 \cup edit.deep
         /\ Candidates' = {Last(manifest)} /\ Candidates' \subseteq Candidates
         /\ Len(manifest') = 1 /\ manifest'[1] = Last(manifest)
         /\ Named' \subseteq Named /\ Viewed' = Viewed
<1> USE DEF FileInv, FilesOK
<1>1. /\ Candidates' = {Last(manifest)} /\ Candidates' \subseteq Candidates
      /\ manifest' \in Seq(Manifests) /\ manifest' # <<>> /\ Len(manifest') = 1
      /\ manifest'[1] = Last(manifest)
  BY EditTaken
<1>2. Viewed' = Viewed
  BY DEF Viewed
<1>3. Named' \subseteq Named
  <2>1. (\A m \in Candidates' : Files(m) \subseteq Named) /\ (\A v \in Viewed' : v.files \subseteq Named)
    BY <1>1, <1>2, NamedWithin
  <2> QED BY <2>1 DEF Named
<1>4. version \in Versions /\ IsFiniteSet(version.l0)
  BY DEF NumbersOK
<1>5. /\ version' \in Versions /\ version'.l0 = (version.l0 \ edit.del) \cup edit.l0
      /\ Files(version') \subseteq Files(version) \cup edit.l0 \cup edit.deep
  BY <1>4, ApplyEffect
<1>6. IsFiniteSet(version'.l0)
  <2> DEFINE S == version.l0 \ edit.del
             T == edit.l0
  <2>1. IsFiniteSet(S) /\ IsFiniteSet(T)
    BY <1>4, FS_Subset
  <2> HIDE DEF S, T
  <2>2. IsFiniteSet(S \cup T)
    BY <2>1, FS_Union
  <2> QED BY <1>5, <2>2 DEF S, T
<1>7. NumbersOK'
  <2>1. pending' \subseteq Nat /\ imm' \in Nat \cup {None}
    BY DEF NumbersOK
  <2>2. bgError' \in BOOLEAN
    BY DEF NumbersOK
  <2> QED BY <1>5, <1>6, <2>1, <2>2 DEF NumbersOK, bounds
<1>8. Files(version') \subseteq DOMAIN tables
  BY <1>5, NamedPresent
<1>9. Files(version') \subseteq LiveTables' /\ \A v \in Viewed : v.files \subseteq LiveTables'
  <2> DEFINE V == {v.files : v \in Viewed'}
  <2>1. LiveTables' = pending' \cup Files(version') \cup (UNION V)
                       \cup (IF comp' = None THEN {} ELSE comp'.base)
    BY DEF LiveTables
  <2>2. \A v \in Viewed : v.files \in V
    BY <1>2
  <2> HIDE DEF V
  <2> QED BY <2>1, <2>2
<1>10. Files(version') \subseteq DOMAIN tables'
  BY <1>8, <1>9 DEF NumbersOK
<1>11. ManifestOK'
  <2>1. Files(Last(manifest)) \subseteq DOMAIN tables'
    <3>1. CASE bgError
      BY <1>1, <3>1 DEF ManifestOK
    <3>2. CASE ~bgError
      <4>1. Files(Last(manifest)) = Files(version')
        BY <3>2 DEF Agrees, Files
      <4> QED BY <1>10, <4>1
    <3> QED BY <3>1, <3>2
  <2> QED BY <1>1, <2>1 DEF ManifestOK
<1>12. ViewsOK'
  <2>1. ASSUME NEW r \in Readers, view[r] # None PROVE view[r].files \subseteq DOMAIN tables'
    <3>1. view[r] \in Viewed /\ view[r].files \subseteq DOMAIN tables
      BY <2>1 DEF Viewed, ViewsOK
    <3>2. view[r].files \subseteq LiveTables'
      BY <1>9, <3>1
    <3> QED BY <3>1, <3>2 DEF NumbersOK
  <2> QED BY <2>1 DEF ViewsOK
<1>13. DownOK'
  BY DEF DownOK
<1> QED BY <1>1, <1>2, <1>3, <1>5, <1>7, <1>10, <1>11, <1>12, <1>13

LEMMA EndFlushFiles ==
  ASSUME FileInv, EndFlush
  PROVE  FilesOK' /\ NumbersOK'
<1> USE DEF FileInv, FilesOK
<1>1. /\ flush # None /\ flush.installing /\ flush' = None
      /\ manifest' = <<Last(manifest)>> /\ version' = Apply(flush.edit, version)
      /\ logNumber' = flush.log /\ imm' = None
      /\ mems' = Unref(mems)
      /\ DeleteObsoleteFiles(tables, logs)
      /\ UNCHANGED <<mem, up, view, bgError, pending, comp, lastSeq, nextFile, bounds>>
  BY DEF EndFlush, InstallEdit
<1>2. scheduled' \in BOOLEAN
  BY DEF EndFlush, EndBackgroundCall, WorkToDo, NumbersOK
<1>3. /\ up # "down" /\ imm # None /\ flush.log = mem /\ flush.edit \in Edits /\ flush.edit.del = {}
      /\ flush.edit.l0 \cup flush.edit.deep \subseteq {flush.out} \cap DOMAIN tables
      /\ Last(manifest).log = mem
      /\ comp # None => flush.out # comp.out /\ comp.state # "installing"
  BY <1>1 DEF DownOK, Down, FlushOK
<1>4. IsFiniteSet(flush.edit.l0)
  <2>1. flush.edit.l0 \subseteq {flush.out} /\ IsFiniteSet({flush.out})
    BY <1>3, FS_Singleton
  <2> QED BY <2>1, FS_Subset
<1>5. /\ TablesOK' /\ LogsOK'
      /\ DOMAIN tables' \subseteq DOMAIN tables /\ DOMAIN tables \cap LiveTables' \subseteq DOMAIN tables'
      /\ DOMAIN logs' \subseteq DOMAIN logs
      /\ \A n \in DOMAIN logs : n >= logNumber' => n \in DOMAIN logs'
      /\ bgError' => tables' = tables /\ logs' = logs
  BY <1>1, ObsoleteEffect DEF TablesOK, LogsOK
<1>6. ~bgError => Agrees(Last(manifest), version', logNumber')
  <2> SUFFICES ASSUME ~bgError PROVE Agrees(Last(manifest), version', logNumber')
    OBVIOUS
  <2>1. Len(manifest) = 2 /\ Agrees(manifest[2], Apply(flush.edit, version), mem)
    BY <1>1, <1>3 DEF EditsOK, Installing
  <2> QED BY <1>1, <1>3, <2>1 DEF Last
<1>7. /\ NumbersOK' /\ ManifestOK' /\ ViewsOK' /\ DownOK'
      /\ Files(version') \subseteq DOMAIN tables'
      /\ Files(version') \subseteq Files(version) \cup flush.edit.l0 \cup flush.edit.deep
      /\ Candidates' = {Last(manifest)} /\ Candidates' \subseteq Candidates
      /\ Len(manifest') = 1 /\ manifest'[1] = Last(manifest)
      /\ Named' \subseteq Named /\ Viewed' = Viewed
  <2>1. logNumber' \in Nat /\ flush.edit.l0 \cup flush.edit.deep \subseteq DOMAIN tables
    BY <1>1, <1>3 DEF NumbersOK
  <2> QED BY <1>1, <1>2, <1>3, <1>4, <1>5, <1>6, <2>1, InstallFrame
<1>8. MemoryOK'
  <2> USE DEF MemoryOK
  <2>1. HeldMems' \subseteq HeldMems
    BY <1>1, <1>7 DEF HeldMems
  <2>2. DOMAIN mems' = HeldMems' /\ \A n \in DOMAIN mems' : mems'[n] = mems[n] /\ n \in DOMAIN mems
    <3>1. DOMAIN mems' = DOMAIN mems \cap HeldMems' /\ \A n \in DOMAIN mems' : mems'[n] = mems[n]
      BY <1>1 DEF Unref, Restrict
    <3> QED BY <1>3, <2>1, <3>1
  <2>3. imm \in Nat /\ mem \in Nat /\ imm < mem /\ logNumber = imm /\ logNumber' = mem
    BY <1>1, <1>3 DEF NumbersOK
  <2>4. mem \in DOMAIN logs'
    BY <1>3, <1>5, <2>3
  <2>5. \A l \in DOMAIN logs' : l >= mem => l = mem
    <3>1. \A l \in DOMAIN logs : l \in Nat /\ (l >= imm => l \in {mem, imm})
      BY <1>3, <2>3 DEF LogsOK
    <3> QED BY <1>5, <2>3, <3>1
  <2>6. \A n \in DOMAIN tables' \cup DOMAIN logs' \cup DOMAIN mems' : n < nextFile'
    BY <1>1, <1>3, <1>5, <2>2
  <2>7. \A m \in Candidates' : m.next <= nextFile' /\ m.log = mem
    BY <1>1, <1>3, <1>7
  <2>8. \A n \in DOMAIN mems' : mems'[n] \subseteq Entries
    BY <1>3, <2>2
  <2> QED BY <1>1, <1>7, <2>2, <2>3, <2>4, <2>5, <2>6, <2>7, <2>8
<1>9. FlushOK'
  BY <1>1 DEF FlushOK
<1>10. CompOK'
  <2> SUFFICES ASSUME comp # None PROVE CompOK'
    BY <1>1 DEF CompOK
  <2>1. comp.base \cup pending \subseteq LiveTables'
    BY <1>1 DEF LiveTables
  <2>2. comp.base \cup comp.outs \subseteq DOMAIN tables'
    BY <1>5, <2>1 DEF CompOK
  <2>3. comp.out # None => comp.out \in DOMAIN tables'
    BY <1>5, <2>1 DEF CompOK
  <2>4. comp.out # None => comp.out \notin Files(version') \cup Named' \cup comp.base \cup comp.outs
    BY <1>3, <1>7 DEF CompOK
  <2>5. Files(version) \subseteq Files(version')
    <3>1. version \in Versions
      BY DEF NumbersOK
    <3>2. version'.l0 = (version.l0 \ flush.edit.del) \cup flush.edit.l0
          /\ version'.deep = (version.deep \ flush.edit.del) \cup flush.edit.deep
      BY <1>1, <1>3, <3>1, ApplyEffect
    <3> QED BY <1>3, <3>2 DEF Files
  <2> QED BY <1>1, <1>3, <2>2, <2>3, <2>4, <2>5 DEF CompOK
<1>11. EditsOK'
  BY <1>1, <1>3, <1>6, <1>7 DEF EditsOK, Installing, Moving, Agrees
<1> QED BY <1>5, <1>7, <1>8, <1>9, <1>10, <1>11

LEMMA InstallCompactionFiles ==
  ASSUME FileInv, InstallCompaction
  PROVE  FilesOK' /\ NumbersOK'
<1> USE DEF FileInv, FilesOK
<1>1. /\ comp # None /\ comp.state = "installing" /\ comp' = None
      /\ manifest' = <<Last(manifest)>> /\ version' = Apply(comp.edit, version)
      /\ logNumber' = logNumber
      /\ (UNCHANGED <<tables, logs>> \/ DeleteObsoleteFiles(tables, logs))
      /\ pending' = pending \ (comp.outs \cup {comp.out})
      /\ UNCHANGED <<mem, imm, mems, up, view, bgError, flush, lastSeq, nextFile, bounds>>
  BY DEF InstallCompaction, EndCompaction, InstallEdit
<1>2. scheduled' \in BOOLEAN
  BY DEF InstallCompaction, EndCompaction, EndBackgroundCall, WorkToDo
<1>3. /\ up # "down" /\ flush = None /\ comp.edit \in Edits /\ comp.edit.l0 = {}
      /\ comp.edit.deep \subseteq DOMAIN tables
  BY <1>1 DEF DownOK, Down, FlushOK, CompOK
<1>4. /\ TablesOK' /\ LogsOK'
      /\ DOMAIN tables' \subseteq DOMAIN tables /\ DOMAIN tables \cap LiveTables' \subseteq DOMAIN tables'
      /\ DOMAIN logs' \subseteq DOMAIN logs
      /\ \A n \in DOMAIN logs : n >= logNumber' => n \in DOMAIN logs'
      /\ bgError' => tables' = tables /\ logs' = logs
  <2>1. CASE UNCHANGED <<tables, logs>>
    BY <2>1 DEF TablesOK, LogsOK
  <2>2. CASE DeleteObsoleteFiles(tables, logs)
    BY <2>2, ObsoleteEffect DEF TablesOK, LogsOK
  <2> QED BY <1>1, <2>1, <2>2
<1>5. ~bgError => Agrees(Last(manifest), version', logNumber')
  <2> SUFFICES ASSUME ~bgError PROVE Agrees(Last(manifest), version', logNumber')
    OBVIOUS
  <2>1. Len(manifest) = 2 /\ Agrees(manifest[2], Apply(comp.edit, version), logNumber)
    BY <1>1, <1>3 DEF EditsOK, Moving
  <2> QED BY <1>1, <2>1 DEF Last
<1>6. /\ NumbersOK' /\ ManifestOK' /\ ViewsOK' /\ DownOK'
      /\ Files(version') \subseteq DOMAIN tables'
      /\ Candidates' = {Last(manifest)} /\ Candidates' \subseteq Candidates
      /\ Len(manifest') = 1 /\ manifest'[1] = Last(manifest)
      /\ Viewed' = Viewed
  <2>1. logNumber' \in Nat /\ comp.edit.l0 \cup comp.edit.deep \subseteq DOMAIN tables
    BY <1>1, <1>3 DEF NumbersOK
  <2>2. IsFiniteSet(comp.edit.l0)
    BY <1>3, FS_EmptySet
  <2> QED BY <1>1, <1>2, <1>3, <1>4, <1>5, <2>1, <2>2, InstallFrame
<1>7. MemoryOK'
  <2>1. HeldMems' = HeldMems
    BY <1>1, <1>6 DEF HeldMems
  <2>2. mem \in DOMAIN logs' /\ (imm # None => imm \in DOMAIN logs')
    <3>1. imm \in Nat \cup {None} /\ mem \in Nat /\ logNumber \in Nat
      BY DEF NumbersOK
    <3>2. logNumber <= mem /\ (imm # None => logNumber <= imm)
      BY <1>3, <3>1 DEF MemoryOK
    <3> QED BY <1>1, <1>3, <1>4, <3>1, <3>2 DEF MemoryOK
  <2> QED BY <1>1, <1>3, <1>4, <1>6, <2>1, <2>2 DEF MemoryOK
<1>8. FlushOK' /\ CompOK'
  BY <1>1, <1>3 DEF FlushOK, CompOK
<1>9. EditsOK'
  BY <1>1, <1>3, <1>5, <1>6 DEF EditsOK, Installing, Moving, Agrees
<1> QED BY <1>4, <1>6, <1>7, <1>8, <1>9

(* The end of the process, and the next beginning.                         *)

LEMMA CandidateSet ==
  Candidates = ToSet(manifest)
BY DEF Candidates, ToSet

LEMMA StopFiles ==
  ASSUME FileInv, NEW l, NEW m \in Candidates, Stop(l, m),
         DOMAIN l = DOMAIN logs,
         \A n \in DOMAIN l : /\ l[n] \in [recs: Seq(Records), synced: Nat]
                             /\ l[n].synced <= Len(l[n].recs)
                             /\ \A i \in DOMAIN l[n].recs : IsFiniteSet(l[n].recs[i].entries),
         kills' \in Nat, cuts' \in Nat, limits' = limits
  PROVE  FilesOK' /\ NumbersOK'
<1> USE DEF FileInv, FilesOK, Stop
<1>1. NumbersOK'
  <2>1. NoVersion \in Versions /\ IsFiniteSet(NoVersion.l0)
    BY FS_EmptySet DEF NoVersion, Versions
  <2> QED BY <2>1 DEF NumbersOK
<1>2. TablesOK' /\ LogsOK'
  BY DEF TablesOK, LogsOK
<1>3. m \in Manifests
  BY CandidateTypes
<1>4. /\ manifest' \in Seq(Manifests) /\ manifest' # <<>> /\ Len(manifest') = 1
      /\ Candidates' = {m}
  <2>1. manifest' = <<m>>
    OBVIOUS
  <2> QED BY <1>3, <2>1 DEF Candidates
<1>5. ManifestOK'
  BY <1>4 DEF ManifestOK
<1>6. DownOK'
  BY <1>4 DEF DownOK, Down
<1>7. ViewsOK'
  BY DEF ViewsOK
<1>8. MemoryOK' /\ FlushOK' /\ CompOK' /\ EditsOK'
  BY DEF MemoryOK, FlushOK, CompOK, EditsOK
<1> QED BY <1>1, <1>2, <1>5, <1>6, <1>7, <1>8

LEMMA StopStepFiles ==
  ASSUME FileInv, EndClose \/ Kill \/ NullManual \/ PowerCut
  PROVE  FilesOK' /\ NumbersOK'
<1>1. kills \in Nat /\ cuts \in Nat /\ kills + 1 \in Nat /\ cuts + 1 \in Nat
  BY DEF FileInv, NumbersOK
<1>2. CASE EndClose \/ Kill \/ NullManual
  <2>1. PICK m \in Candidates : Stop(logs, m)
    BY <1>2, CandidateSet DEF EndClose, Kill, NullManual
  <2>2. kills' \in Nat /\ cuts' \in Nat /\ limits' = limits
    BY <1>1, <1>2 DEF EndClose, Kill, NullManual
  <2> QED BY <2>1, <2>2, StopFiles DEF FileInv, FilesOK, LogsOK
<1>3. CASE PowerCut
  <2>5. PICK kept \in [DOMAIN logs -> 0..Max({0} \cup {Len(logs[n].recs) : n \in DOMAIN logs})] :
          /\ \A n \in DOMAIN logs : kept[n] \in logs[n].synced..Len(logs[n].recs)
          /\ \E m \in ToSet(manifest) :
               Stop([n \in DOMAIN logs |-> [recs |-> SubSeq(logs[n].recs, 1, kept[n]),
                                            synced |-> kept[n]]], m)
    BY <1>3 DEF PowerCut
  <2>1. PICK m \in Candidates :
          /\ \A n \in DOMAIN logs : kept[n] \in logs[n].synced..Len(logs[n].recs)
          /\ Stop([n \in DOMAIN logs |-> [recs |-> SubSeq(logs[n].recs, 1, kept[n]),
                                          synced |-> kept[n]]], m)
    BY <2>5, CandidateSet
  <2> DEFINE l == [n \in DOMAIN logs |-> [recs |-> SubSeq(logs[n].recs, 1, kept[n]),
                                          synced |-> kept[n]]]
  <2>2. kills' \in Nat /\ cuts' \in Nat /\ limits' = limits
    BY <1>1, <1>3 DEF PowerCut
  <2>3. ASSUME NEW n \in DOMAIN l
        PROVE  /\ l[n] \in [recs: Seq(Records), synced: Nat]
               /\ l[n].synced <= Len(l[n].recs)
               /\ \A i \in DOMAIN l[n].recs : IsFiniteSet(l[n].recs[i].entries)
    <3> DEFINE recs == logs[n].recs
               k == kept[n]
               cut == SubSeq(recs, 1, k)
    <3>1. /\ recs \in Seq(Records) /\ logs[n].synced \in Nat
          /\ \A i \in DOMAIN recs : IsFiniteSet(recs[i].entries)
      BY DEF FileInv, FilesOK, LogsOK
    <3>2. k \in logs[n].synced..Len(recs)
      BY <2>1
    <3>3. Len(recs) \in Nat /\ DOMAIN recs = 1..Len(recs)
      BY <3>1
    <3>4. l[n] = [recs |-> cut, synced |-> k]
      OBVIOUS
    <3> HIDE DEF recs, k, l
    <3>5. k \in 0..Len(recs)
      BY <3>1, <3>2, <3>3
    <3>6. /\ cut \in Seq(Records) /\ Len(cut) = k /\ DOMAIN cut = 1..k
          /\ \A i \in 1..k : cut[i] = recs[i]
      BY <3>1, <3>5, PrefixEffect
    <3> HIDE DEF cut
    <3>7. \A i \in DOMAIN cut : i \in DOMAIN recs /\ cut[i] = recs[i]
      BY <3>3, <3>5, <3>6
    <3> QED BY <3>1, <3>4, <3>5, <3>6, <3>7
  <2>4. DOMAIN l = DOMAIN logs /\ Stop(l, m)
    BY <2>1
  <2> HIDE DEF l
  <2> QED BY <2>1, <2>2, <2>3, <2>4, StopFiles
<1> QED BY <1>2, <1>3

LEMMA ReadLogFinite ==
  ASSUME NEW recs \in Seq(Records), \A i \in DOMAIN recs : IsFiniteSet(recs[i].entries)
  PROVE  IsFiniteSet(ReadLog(recs))
<1> DEFINE I == {j \in DOMAIN recs : \A k \in 1..j : recs[k].whole}
           f == [i \in DOMAIN recs |-> recs[i].entries]
           T == {f[i] : i \in I}
<1>1. IsFiniteSet(I)
  <2>1. DOMAIN recs = 1..Len(recs) /\ Len(recs) \in Nat
    OBVIOUS
  <2>2. IsFiniteSet(DOMAIN recs)
    BY <2>1, FS_Interval
  <2>3. I \subseteq DOMAIN recs
    OBVIOUS
  <2> HIDE DEF I
  <2> QED BY <2>2, <2>3, FS_Subset
<1>2. IsFiniteSet(T)
  <2>1. I \subseteq DOMAIN f
    OBVIOUS
  <2> HIDE DEF I, f
  <2> QED BY <1>1, <2>1, ImageFinite
<1>3. \A t \in T : IsFiniteSet(t)
  OBVIOUS
<1>4. ReadLog(recs) = UNION T
  <2>1. T = {recs[i].entries : i \in I}
    OBVIOUS
  <2> QED BY <2>1 DEF ReadLog
<1>5. IsFiniteSet(UNION T)
  <2> HIDE DEF T
  <2> QED BY <1>2, <1>3, FS_UNION
<1> QED BY <1>4, <1>5

LEMMA RecoveredSequenceEffect ==
  ASSUME LogsOK, ManifestOK
  PROVE  /\ RecoveredSequence \in Nat /\ manifest[1].seq <= RecoveredSequence
         /\ \A l \in OpenLogs : \A e \in ReadLog(logs[l].recs) : e[2] <= RecoveredSequence
<1> DEFINE f == [l \in OpenLogs |-> ReadLog(logs[l].recs)]
           T == {f[l] : l \in OpenLogs}
           E == UNION T
           g == [e \in E |-> e[2]]
           S == {g[e] : e \in E}
<1>1. OpenLogs \subseteq DOMAIN logs /\ IsFiniteSet(DOMAIN logs)
  BY DEF OpenLogs, LogsFrom, LogsOK
<1>2. IsFiniteSet(T)
  <2>1. IsFiniteSet(OpenLogs) /\ OpenLogs \subseteq DOMAIN f
    BY <1>1, FS_Subset
  <2> HIDE DEF f
  <2> QED BY <2>1, ImageFinite
<1>3. \A l \in OpenLogs : f[l] = ReadLog(logs[l].recs) /\ IsFiniteSet(f[l]) /\ f[l] \subseteq Entries
  <2> SUFFICES ASSUME NEW l \in OpenLogs
               PROVE  IsFiniteSet(ReadLog(logs[l].recs)) /\ ReadLog(logs[l].recs) \subseteq Entries
    OBVIOUS
  <2>1. logs[l].recs \in Seq(Records)
        /\ \A i \in DOMAIN logs[l].recs : IsFiniteSet(logs[l].recs[i].entries)
    BY <1>1 DEF LogsOK
  <2> QED BY <2>1, ReadLogFinite, ReadLogEntries
<1> HIDE DEF f
<1>4. (\A t \in T : IsFiniteSet(t) /\ t \subseteq Entries) /\ (\A l \in OpenLogs : f[l] \in T)
  BY <1>3
<1> HIDE DEF T
<1>5. IsFiniteSet(E) /\ E \subseteq Entries /\ \A l \in OpenLogs : f[l] \subseteq E
  <2>1. IsFiniteSet(UNION T)
    BY <1>2, <1>4, FS_UNION
  <2> HIDE DEF Entries
  <2> QED BY <1>4, <2>1
<1>6. \A e \in E : e[2] \in Nat /\ g[e] = e[2]
  BY <1>5 DEF Entries
<1>7. IsFiniteSet(S) /\ S \in SUBSET Nat /\ \A e \in E : e[2] \in S
  <2>1. E \subseteq DOMAIN g
    OBVIOUS
  <2> HIDE DEF g, E
  <2> QED BY <1>5, <1>6, <2>1, ImageFinite
<1>8. manifest[1].seq \in Nat
  BY CandidateTypes
<1> DEFINE All == S \cup {manifest[1].seq}
<1>9. IsFiniteSet(All) /\ All \in SUBSET Nat /\ All # {}
  <2> HIDE DEF S
  <2> QED BY <1>7, <1>8, FS_AddElement
<1>10. Max(All) \in All /\ \A y \in All : y <= Max(All)
  <2> HIDE DEF All
  <2> QED BY <1>9, MaxFinite
<1>11. RecoveredSequence = Max(All)
  <2>1. E = UNION {ReadLog(logs[n].recs) : n \in LogsFrom(manifest[1].log)}
    <3>1. T = {ReadLog(logs[n].recs) : n \in OpenLogs}
      BY <1>3 DEF T
    <3> QED BY <3>1 DEF OpenLogs
  <2> HIDE DEF E
  <2>2. S = {e[2] : e \in E}
    BY <1>6
  <2>3. {manifest[1].seq} \cup S = All
    OBVIOUS
  <2> HIDE DEF S, All
  <2> QED BY <2>1, <2>2, <2>3 DEF RecoveredSequence
<1>12. ASSUME NEW l \in OpenLogs, NEW e \in ReadLog(logs[l].recs) PROVE e[2] \in All
  <2>1. e \in E
    BY <1>3, <1>5
  <2> QED BY <1>7, <2>1
<1>13. manifest[1].seq \in All
  OBVIOUS
<1> HIDE DEF All
<1> QED BY <1>9, <1>10, <1>11, <1>12, <1>13

LEMMA RecoveredTables ==
  ASSUME LogsOK, TablesOK, ManifestOK
  PROVE  /\ DOMAIN Over(Recovered.tables, tables) = DOMAIN Recovered.tables \cup DOMAIN tables
         /\ DOMAIN Over(Recovered.tables, tables) \subseteq Nat
         /\ \A n \in DOMAIN Over(Recovered.tables, tables) :
              Over(Recovered.tables, tables)[n] \subseteq Entries
<1> DEFINE t == Recovered.tables
<1>1. DOMAIN t \subseteq Nat
  BY RecoveredEffect
<1>2. \A n \in DOMAIN t : t[n] \subseteq Entries
  <2> SUFFICES ASSUME NEW n \in DOMAIN t PROVE t[n] \subseteq Entries
    OBVIOUS
  <2>1. PICK l \in FullLogs : t[n] = ReadLog(logs[l].recs)
    BY RecoveredEffect
  <2>2. logs[l].recs \in Seq(Records)
    BY <2>1 DEF FullLogs, OpenLogs, LogsFrom, LogsOK
  <2> QED BY <2>1, <2>2, ReadLogEntries
<1> HIDE DEF t
<1>3. DOMAIN Over(t, tables) = DOMAIN t \cup DOMAIN tables
      /\ \A n \in DOMAIN t \cup DOMAIN tables : Over(t, tables)[n] = IF n \in DOMAIN t THEN t[n] ELSE tables[n]
  BY DEF Over
<1>4. DOMAIN tables \subseteq Nat /\ \A n \in DOMAIN tables : tables[n] \subseteq Entries
  BY DEF TablesOK
<1>5. \A n \in DOMAIN Over(t, tables) : Over(t, tables)[n] \subseteq Entries
  <2> HIDE DEF Entries
  <2> QED BY <1>2, <1>3, <1>4
<1>6. DOMAIN Over(t, tables) \subseteq Nat
  BY <1>1, <1>3, <1>4
<1> QED BY <1>3, <1>5, <1>6 DEF t

LEMMA OpenDiesFiles ==
  ASSUME FileInv, OpenDies
  PROVE  FilesOK' /\ NumbersOK'
<1> USE DEF FileInv, FilesOK
<1>1. /\ tables' = Over(Recovered.tables, tables)
      /\ logs' \in {logs, Put(logs, Recovered.next, EmptyLog)}
      /\ up = "down" /\ kills' = kills + 1
      /\ UNCHANGED <<writers, group, mem, imm, mems, lastSeq, nextFile, logNumber, version, scheduled,
                     flush, comp, pending, bgError, manual, view, up, cuts, limits, manifest>>
  BY DEF OpenDies, memory, numbers, background
<1>2. Recovered.next \in Nat
  BY RecoveredEffect
<1>3. LogsOK'
  <2>1. CASE logs' = logs
    BY <2>1 DEF LogsOK
  <2>2. CASE logs' = Put(logs, Recovered.next, EmptyLog)
    BY <1>2, <2>2, LogCreated
  <2> QED BY <1>1, <2>1, <2>2
<1>4. TablesOK' /\ DOMAIN tables \subseteq DOMAIN tables'
  BY <1>1, RecoveredTables DEF TablesOK
<1>5. Candidates' = Candidates
  BY <1>1 DEF Candidates
<1>6. ManifestOK'
  BY <1>1, <1>4, <1>5 DEF ManifestOK
<1>7. DownOK' /\ MemoryOK' /\ FlushOK' /\ CompOK' /\ EditsOK'
  BY <1>1 DEF DownOK, Down, MemoryOK, FlushOK, CompOK, EditsOK
<1>8. ViewsOK'
  BY <1>1, <1>4 DEF ViewsOK
<1>9. NumbersOK'
  <2>1. kills' \in Nat
    BY <1>1 DEF NumbersOK
  <2> QED BY <1>1, <2>1 DEF NumbersOK
<1> QED BY <1>3, <1>4, <1>6, <1>7, <1>8, <1>9

LEMMA OpenFiles ==
  ASSUME FileInv, Open
  PROVE  FilesOK' /\ NumbersOK'
<1> USE DEF FileInv, FilesOK
<1> DEFINE new == DOMAIN Recovered.tables
           next == Recovered.next
           old == manifest[1]
           edit == [l0 |-> new, deep |-> {}, del |-> {}]
           v == [l0 |-> old.l0, deep |-> old.deep]
           x == [l0 |-> version'.l0, deep |-> version'.deep,
                 log |-> logNumber', next |-> nextFile', seq |-> lastSeq']
           f == Over(Recovered.tables, tables)
           l == Put(logs, next, EmptyLog)
<1>1. /\ up = "down" /\ up' = "open"
      /\ nextFile' = next + 1 /\ lastSeq' = RecoveredSequence /\ logNumber' = next
      /\ mem' = next /\ mems' = Put(mems, next, {})
      /\ version' = Apply(edit, v) /\ manifest' = <<x>>
      /\ DeleteObsoleteFiles(f, l)
      /\ UNCHANGED <<imm, manual, bgError, pending, comp, view, writers, group, flush, bounds>>
  BY DEF Open
<1>2. /\ imm = None /\ mems = <<>> /\ bgError = FALSE /\ pending = {} /\ comp = None /\ flush = None
      /\ view = [r \in Readers |-> None]
  BY <1>1 DEF DownOK, Down
<1>3. /\ next \in Nat /\ old.next < next /\ \A n \in DOMAIN logs : n < next
      /\ new \subseteq Nat /\ IsFiniteSet(new)
      /\ \A t \in new : old.next < t /\ t < next
  BY RecoveredEffect
<1>4. /\ old \in Candidates /\ old \in Manifests /\ old.l0 \subseteq Nat /\ old.deep \subseteq Nat
      /\ old.next \in Nat /\ IsFiniteSet(old.l0) /\ Files(old) \subseteq DOMAIN tables
      /\ \A n \in Files(old) : n < old.next
  BY CandidateTypes DEF ManifestOK
<1>5. DOMAIN f = new \cup DOMAIN tables /\ DOMAIN f \subseteq Nat /\ \A n \in DOMAIN f : f[n] \subseteq Entries
  BY RecoveredTables
<1>6. DOMAIN l = DOMAIN logs \cup {next} /\ l[next] = EmptyLog
      /\ \A n \in DOMAIN logs : n # next => l[n] = logs[n]
  BY DEF Put
<1> HIDE DEF new, next, f, l, old
<1>7. /\ edit \in Edits /\ v \in Versions /\ edit.l0 = new /\ edit.deep = {} /\ edit.del = {}
      /\ v.l0 = old.l0 /\ v.deep = old.deep
  BY <1>3, <1>4 DEF Edits, Versions
<1> HIDE DEF edit, v
<1>8. /\ version' \in Versions /\ version'.l0 = old.l0 \cup new /\ version'.deep = old.deep
      /\ version'.l0 \subseteq Nat /\ version'.deep \subseteq Nat
  <2>1. /\ Apply(edit, v) \in Versions
        /\ Apply(edit, v).l0 = (v.l0 \ edit.del) \cup edit.l0
        /\ Apply(edit, v).deep = (v.deep \ edit.del) \cup edit.deep
    BY <1>7, ApplyEffect
  <2> QED BY <1>1, <1>3, <1>4, <1>7, <2>1
<1>9. Files(version') = Files(old) \cup new
  BY <1>8 DEF Files
<1>10. IsFiniteSet(version'.l0)
  <2>1. IsFiniteSet(old.l0 \cup new)
    <3> DEFINE S == old.l0
               T == new
    <3>1. IsFiniteSet(S) /\ IsFiniteSet(T)
      BY <1>3, <1>4
    <3> HIDE DEF S, T
    <3>2. IsFiniteSet(S \cup T)
      BY <3>1, FS_Union
    <3> QED BY <3>2 DEF S, T
  <2> QED BY <1>8, <2>1
<1>11. scheduled' \in BOOLEAN
  BY <1>1 DEF Open, MaybeScheduleCompaction, WorkToDo
<1>12. RecoveredSequence \in Nat
  BY RecoveredSequenceEffect
<1>13. NumbersOK'
  <2>1. /\ lastSeq' \in Nat /\ nextFile' \in Nat /\ logNumber' \in Nat
        /\ mem' \in Nat /\ imm' \in Nat \cup {None}
    BY <1>1, <1>2, <1>3, <1>12
  <2>2. bgError' \in BOOLEAN /\ pending' \subseteq Nat
    BY <1>1, <1>2
  <2> QED BY <1>1, <1>8, <1>10, <1>11, <2>1, <2>2 DEF NumbersOK, bounds
<1>14. \A n \in DOMAIN l : /\ l[n] \in [recs: Seq(Records), synced: Nat]
                           /\ l[n].synced <= Len(l[n].recs)
                           /\ \A i \in DOMAIN l[n].recs : IsFiniteSet(l[n].recs[i].entries)
  <2>1. \A n \in DOMAIN l : l[n] = EmptyLog \/ (n \in DOMAIN logs /\ l[n] = logs[n])
    BY <1>6
  <2> QED BY <2>1, EmptyLogType DEF LogsOK
<1>15. /\ TablesOK' /\ LogsOK'
       /\ DOMAIN tables' \subseteq DOMAIN f /\ DOMAIN f \cap LiveTables' \subseteq DOMAIN tables'
       /\ DOMAIN logs' \subseteq DOMAIN l
       /\ \A n \in DOMAIN l : n >= logNumber' => n \in DOMAIN logs'
       /\ ~bgError' => DOMAIN tables' \subseteq LiveTables'
  <2>1. DOMAIN l \subseteq Nat /\ IsFiniteSet(DOMAIN l)
    BY <1>3, <1>6, FS_AddElement DEF LogsOK
  <2> QED BY <1>1, <1>5, <1>14, <2>1, ObsoleteEffect
<1>16. Viewed' = {}
  BY <1>1, <1>2 DEF Viewed
<1>17. LiveTables' = Files(version')
  <2>1. {w.files : w \in {}} = {}
    OBVIOUS
  <2> QED BY <1>1, <1>2, <1>16, <2>1 DEF LiveTables
<1>18. DOMAIN tables' = Files(version')
  BY <1>1, <1>2, <1>4, <1>5, <1>9, <1>15, <1>17
<1>19. \A n \in Files(version') : n \in Nat /\ n < next
  <2>1. \A n \in Files(old) : n \in Nat /\ n < old.next
    BY <1>4 DEF Files
  <2>2. \A n \in Files(old) : n < next
    BY <1>3, <1>4, <2>1
  <2>3. \A n \in new : n \in Nat /\ n < next
    BY <1>3
  <2> QED BY <1>9, <2>1, <2>2, <2>3
<1>20. /\ x \in Manifests /\ x.l0 = version'.l0 /\ x.deep = version'.deep
       /\ x.log = next /\ x.next = next + 1
  <2>1. next + 1 \in Nat
    BY <1>3
  <2> QED BY <1>1, <1>3, <1>8, <1>12, <2>1 DEF Manifests
<1> HIDE DEF x
<1>21. Files(x) = Files(version')
  BY <1>20 DEF Files
<1>22. /\ manifest' \in Seq(Manifests) /\ manifest' # <<>> /\ Len(manifest') = 1
       /\ Candidates' = {x} /\ manifest'[1] = x
  BY <1>1, <1>20 DEF Candidates
<1>23. ManifestOK'
  <2>1. \A n \in Files(version') : n < next + 1
    BY <1>3, <1>19
  <2> QED BY <1>10, <1>18, <1>20, <1>21, <1>22, <2>1 DEF ManifestOK
<1>24. MemoryOK'
  <2>1. DOMAIN mems' = {next} /\ mems'[next] = {}
    <3>1. DOMAIN mems = {}
      BY <1>2
    <3> QED BY <1>1, <3>1 DEF Put
  <2>2. HeldMems' = {next}
    <3>1. {w.mems : w \in {}} = {}
      OBVIOUS
    <3> QED BY <1>1, <1>2, <1>3, <1>16, <3>1, NoneAssumption DEF HeldMems
  <2>3. next \in DOMAIN logs'
    BY <1>1, <1>3, <1>6, <1>15
  <2>4. \A n \in DOMAIN logs' : n \in Nat /\ n <= next
    BY <1>3, <1>6, <1>15 DEF LogsOK
  <2>5. \A n \in DOMAIN logs' : n >= logNumber' => n = next
    BY <1>1, <1>3, <2>4
  <2>6. \A n \in DOMAIN tables' \cup DOMAIN logs' \cup DOMAIN mems' : n < nextFile'
    BY <1>1, <1>3, <1>18, <1>19, <2>1, <2>4
  <2>7. \A m \in Candidates' : m.next <= nextFile' /\ m.log = next
    BY <1>1, <1>3, <1>20, <1>22
  <2> QED BY <1>1, <1>2, <1>18, <2>1, <2>2, <2>3, <2>5, <2>6, <2>7 DEF MemoryOK
<1>25. ViewsOK' /\ FlushOK' /\ CompOK' /\ DownOK'
  BY <1>1, <1>2 DEF ViewsOK, FlushOK, CompOK, DownOK
<1>26. EditsOK'
  BY <1>1, <1>2, <1>20, <1>22 DEF EditsOK, Agrees, Installing, Moving
<1> QED BY <1>13, <1>15, <1>23, <1>24, <1>25, <1>26

LEMMA InitFiles ==
  ASSUME Init
  PROVE  FileInv
<1> USE DEF Init, Down
<1> DEFINE x == [l0 |-> {}, deep |-> {}, log |-> 0, next |-> 2, seq |-> 0]
<1>1. x \in Manifests /\ x.l0 = {} /\ x.deep = {}
  BY DEF Manifests
<1>2. manifest = <<x>>
  OBVIOUS
<1> HIDE DEF x
<1>3. /\ manifest \in Seq(Manifests) /\ manifest # <<>> /\ Len(manifest) = 1 /\ Candidates = {x}
  <2>1. DOMAIN manifest = {1} /\ manifest[1] = x
    BY <1>2
  <2>2. Candidates = {x}
    BY <2>1 DEF Candidates
  <2>3. <<x>> \in Seq(Manifests) /\ <<x>> # <<>> /\ Len(<<x>>) = 1
    BY <1>1
  <2> HIDE DEF Init
  <2> QED BY <1>2, <2>2, <2>3
<1>4. ManifestOK
  BY <1>1, <1>3, FS_EmptySet DEF ManifestOK, Files
<1>5. CallsOK
  BY DEF CallsOK, CallStates, ManualStates, Kinds
<1>6. QueueOK
  BY DEF QueueOK
<1>7. RestOK
  BY DEF RestOK
<1>8. NumbersOK
  BY FS_EmptySet DEF NumbersOK, NoVersion, Versions
<1>9. LogsOK /\ TablesOK
  <2>1. DOMAIN <<>> = {}
    OBVIOUS
  <2> QED BY <2>1, FS_EmptySet DEF LogsOK, TablesOK
<1>10. MemoryOK /\ FlushOK /\ CompOK /\ EditsOK /\ ViewsOK
  BY DEF MemoryOK, FlushOK, CompOK, EditsOK, ViewsOK
<1>11. DownOK
  BY <1>3 DEF DownOK
<1> QED BY <1>4, <1>5, <1>6, <1>7, <1>8, <1>9, <1>10, <1>11 DEF FileInv, FilesOK

\* Every step keeps the invariant.
LEMMA StepFiles ==
  ASSUME FileInv, [Next]_vars
  PROVE  FileInv'
<1>1. CallsOK' /\ QueueOK'
  BY StepQueue DEF FileInv, NumbersOK
<1>2. RestOK'
  BY StepRest DEF FileInv
<1>3. FilesOK' /\ NumbersOK'
  <2>1. CASE UNCHANGED vars
    <3>1. UNCHANGED <<kind, st, writers, group, mem, imm, mems, lastSeq, nextFile, logNumber, version,
                      scheduled, flush, comp, pending, bgError, manual, view, up, kills, cuts, limits,
                      logs, tables, manifest>>
      BY <2>1 DEF vars, clients, memory, numbers, background, bounds, disk
    <3>2. NumbersOK'
      BY <3>1 DEF FileInv, NumbersOK
    <3>3. Candidates' = Candidates /\ Viewed' = Viewed /\ Named' = Named /\ HeldMems' = HeldMems
      BY <3>1 DEF Candidates, Viewed, Named, HeldMems
    <3>4. LogsOK' /\ TablesOK' /\ ManifestOK' /\ MemoryOK' /\ ViewsOK' /\ FlushOK' /\ CompOK'
      BY <3>1, <3>3 DEF FileInv, FilesOK, LogsOK, TablesOK, ManifestOK, MemoryOK, ViewsOK, FlushOK, CompOK
    <3>5. EditsOK' /\ DownOK'
      BY <3>1 DEF FileInv, FilesOK, EditsOK, DownOK, Down, Installing, Moving, Agrees
    <3> QED BY <3>2, <3>4, <3>5 DEF FilesOK
  <2>2. CASE Work
    BY <2>2, CallStepFiles, LogGroupFiles, QuietSteps, StartFlushFiles, FlushFailsFiles, LogFlushFiles,
       EndFlushFiles, StartCompactionFiles, OpenOutputFiles, FinishOutputFiles, LogCompactionFiles,
       InstallCompactionFiles, CompactionFailsFiles, StopStepFiles, OpenFiles
       DEF Work, BackgroundWork
  <2>3. CASE Environment
    BY <2>3, QuietSteps, IteratorFiles, StopStepFiles, OpenDiesFiles DEF Environment
  <2> QED BY <2>1, <2>2, <2>3 DEF Next
<1> QED BY <1>1, <1>2, <1>3 DEF FileInv

LEMMA FileInvImplies ==
  ASSUME FileInv
  PROVE  TypeOK /\ FilesPresent
<1> USE DEF FileInv, FilesOK
<1>1. /\ flush \in Flushes \cup {None} /\ comp \in Compactions \cup {None}
      /\ comp # None => comp.inputs \subseteq comp.base
      /\ group # None => group \in Groups /\ group.size \in 1..Len(writers)
  BY DEF FlushOK, CompOK, QueueOK
<1>2. \A r \in Readers : view[r] \in Views \cup {None}
  BY DEF ViewsOK
<1>3. up # "down" => DOMAIN mems = HeldMems /\ \A n \in DOMAIN mems : mems[n] \subseteq Entries
  BY DEF MemoryOK
<1>4. up = "down" => mems = <<>>
  BY DEF DownOK, Down
<1>5. view \in [Readers -> Views \cup {None}]
  BY <1>2 DEF ViewsOK
<1>6. DOMAIN mems \subseteq Nat /\ \A n \in DOMAIN mems : mems[n] \subseteq Entries
  <2>1. HeldMems \subseteq Nat
    <3>1. {mem, imm} \ {None} \subseteq Nat
      BY DEF NumbersOK
    <3>2. \A v \in Viewed : v.mems \subseteq Nat
      BY ViewedTypes
    <3> QED BY <3>1, <3>2 DEF HeldMems
  <2>2. CASE up = "down"
    <3>1. DOMAIN mems = {}
      BY <1>4, <2>2
    <3> QED BY <3>1
  <2>3. CASE up # "down"
    BY <1>3, <2>1, <2>3
  <2> QED BY <2>2, <2>3
<1>7. TypeOK
  <2> HIDE DEF Groups, Flushes, Compactions, Views, Versions, Manifests, Entries, Records
  <2>1. /\ kind \in [Calls -> Kinds] /\ st \in [Calls -> CallStates] /\ delayed \subseteq Calls
        /\ writers \in Seq(Calls) /\ mst \in [Manuals -> ManualStates] /\ mdone \subseteq Manuals
        /\ manual \in Manuals \cup {None}
    BY DEF CallsOK, QueueOK
  <2>2. /\ mem \in Nat /\ imm \in Nat \cup {None}
        /\ <<lastSeq, nextFile, logNumber>> \in Nat \X Nat \X Nat
        /\ version \in Versions /\ pending \subseteq Nat
        /\ up \in {"open", "closing", "down"} /\ kills \in Nat /\ cuts \in Nat /\ limits \in Scenarios
    BY DEF NumbersOK
  <2>3. scheduled \in BOOLEAN /\ bgError \in BOOLEAN
    BY DEF NumbersOK
  <2>4. /\ DOMAIN logs \subseteq Nat
        /\ \A n \in DOMAIN logs : logs[n] \in [recs: Seq(Records), synced: Nat]
        /\ DOMAIN tables \subseteq Nat /\ \A n \in DOMAIN tables : tables[n] \subseteq Entries
        /\ manifest \in Seq(Manifests) /\ manifest # <<>>
    BY DEF LogsOK, TablesOK, ManifestOK
  <2> HIDE DEF FileInv
  <2> QED BY <1>1, <1>3, <1>5, <1>6, <2>1, <2>2, <2>3, <2>4 DEF TypeOK
<1>8. FilesPresent
  <2>1. \A m \in ToSet(manifest) : Files(m) \subseteq DOMAIN tables
    BY CandidateSet DEF ManifestOK
  <2>2. CASE up = "down"
    BY <2>1, <2>2 DEF FilesPresent
  <2>3. CASE up # "down"
    <3>1. /\ Files(version) \subseteq DOMAIN tables
          /\ \A r \in Readers : view[r] # None => view[r].files \subseteq DOMAIN tables
          /\ {mem, imm} \ {None} \subseteq DOMAIN logs
      BY <2>3 DEF MemoryOK, ViewsOK
    <3>2. /\ comp # None => comp.base \cup comp.outs \subseteq DOMAIN tables
          /\ comp # None /\ comp.out # None => comp.out \in DOMAIN tables
      BY DEF CompOK
    <3>3. flush # None /\ ~flush.installing => flush.out \in DOMAIN tables
      BY DEF FlushOK
    <3> QED BY <2>1, <3>1, <3>2, <3>3 DEF FilesPresent
  <2> QED BY <2>2, <2>3
<1> QED BY <1>7, <1>8

\* The inductive invariant: numbers are given once, and what memory, a flush, a
\* compaction, an iterator and every readable manifest name is there.
THEOREM FilesInvariant == Spec => []FileInv
<1>1. Init => FileInv
  BY InitFiles
<1>2. FileInv /\ [Next]_vars => FileInv'
  BY StepFiles
<1> QED BY <1>1, <1>2, PTL DEF Spec

\* Every variable keeps its type, and a memtable is held exactly while the engine
\* or an iterator refers to it (MemTable::Ref and Unref).
THEOREM EveryTypeRight == Spec => []TypeOK
<1>1. FileInv => TypeOK
  BY FileInvImplies
<1> QED BY <1>1, FilesInvariant, PTL

\* DeleteObsoleteFiles deletes nothing that the version, an iterator, a flush, a
\* compaction or a recovery from any readable manifest still needs.
THEOREM NothingNeededDeleted == Spec => []FilesPresent
<1>1. FileInv => FilesPresent
  BY FileInvImplies
<1> QED BY <1>1, FilesInvariant, PTL

(* Nobody sleeps without work under way.                                   *)

Sched ==
  /\ NobodySleepsAlone
  /\ WorkToDo => scheduled
  /\ flush # None \/ comp # None => scheduled

Asleep == \/ \E c \in Calls : st[c] \in {"waiting", "flushwait"}
          \/ \E m \in Manuals : mst[m] = "waiting"

LEMMA NoneSleeps ==
  ASSUME CallsOK, st' = WokenCalls(st), mst' = WokenManuals(mst)
  PROVE  ~Asleep'
BY WokenTypes DEF Asleep

\* A background call ends: it looks for more work, and wakes everybody.
LEMMA CallEnds ==
  ASSUME CallsOK, EndBackgroundCall, flush' = None, comp' = None
  PROVE  Sched'
BY NoneSleeps DEF EndBackgroundCall, Sched, NobodySleepsAlone, Asleep

\* Nobody falls asleep, and no work is new.
LEMMA NothingNew ==
  ASSUME Sched, scheduled' = scheduled, Asleep' => Asleep, WorkToDo' => WorkToDo,
         flush' = flush \/ scheduled, comp' = comp \/ scheduled
  PROVE  Sched'
BY DEF Sched, NobodySleepsAlone, Asleep

\* The calls that return do not sleep.
LEMMA ReturnAwake ==
  ASSUME CallsOK, NEW n, NEW ok \in BOOLEAN, Return(n, ok, st), mst' = mst
  PROVE  Asleep' => Asleep
<1>1. \A c \in Calls : st'[c] = st[c] \/ st'[c] \in {"error", "flushcheck", "ok"}
  BY DEF Return
<1> QED BY <1>1 DEF Asleep

LEMMA CallStepSched ==
  ASSUME FileInv, Sched, NEW c \in Calls, CallStep(c)
  PROVE  Sched'
<1> USE DEF FileInv
<1>1. /\ UNCHANGED <<up, bgError, manual, version, flush, comp, mst>>
      /\ st \in [Calls -> CallStates]
  BY DEF CallStep, Refuse, SlowDown, WaitForRoom, WriteToMem, SwitchMemTable, SwitchFails, AwaitFlush,
         background, CallsOK
<1>2. CASE SwitchMemTable(c)
  <2>1. scheduled' = (scheduled \/ WorkToDo')
    BY <1>2 DEF SwitchMemTable, MaybeScheduleCompaction
  <2>2. Asleep' => Asleep
    <3>1. CASE Return(1, TRUE, st)
      BY <1>1, <3>1, ReturnAwake
    <3>2. CASE BuildBatchGroup
      BY <1>1, <3>2 DEF BuildBatchGroup, Asleep
    <3> QED BY <1>2, <3>1, <3>2 DEF SwitchMemTable
  <2> QED BY <1>1, <2>1, <2>2 DEF Sched, NobodySleepsAlone, Asleep
<1>3. CASE ~SwitchMemTable(c)
  <2>1. UNCHANGED <<imm, scheduled>>
    BY <1>3 DEF CallStep, Refuse, SlowDown, WaitForRoom, WriteToMem, SwitchFails, AwaitFlush,
                background, memory
  <2>2. WorkToDo' => WorkToDo
    BY <1>1, <2>1 DEF WorkToDo
  <2>3. CASE Asleep' => Asleep
    BY <1>1, <2>1, <2>2, <2>3, NothingNew
  <2>4. CASE WaitForRoom(c)
    <3>1. /\ up = "open" /\ ~bgError /\ (imm # None \/ Cardinality(version.l0) >= L0Stop)
      BY <2>4 DEF WaitForRoom, Leads, MustWait
    <3>2. Cardinality(version.l0) \in Nat
      BY FS_CardinalityType DEF NumbersOK
    <3>3. imm # None \/ Cardinality(version.l0) >= L0Compaction
      BY <3>1, <3>2, LimitsAssumption
    <3>4. scheduled
      BY <3>1, <3>3 DEF Sched, WorkToDo
    <3> QED BY <1>1, <2>1, <2>2, <3>4 DEF Sched, NobodySleepsAlone
  <2>5. CASE AwaitFlush(c)
    <3>1. up = "open" /\ st' = [st EXCEPT ![c] = CASE imm = None -> "ok"
                                              [] imm # None /\ bgError -> "error"
                                              [] OTHER -> "flushwait"]
      BY <2>5 DEF AwaitFlush
    <3>2. CASE imm # None /\ ~bgError
      <4>1. scheduled
        BY <3>1, <3>2 DEF Sched, WorkToDo
      <4> QED BY <1>1, <2>1, <2>2, <4>1 DEF Sched, NobodySleepsAlone
    <3>3. CASE imm = None \/ bgError
      <4>1. \A d \in Calls : st'[d] = st[d] \/ st'[d] \in {"ok", "error"}
        BY <1>1, <3>1, <3>3
      <4>2. Asleep' => Asleep
        BY <1>1, <4>1 DEF Asleep
      <4> QED BY <2>3, <4>2
    <3> QED BY <3>2, <3>3
  <2>6. CASE Refuse(c) \/ SwitchFails(c)
    <3>1. Return(1, FALSE, st)
      BY <2>6 DEF Refuse, SwitchFails
    <3> QED BY <1>1, <2>3, <3>1, ReturnAwake
  <2>7. CASE SlowDown(c) \/ WriteToMem(c)
    <3>1. st' = st \/ st' = [st EXCEPT ![Head(writers)] = "writing"]
      BY <2>7 DEF SlowDown, WriteToMem, BuildBatchGroup
    <3>2. Asleep' => Asleep
      BY <1>1, <3>1 DEF Asleep
    <3> QED BY <2>3, <3>2
  <2> QED BY <1>3, <2>4, <2>5, <2>6, <2>7 DEF CallStep
<1> QED BY <1>2, <1>3

LEMMA LogGroupSched ==
  ASSUME FileInv, Sched, LogGroup
  PROVE  Sched'
<1> USE DEF FileInv
<1>1. UNCHANGED <<up, imm, manual, version, flush, comp, scheduled>>
  BY DEF LogGroup, AddRecord, AddRecordFails, SyncLog, SyncFails, InsertInto, FinishWrite, Phase,
         PhaseFails, background, memory
<1>2. CASE ~FinishWrite
  <2>1. UNCHANGED <<st, mst, bgError>>
    BY <1>2 DEF LogGroup, AddRecord, AddRecordFails, SyncLog, SyncFails, InsertInto, Phase,
                PhaseFails, background, clients
  <2>2. (Asleep' => Asleep) /\ (WorkToDo' => WorkToDo)
    BY <1>1, <2>1 DEF Asleep, WorkToDo
  <2> QED BY <1>1, <2>2, NothingNew
<1>3. CASE FinishWrite
  <2>1. CASE group.status = "syncerror" /\ ~bgError
    <3>1. bgError' = TRUE /\ mst' = WokenManuals(mst) /\ Return(group.size, FALSE, WokenCalls(st))
      BY <1>3, <2>1 DEF FinishWrite
    <3>2. \A c \in Calls : st'[c] \notin {"waiting", "flushwait"}
      <4>1. \A c \in Calls : st'[c] = WokenCalls(st)[c] \/ st'[c] = "error"
        BY <3>1 DEF Return
      <4> QED BY <4>1, WokenTypes
    <3>3. ~Asleep'
      BY <3>1, <3>2, WokenTypes DEF Asleep
    <3>4. ~WorkToDo'
      BY <3>1 DEF WorkToDo
    <3> QED BY <1>1, <3>3, <3>4 DEF Sched, NobodySleepsAlone, Asleep
  <2>2. CASE ~(group.status = "syncerror" /\ ~bgError)
    <3>1. Return(group.size, group.status = "ok", st) /\ mst' = mst /\ bgError' = bgError
      BY <1>3, <2>2 DEF FinishWrite
    <3>2. Asleep' => Asleep
      BY <3>1, ReturnAwake
    <3>3. WorkToDo' => WorkToDo
      BY <1>1, <3>1 DEF WorkToDo
    <3> QED BY <1>1, <3>2, <3>3, NothingNew
  <2> QED BY <2>1, <2>2
<1> QED BY <1>2, <1>3

LEMMA BackgroundSched ==
  ASSUME FileInv, Sched, BackgroundWork
  PROVE  Sched'
<1> USE DEF FileInv
<1>1. CASE BackgroundCallIdle \/ ManualHasNothing
  <2>1. EndBackgroundCall /\ flush' = None /\ comp' = None
    BY <1>1 DEF BackgroundCallIdle, ManualHasNothing, Running
  <2> QED BY <2>1, CallEnds
<1>2. CASE \/ StartFlush \/ OpenCompactionOutputFile \/ LogCompaction \/ LogFlush(0) \/ LogFlush(1)
           \/ \E inputs \in Inputs : StartCompaction(inputs)
           \/ \E part \in SUBSET (IF comp = None THEN {} ELSE comp.left) : FinishCompactionOutputFile(part)
  <2> DEFINE Quiet == UNCHANGED <<st, mst, up, bgError, imm, manual, version, scheduled>>
  <2>4. ASSUME StartFlush PROVE Quiet /\ scheduled
    <3>1. Quiet
      BY <2>4 DEF StartFlush, clients, memory
    <3>2. scheduled
      BY <2>4 DEF StartFlush, Running, Sched
    <3> QED BY <3>1, <3>2
  <2>5. ASSUME LogFlush(0) \/ LogFlush(1) PROVE Quiet /\ scheduled
    <3>1. Quiet /\ flush # None
      BY <2>5 DEF LogFlush, Building, clients, memory
    <3> QED BY <3>1 DEF Sched
  <2>6. ASSUME OpenCompactionOutputFile \/ LogCompaction PROVE Quiet /\ scheduled
    <3>1. Quiet /\ comp # None
      BY <2>6 DEF OpenCompactionOutputFile, LogCompaction, Merging, clients, memory
    <3> QED BY <3>1 DEF Sched
  <2>7. ASSUME NEW inputs \in Inputs, StartCompaction(inputs)
        PROVE  Quiet /\ scheduled
    BY <2>7 DEF StartCompaction, Running, clients, memory
  <2>8. ASSUME NEW part, FinishCompactionOutputFile(part)
        PROVE  Quiet /\ scheduled
    <3>1. Quiet /\ comp # None
      BY <2>8 DEF FinishCompactionOutputFile, Merging, clients, memory
    <3> QED BY <3>1 DEF Sched
  <2>1. Quiet /\ scheduled
    <3> HIDE DEF Quiet
    <3> QED BY <1>2, <2>4, <2>5, <2>6, <2>7, <2>8
  <2>3. (Asleep' => Asleep) /\ (WorkToDo' => WorkToDo)
    BY <2>1 DEF Asleep, WorkToDo
  <2> QED BY <2>1, <2>3, NothingNew
<1>3. CASE BuildTableFails \/ FlushAborted \/ FlushEditFails \/ EndFlush
  <2>1. flush # None /\ flush' = None /\ comp' = comp
    BY <1>3 DEF BuildTableFails, FlushAborted, FlushEditFails, EndFlush, FlushFails, Building
  <2>2. \/ comp = None /\ EndBackgroundCall
        \/ comp # None /\ SignalAll /\ UNCHANGED scheduled
    BY <1>3 DEF BuildTableFails, FlushAborted, FlushEditFails, EndFlush, FlushFails
  <2>3. CASE comp = None /\ EndBackgroundCall
    BY <2>1, <2>3, CallEnds
  <2>4. CASE comp # None /\ SignalAll /\ UNCHANGED scheduled
    <3>1. ~Asleep'
      BY <2>4, NoneSleeps DEF SignalAll
    <3>2. scheduled' = TRUE
      BY <2>4 DEF Sched, NumbersOK
    <3> QED BY <3>1, <3>2 DEF Sched, NobodySleepsAlone, Asleep
  <2> QED BY <2>2, <2>3, <2>4
<1>4. CASE InstallCompaction \/ CompactionEditFails \/ CompactionFails
  <2>1. EndBackgroundCall /\ comp' = None /\ flush' = flush
    BY <1>4 DEF InstallCompaction, CompactionEditFails, CompactionFails, EndCompaction
  <2>2. flush = None
    BY <1>4 DEF InstallCompaction, CompactionEditFails, CompactionFails, CompactionBreaks, Merging,
                FilesOK, FlushOK
  <2> QED BY <2>1, <2>2, CallEnds
<1>5. CASE NullManual
  BY <1>5 DEF NullManual, Stop, Sched, NobodySleepsAlone, WorkToDo
<1> QED BY <1>1, <1>2, <1>3, <1>4, <1>5 DEF BackgroundWork

LEMMA StepSched ==
  ASSUME FileInv, Sched, [Next]_vars
  PROVE  Sched'
<1> USE DEF FileInv
<1>1. ASSUME NEW m \in Manuals, EndManual(m) PROVE Sched'
  <2>1. /\ UNCHANGED <<st, up, bgError, imm, version, scheduled, flush, comp>>
        /\ mst' = [mst EXCEPT ![m] = "done"]
        /\ manual' = manual \/ manual' = None
    BY <1>1 DEF EndManual, memory
  <2>2. (Asleep' => Asleep) /\ (WorkToDo' => WorkToDo)
    BY <2>1 DEF Asleep, WorkToDo, CallsOK
  <2> QED BY <2>1, <2>2, NothingNew
<1>2. ASSUME NEW m \in Manuals, AwaitManual(m) PROVE Sched'
  <2>1. /\ UNCHANGED <<up, bgError, imm, version, flush, comp>> /\ ~bgError
        /\ manual' = IF manual = None THEN m ELSE manual
        /\ scheduled' = (scheduled \/ WorkToDo')
    BY <1>2 DEF AwaitManual, MaybeScheduleCompaction
  <2>2. up = "open"
    BY <1>2 DEF AwaitManual, RestOK
  <2>3. manual' # None
    BY <2>1, NoneAssumption
  <2>4. WorkToDo'
    BY <2>1, <2>2, <2>3 DEF WorkToDo
  <2>5. scheduled' = TRUE
    BY <2>1, <2>4 DEF NumbersOK
  <2> QED BY <2>5 DEF Sched, NobodySleepsAlone
<1>3. CASE EndClose \/ Kill \/ PowerCut
  BY <1>3, StoppedBy DEF Stop, Sched, NobodySleepsAlone, WorkToDo
<1>4. CASE Open
  <2>1. /\ UNCHANGED <<st, mst, flush, comp>> /\ scheduled' = (scheduled \/ WorkToDo') /\ up = "down"
    BY <1>4 DEF Open, MaybeScheduleCompaction, clients
  <2>2. ~Asleep
    BY <2>1 DEF RestOK, Asleep
  <2>3. flush = None /\ comp = None
    BY <2>1 DEF FilesOK, DownOK, Down
  <2> QED BY <2>1, <2>2, <2>3 DEF Sched, NobodySleepsAlone, Asleep
<1>5. CASE \/ \E c \in Calls, k \in Kinds : Enqueue(c, k)
           \/ \E r \in Readers : NewIterator(r) \/ CloseIterator(r)
           \/ \E m \in Manuals : BeginManual(m)
           \/ BeginClose \/ OpenDies \/ UNCHANGED vars
  <2>1. UNCHANGED <<bgError, imm, manual, version, scheduled, flush, comp>>
    BY <1>5 DEF Enqueue, NewIterator, CloseIterator, BeginManual, BeginClose, OpenDies, vars,
                background, memory
  <2>2. up' = up \/ up' = "closing"
    BY <1>5 DEF Enqueue, NewIterator, CloseIterator, BeginManual, BeginClose, OpenDies, vars
  <2>3. /\ \A c \in Calls : st'[c] \in {st[c], "queued"}
        /\ \A m \in Manuals : mst'[m] \in {mst[m], "running"}
    BY <1>5 DEF Enqueue, NewIterator, CloseIterator, BeginManual, BeginClose, OpenDies, vars,
                clients, CallsOK
  <2>4. (Asleep' => Asleep) /\ (WorkToDo' => WorkToDo)
    BY <2>1, <2>2, <2>3 DEF Asleep, WorkToDo
  <2> QED BY <2>1, <2>4, NothingNew
<1> QED BY <1>1, <1>2, <1>3, <1>4, <1>5, CallStepSched, LogGroupSched, BackgroundSched
        DEF Next, Work, Environment

\* Whoever waits on background_work_finished_signal_ has background work scheduled.
THEOREM SleepersHaveWork == Spec => []NobodySleepsAlone
<1>1. Init => Sched
  BY DEF Init, Down, Sched, NobodySleepsAlone, WorkToDo
<1>2. FileInv /\ Sched /\ [Next]_vars => Sched'
  BY StepSched
<1>3. Sched => NobodySleepsAlone
  BY DEF Sched
<1> QED BY <1>1, <1>2, <1>3, FilesInvariant, PTL DEF Spec

-----------------------------------------------------------------------------
(* What is stored: in the tables of the directory, in the memtables, and   *)
(* in the logs that are still needed, torn records included.               *)

InFlight == IF group = None THEN {} ELSE group.entries
RecsOf(l) == UNION {logs[l].recs[i].entries : i \in DOMAIN logs[l].recs}
Contents(files) == UNION {tables[n] : n \in files}
Logged(from) == UNION {RecsOf(l) : l \in LogsFrom(from)}

\* Everything but the memtable in use and the logs.
Settled == Contents(DOMAIN tables) \cup UNION {mems[n] : n \in DOMAIN mems \ {mem}}
Stored == Settled \cup mems[mem] \cup Logged(logNumber)

\* What a recovery from state m of the manifest reads at most.
Found(m) == Contents(Files(m)) \cup Logged(m.log)

Distinct(S) == \A a, b \in S : a[2] = b[2] => a[1] = b[1]

(* The steps, as far as they touch what is stored.                         *)

\* The tables that somebody relies on.
Kept == Named \cup Files(version)
        \cup (IF comp = None THEN {} ELSE comp.base \cup comp.outs)
        \cup (IF Installing THEN flush.edit.l0 \cup flush.edit.deep ELSE {})

LEMMA KeptPresent ==
  ASSUME FileInv, up # "down"
  PROVE  Kept \subseteq DOMAIN tables
<1>1. Named \cup Files(version) \subseteq DOMAIN tables
  BY NamedPresent DEF FileInv
<1>2. comp # None => comp.base \cup comp.outs \subseteq DOMAIN tables
  BY DEF FileInv, FilesOK, CompOK
<1>3. Installing => flush.edit.l0 \cup flush.edit.deep \subseteq DOMAIN tables
  BY DEF FileInv, FilesOK, FlushOK, Installing
<1> QED BY <1>1, <1>2, <1>3 DEF Kept

\* Files are made under numbers nobody knows yet, and no table is written that
\* is relied on.
LEMMA TableStep ==
  ASSUME FileInv, up # "down", up' # "down", [Next]_vars
  PROVE  \A n \in Kept : n \in DOMAIN tables' => tables'[n] = tables[n]
<1> DEFINE Goal == \A n \in Kept : n \in DOMAIN tables' => tables'[n] = tables[n]
<1>1. Kept \subseteq DOMAIN tables /\ nextFile \notin DOMAIN tables
  BY KeptPresent DEF FileInv, FilesOK, MemoryOK, NumbersOK
<1>2. ASSUME \A n \in DOMAIN tables' : n \in DOMAIN tables => tables'[n] = tables[n]
      PROVE  Goal
  BY <1>1, <1>2
<1>3. CASE UNCHANGED vars
  BY <1>3, <1>2 DEF vars, disk
<1>4. CASE Environment
  BY <1>2, <1>4 DEF Environment, Enqueue, NewIterator, CloseIterator, BeginManual, BeginClose,
     Kill, PowerCut, Stop, OpenDies, disk
<1>5. CASE \E c \in Calls : CallStep(c)
  BY <1>2, <1>5 DEF CallStep, Refuse, SlowDown, WaitForRoom, WriteToMem, SwitchMemTable, SwitchFails,
     AwaitFlush, disk
<1>6. CASE LogGroup
  BY <1>2, <1>6 DEF LogGroup, AddRecord, AddRecordFails, SyncLog, SyncFails, InsertInto, FinishWrite,
     Phase, PhaseFails, disk
<1>7. CASE Open \/ EndClose \/ \E m \in Manuals : EndManual(m) \/ AwaitManual(m)
  BY <1>2, <1>7 DEF Open, EndClose, Stop, EndManual, AwaitManual, disk
<1>8. CASE BackgroundWork
  <2>1. ASSUME NEW f, tables' = f, NEW S, f = Restrict(tables, S) PROVE Goal
    BY <1>2, <2>1 DEF Restrict
  <2>2. ASSUME Building, BuildTable PROVE Goal
    <3>1. flush.out \notin Kept
      BY <1>1, <2>2 DEF Kept, Building, FileInv, FilesOK, FlushOK, Installing
    <3>2. tables' = Restrict(tables, DOMAIN tables \ {flush.out})
          \/ tables' = [tables EXCEPT ![flush.out] = mems[imm]]
      BY <2>2 DEF BuildTable
    <3> QED BY <3>1, <3>2, <2>1
  <2>3. ASSUME DeleteObsoleteFiles(tables, logs) PROVE Goal
    BY <1>2, <2>1, <2>3 DEF DeleteObsoleteFiles
  <2>4. ASSUME tables' = Put(tables, nextFile, {}) PROVE Goal
    BY <1>1, <1>2, <2>4 DEF Put
  <2>5. CASE StartFlush \/ OpenCompactionOutputFile
    BY <2>4, <2>5 DEF StartFlush, OpenCompactionOutputFile
  <2>6. CASE BuildTableFails \/ FlushAborted \/ LogFlush(0) \/ LogFlush(1)
    BY <2>1, <2>2, <2>6 DEF BuildTableFails, FlushAborted, LogFlush
  <2>7. CASE EndFlush \/ InstallCompaction \/ CompactionEditFails \/ CompactionFails
    <3>1. tables' = tables \/ DeleteObsoleteFiles(tables, logs)
      BY <2>7 DEF EndFlush, InstallCompaction, CompactionEditFails, CompactionFails, EndCompaction
    <3> QED BY <1>2, <2>3, <3>1
  <2>8. CASE \E part \in SUBSET (IF comp = None THEN {} ELSE comp.left) : FinishCompactionOutputFile(part)
    <3>1. PICK part : FinishCompactionOutputFile(part)
      BY <2>8
    <3>2. comp # None /\ comp.state = "writing"
          /\ tables' = [n \in DOMAIN tables |-> IF n = comp.out THEN part ELSE tables[n]]
          /\ flush = None
      BY <3>1 DEF FinishCompactionOutputFile, Merging
    <3>3. comp.out \notin Kept
      BY <3>2 DEF Kept, FileInv, FilesOK, CompOK, Installing
    <3> QED BY <1>1, <3>2, <3>3
  <2>9. CASE \/ BackgroundCallIdle \/ FlushEditFails \/ ManualHasNothing \/ LogCompaction
             \/ \E inputs \in Inputs : StartCompaction(inputs)
    BY <1>2, <2>9 DEF BackgroundCallIdle, FlushEditFails, ManualHasNothing, LogCompaction,
       StartCompaction, disk
  <2>10. CASE NullManual
    BY <1>2, <2>10 DEF NullManual, Stop
  <2> QED BY <1>8, <2>5, <2>6, <2>7, <2>8, <2>9, <2>10 DEF BackgroundWork
<1> QED BY <1>3, <1>4, <1>5, <1>6, <1>7, <1>8 DEF Next, Work

\* What is logged is numbered to the end.
LEMMA CandidateStep ==
  ASSUME FileInv, up # "down", up' # "down", [Next]_vars
  PROVE  \A m \in Candidates' : m \in Candidates \/ (m.seq = lastSeq /\ lastSeq' = lastSeq)
<1> DEFINE Goal == \A m \in Candidates' : m \in Candidates \/ (m.seq = lastSeq /\ lastSeq' = lastSeq)
<1>1. ASSUME manifest' = manifest PROVE Goal
  BY <1>1 DEF Candidates
<1>2. ManifestOK /\ NumbersOK /\ MemoryOK
  BY DEF FileInv, FilesOK
<1>3. ASSUME NEW edit, NEW log, LogEdit(edit, log), lastSeq' = lastSeq PROVE Goal
  <2> DEFINE x == [Apply(edit, Last(manifest)) EXCEPT !.log = log, !.next = nextFile', !.seq = lastSeq]
  <2>1. manifest' = Append(manifest, x)
    BY <1>3 DEF LogEdit
  <2>2. Last(manifest) \in Manifests
    BY <1>2, CandidateTypes
  <2>3. x.seq = lastSeq
    BY <2>2 DEF Apply, Manifests
  <2> HIDE DEF x
  <2>4. \A i \in DOMAIN manifest' : manifest'[i] = x \/ (i \in DOMAIN manifest /\ manifest'[i] = manifest[i])
    BY <1>2, <2>1 DEF ManifestOK
  <2> QED BY <1>3, <2>3, <2>4 DEF Candidates
<1>4. ASSUME manifest' = <<Last(manifest)>> PROVE Goal
  BY <1>2, <1>4, EditTaken
<1>5. ASSUME EditFails, NEW x \in {flush, comp}, x # None,
             x = flush => flush.installing, x = comp => comp.state = "installing"
      PROVE Goal
  <2>1. Len(manifest) >= 2
    BY <1>5 DEF FileInv, FilesOK, FlushOK, CompOK
  <2>2. manifest' = manifest \/ manifest' = Front(manifest)
    BY <1>5 DEF EditFails
  <2> QED BY <1>2, <2>1, <2>2, FrontEffect
<1>6. CASE UNCHANGED vars
  BY <1>6, <1>1 DEF vars, disk
<1>7. CASE Environment
  BY <1>1, <1>7 DEF Environment, Enqueue, NewIterator, CloseIterator, BeginManual, BeginClose,
     Kill, PowerCut, Stop, OpenDies, disk
<1>8. CASE \E c \in Calls : CallStep(c)
  BY <1>1, <1>8 DEF CallStep, Refuse, SlowDown, WaitForRoom, WriteToMem, SwitchMemTable, SwitchFails,
     AwaitFlush, disk
<1>9. CASE LogGroup
  BY <1>1, <1>9 DEF LogGroup, AddRecord, AddRecordFails, SyncLog, SyncFails, InsertInto, FinishWrite,
     Phase, PhaseFails, disk
<1>10. CASE Open \/ EndClose \/ \E m \in Manuals : EndManual(m) \/ AwaitManual(m)
  BY <1>1, <1>10 DEF Open, EndClose, Stop, EndManual, AwaitManual, disk
<1>11. CASE BackgroundWork
  <2>1. CASE \/ StartFlush \/ OpenCompactionOutputFile \/ BuildTableFails \/ FlushAborted
             \/ BackgroundCallIdle \/ ManualHasNothing \/ CompactionFails
             \/ \E part \in SUBSET (IF comp = None THEN {} ELSE comp.left) : FinishCompactionOutputFile(part)
    BY <1>1, <2>1 DEF StartFlush, OpenCompactionOutputFile, BuildTableFails, FlushAborted,
       BackgroundCallIdle, ManualHasNothing, CompactionFails, FinishCompactionOutputFile, disk
  <2>2. CASE LogFlush(0) \/ LogFlush(1) \/ LogCompaction
    BY <1>3, <2>2 DEF LogFlush, LogCompaction
  <2>3. CASE \E inputs \in Inputs : StartCompaction(inputs)
    BY <1>1, <1>3, <2>3 DEF StartCompaction
  <2>4. CASE EndFlush \/ InstallCompaction
    BY <1>4, <2>4 DEF EndFlush, InstallCompaction, InstallEdit
  <2>5. CASE FlushEditFails
    BY <1>5, <2>5 DEF FlushEditFails, FileInv, FilesOK, FlushOK
  <2>6. CASE CompactionEditFails
    <3>1. EditFails /\ comp # None /\ comp.state = "installing"
      BY <2>6 DEF CompactionEditFails
    <3>2. flush = None
      BY <3>1 DEF FileInv, FilesOK, FlushOK
    <3> QED BY <1>5, <3>1, <3>2
  <2>7. CASE NullManual
    BY <2>7 DEF NullManual, Stop
  <2> QED BY <1>11, <2>1, <2>2, <2>3, <2>4, <2>5, <2>6, <2>7 DEF BackgroundWork
<1> QED BY <1>6, <1>7, <1>8, <1>9, <1>10, <1>11 DEF Next, Work

\* A step that stores nothing new: tables get what other tables or flushed
\* memtables hold, memtables and logs only go.
Frame ==
  /\ lastSeq' = lastSeq /\ group' = group /\ mem' = mem
  /\ \A n \in DOMAIN tables' : tables'[n] \subseteq Settled
  /\ \A n \in DOMAIN mems' : n \in DOMAIN mems /\ mems'[n] = mems[n]
  /\ mem \in DOMAIN mems'
  /\ \A l \in DOMAIN logs' : l >= logNumber' => l \in DOMAIN logs /\ l >= logNumber /\ logs'[l] = logs[l]

LEMMA FrameEffect ==
  ASSUME Frame
  PROVE  /\ InFlight' = InFlight /\ Settled' \subseteq Settled /\ Stored' \subseteq Stored
         /\ mems'[mem] = mems[mem]
<1> USE DEF Frame
<1>1. InFlight' = InFlight
  BY DEF InFlight
<1>2. Settled' \subseteq Settled
  <2>1. Contents(DOMAIN tables)' \subseteq Settled
    BY DEF Contents
  <2>2. ASSUME NEW e \in UNION {mems'[n] : n \in DOMAIN mems' \ {mem}} PROVE e \in Settled
    <3>1. PICK n \in DOMAIN mems' \ {mem} : e \in mems'[n]
      BY <2>2
    <3>2. n \in DOMAIN mems \ {mem} /\ e \in mems[n]
      BY <3>1
    <3> QED BY <3>2 DEF Settled
  <2>3. Settled' = Contents(DOMAIN tables)' \cup UNION {mems'[n] : n \in DOMAIN mems' \ {mem}}
    BY DEF Settled
  <2> QED BY <2>1, <2>2, <2>3
<1>3. Logged(logNumber)' \subseteq Logged(logNumber)
  <2> SUFFICES ASSUME NEW e \in Logged(logNumber)' PROVE e \in Logged(logNumber)
    OBVIOUS
  <2>1. PICK l \in LogsFrom(logNumber)' : e \in RecsOf(l)'
    BY DEF Logged
  <2>2. l \in LogsFrom(logNumber) /\ logs'[l] = logs[l]
    BY <2>1 DEF LogsFrom
  <2>3. RecsOf(l)' = RecsOf(l)
    BY <2>2 DEF RecsOf
  <2> QED BY <2>1, <2>2, <2>3 DEF Logged
<1> QED BY <1>1, <1>2, <1>3 DEF Stored

\* What the compaction under way has still to write are entries of its inputs.
LeftOK == comp # None => comp.left \subseteq Contents(comp.inputs)

LEMMA LeftStored ==
  ASSUME FileInv, LeftOK, comp # None
  PROVE  comp.left \subseteq Settled
<1>1. comp.inputs \subseteq DOMAIN tables
  BY DEF FileInv, FilesOK, CompOK
<1>2. Contents(comp.inputs) \subseteq Contents(DOMAIN tables)
  BY <1>1 DEF Contents
<1> QED BY <1>2 DEF LeftOK, Settled

LEMMA TableWithin ==
  ASSUME NEW n \in DOMAIN tables
  PROVE  tables[n] \subseteq Settled
BY DEF Settled, Contents

\* The steps that store nothing.
Writing == \/ \E c \in Calls : WriteToMem(c) \/ SwitchMemTable(c)
           \/ AddRecord \/ AddRecordFails \/ InsertInto \/ FinishWrite
           \/ SyncLog \/ SyncFails

LEMMA FrameStep ==
  ASSUME FileInv, LeftOK, up # "down", up' # "down", [Next]_vars
  PROVE  Frame \/ Writing
<1> SUFFICES ASSUME ~Writing PROVE Frame
  OBVIOUS
<1>1. /\ mem \in DOMAIN mems /\ mem \in Nat /\ mem \in HeldMems
      /\ imm # None => imm \in DOMAIN mems /\ imm < mem /\ imm \in Nat
      /\ logNumber = IF imm = None THEN mem ELSE imm
  BY MemHeld, NoneAssumption DEF FileInv, FilesOK, MemoryOK, NumbersOK, HeldMems
<1> DEFINE Still == lastSeq' = lastSeq /\ group' = group /\ mem' = mem
           Memory == mems' = mems \/ mems' = Unref(mems)
           Logs == logs' = logs /\ logNumber' = logNumber
           OldTables == \A n \in DOMAIN tables' : n \in DOMAIN tables /\ tables'[n] = tables[n]
<1>2. ASSUME mems' = mems, mem' = mem
      PROVE  /\ mem \in DOMAIN mems'
             /\ \A n \in DOMAIN mems' : n \in DOMAIN mems /\ mems'[n] = mems[n]
  BY <1>1, <1>2
<1>3. ASSUME mems' = Unref(mems), mem' = mem
      PROVE  /\ mem \in DOMAIN mems'
             /\ \A n \in DOMAIN mems' : n \in DOMAIN mems /\ mems'[n] = mems[n]
  <2>1. mem \in HeldMems'
    BY <1>1, <1>3, NoneAssumption DEF HeldMems
  <2> QED BY <1>1, <1>3, <2>1 DEF Unref, Restrict
<1>4. \A n \in DOMAIN tables : tables[n] \subseteq Settled
  BY TableWithin
<1>5. ASSUME Still, Memory, Logs, \A n \in DOMAIN tables' : tables'[n] \subseteq Settled
      PROVE  Frame
  BY <1>2, <1>3, <1>5 DEF Frame
<1>6. ASSUME Still, Memory, Logs, OldTables
      PROVE  Frame
  BY <1>4, <1>5, <1>6
<1>7. CASE UNCHANGED vars
  BY <1>6, <1>7 DEF vars, disk, memory, numbers
<1>8. CASE Environment
  BY <1>6, <1>8 DEF Environment, Enqueue, NewIterator, CloseIterator, BeginManual, BeginClose,
     Kill, PowerCut, Stop, OpenDies, disk, memory, numbers
<1>9. CASE \E c \in Calls : CallStep(c)
  BY <1>6, <1>9 DEF CallStep, Refuse, SlowDown, WaitForRoom, SwitchFails, Writing,
     AwaitFlush, disk, memory, numbers
<1>10. CASE LogGroup
  BY <1>6, <1>10 DEF LogGroup, Writing
<1>11. CASE Open \/ EndClose \/ \E m \in Manuals : EndManual(m) \/ AwaitManual(m)
  <2>1. ~Open
    BY DEF Open
  <2> QED BY <1>6, <1>11, <2>1 DEF EndClose, Stop, EndManual, AwaitManual, disk, memory, numbers
<1>12. CASE BackgroundWork
  <2>1. ASSUME NEW f, NEW S, f = Restrict(tables, S), tables' = f, S \subseteq DOMAIN tables PROVE OldTables
    BY <2>1 DEF Restrict
  <2>2. ASSUME Building, BuildTable PROVE \A n \in DOMAIN tables' : tables'[n] \subseteq Settled
    <3>1. imm \in DOMAIN mems \ {mem}
      BY <1>1, <2>2 DEF Building, FileInv, FilesOK, FlushOK
    <3>2. mems[imm] \subseteq Settled
      BY <3>1 DEF Settled
    <3>3. tables' = Restrict(tables, DOMAIN tables \ {flush.out})
          \/ tables' = [tables EXCEPT ![flush.out] = mems[imm]]
      BY <2>2 DEF BuildTable
    <3>4. CASE tables' = Restrict(tables, DOMAIN tables \ {flush.out})
      BY <1>4, <3>4 DEF Restrict
    <3>5. CASE tables' = [tables EXCEPT ![flush.out] = mems[imm]]
      BY <1>4, <3>2, <3>5
    <3> QED BY <3>3, <3>4, <3>5
  <2>3. ASSUME DeleteObsoleteFiles(tables, logs), logNumber' >= logNumber, logNumber' \in Nat
        PROVE  /\ OldTables
               /\ \A l \in DOMAIN logs' : l >= logNumber' => l \in DOMAIN logs /\ l >= logNumber /\ logs'[l] = logs[l]
    <3>1. /\ \A n \in DOMAIN tables : tables[n] \subseteq Entries /\ DOMAIN tables \subseteq Nat
          /\ DOMAIN logs \subseteq Nat
      BY DEF FileInv, FilesOK, TablesOK, LogsOK
    <3>2. OldTables /\ \A l \in DOMAIN logs' : l \in DOMAIN logs /\ logs'[l] = logs[l]
      BY <2>3 DEF DeleteObsoleteFiles, Restrict
    <3>3. logNumber \in Nat
      BY DEF FileInv, NumbersOK
    <3> QED BY <2>3, <3>1, <3>2, <3>3
  <2>4. CASE StartFlush \/ OpenCompactionOutputFile
    <3>1. tables' = Put(tables, nextFile, {}) /\ Still /\ Memory /\ Logs
      BY <2>4 DEF StartFlush, OpenCompactionOutputFile, memory
    <3>2. \A n \in DOMAIN tables' : tables'[n] \subseteq Settled
      BY <1>4, <3>1 DEF Put
    <3> QED BY <1>5, <3>1, <3>2
  <2>5. CASE BuildTableFails
    <3>1. Still /\ Memory /\ Logs /\ tables' = Restrict(tables, DOMAIN tables \ {flush.out})
      BY <2>5 DEF BuildTableFails, numbers
    <3> QED BY <1>6, <2>1, <3>1
  <2>6. CASE FlushAborted \/ LogFlush(0) \/ LogFlush(1)
    <3>1. Still /\ Memory /\ Logs /\ Building /\ BuildTable
      BY <2>6 DEF FlushAborted, LogFlush, numbers, memory
    <3> QED BY <1>5, <2>2, <3>1
  <2>7. CASE EndFlush
    <3>1. Still /\ Memory /\ logNumber' = flush.log /\ DeleteObsoleteFiles(tables, logs)
      BY <2>7 DEF EndFlush, InstallEdit
    <3>2. imm # None /\ flush.log = mem
      BY <2>7 DEF EndFlush, FileInv, FilesOK, FlushOK
    <3>3. logNumber' >= logNumber /\ logNumber' \in Nat
      BY <1>1, <3>1, <3>2
    <3> QED BY <1>2, <1>3, <1>4, <2>3, <3>1, <3>3 DEF Frame
  <2>8. CASE InstallCompaction \/ CompactionEditFails \/ CompactionFails
    <3>1. Still /\ mems' = mems /\ logNumber' = logNumber
      BY <2>8 DEF InstallCompaction, CompactionEditFails, CompactionFails, EndCompaction, InstallEdit, EditFails
    <3>2. (tables' = tables /\ logs' = logs) \/ DeleteObsoleteFiles(tables, logs)
      BY <2>8 DEF InstallCompaction, CompactionEditFails, CompactionFails, EndCompaction
    <3>3. logNumber' >= logNumber /\ logNumber' \in Nat
      BY <3>1 DEF FileInv, NumbersOK
    <3>4. CASE tables' = tables /\ logs' = logs
      BY <1>6, <3>1, <3>4
    <3>5. CASE DeleteObsoleteFiles(tables, logs)
      BY <1>2, <1>4, <2>3, <3>1, <3>3, <3>5 DEF Frame
    <3> QED BY <3>2, <3>4, <3>5
  <2>9. CASE \E part \in SUBSET (IF comp = None THEN {} ELSE comp.left) : FinishCompactionOutputFile(part)
    <3>1. PICK part : FinishCompactionOutputFile(part)
      BY <2>9
    <3>2. comp # None /\ part \subseteq comp.left /\ Still /\ Memory /\ Logs
          /\ tables' = [n \in DOMAIN tables |-> IF n = comp.out THEN part ELSE tables[n]]
      BY <3>1 DEF FinishCompactionOutputFile, Merging, memory, numbers
    <3>3. part \subseteq Settled
      BY <3>2, LeftStored
    <3>4. \A n \in DOMAIN tables' : tables'[n] \subseteq Settled
      BY <1>4, <3>2, <3>3
    <3> QED BY <1>5, <3>2, <3>4
  <2>10. CASE \/ BackgroundCallIdle \/ FlushEditFails \/ ManualHasNothing \/ LogCompaction
              \/ \E inputs \in Inputs : StartCompaction(inputs)
    BY <1>6, <2>10 DEF BackgroundCallIdle, FlushEditFails, ManualHasNothing, LogCompaction,
       StartCompaction, EditFails, disk, memory, numbers
  <2>11. CASE NullManual
    BY <2>11 DEF NullManual, Stop
  <2> QED BY <1>12, <2>4, <2>5, <2>6, <2>7, <2>8, <2>9, <2>10, <2>11 DEF BackgroundWork
<1> QED BY <1>7, <1>8, <1>9, <1>10, <1>11, <1>12 DEF Next, Work

(* Sequence numbers.                                                       *)

\* A group takes the numbers that follow the last one given, each once.
LEMMA NumberedFresh ==
  ASSUME QueueOK, lastSeq \in Nat, NEW n \in 1..Len(writers)
  PROVE  /\ \A e \in Numbered(n) : lastSeq < e[2] /\ e[2] <= lastSeq + Cardinality(Numbered(n))
         /\ Distinct(Numbered(n))
<1> DEFINE data == {i \in 1..n : kind[writers[i]] # "flush"}
           upto(i) == {j \in data : j <= i}
           number == [i \in data |-> <<writers[i], lastSeq + Cardinality(upto(i))>>]
<1>1. /\ Len(writers) \in Nat /\ n \in Nat /\ n <= Len(writers)
      /\ \A i, j \in 1..n : writers[i] = writers[j] => i = j
  BY DEF QueueOK
<1>2. IsFiniteSet(data)
  <2>1. data \subseteq 1..n /\ IsFiniteSet(1..n)
    BY <1>1, FS_Interval
  <2> HIDE DEF data
  <2> QED BY <2>1, FS_Subset
<1>3. ASSUME NEW i \in data
      PROVE  /\ IsFiniteSet(upto(i)) /\ Cardinality(upto(i)) \in Nat /\ i \in upto(i)
             /\ 0 < Cardinality(upto(i)) /\ Cardinality(upto(i)) <= Cardinality(data)
  <2> DEFINE T == upto(i)
  <2>1. T \in SUBSET data /\ i \in T
    BY <1>1
  <2> HIDE DEF data, T
  <2>2. IsFiniteSet(T) /\ Cardinality(T) <= Cardinality(data) /\ Cardinality(T) \in Nat
    BY <1>2, <2>1, FS_Subset, FS_CardinalityType
  <2>3. Cardinality(T) # 0
    BY <2>1, <2>2, FS_EmptySet
  <2>4. 0 < Cardinality(T)
    BY <2>2, <2>3
  <2> QED BY <2>1, <2>2, <2>4 DEF T
<1>4. ASSUME NEW i \in data, NEW k \in data, i < k
      PROVE  Cardinality(upto(i)) < Cardinality(upto(k))
  <2> DEFINE S == upto(k)
             T == upto(i)
  <2>1. T \in SUBSET S /\ k \in S /\ k \notin T
    BY <1>1, <1>4
  <2>2. IsFiniteSet(S) /\ Cardinality(S) \in Nat /\ Cardinality(T) \in Nat
    BY <1>3
  <2> HIDE DEF data, S, T
  <2>3. Cardinality(T) <= Cardinality(S) /\ Cardinality(T) # Cardinality(S)
    <3>1. T # S
      BY <2>1
    <3> QED BY <2>1, <2>2, <3>1, FS_Subset
  <2>4. Cardinality(T) < Cardinality(S)
    BY <2>2, <2>3
  <2> QED BY <2>4 DEF S, T
<1>5. Numbered(n) = {number[i] : i \in data}
  BY DEF Numbered
<1>6. \A i \in data : number[i] = <<writers[i], lastSeq + Cardinality(upto(i))>>
  OBVIOUS
<1>7. Cardinality(Numbered(n)) = Cardinality(data) /\ Cardinality(data) \in Nat
  <2> DEFINE T == Numbered(n)
  <2>1. \A i, k \in data : number[i] = number[k] => i = k
    BY <1>1, <1>6
  <2>2. number \in Bijection(data, T)
    <3>1. number \in [data -> T]
      BY <1>5
    <3> HIDE DEF number, data
    <3> QED BY <1>5, <2>1, <3>1 DEF Bijection, Injection, Surjection, IsInjective
  <2> HIDE DEF number, data, T
  <2>3. ExistsBijection(data, T)
    BY <2>2 DEF ExistsBijection
  <2>4. Cardinality(T) = Cardinality(data)
    BY <1>2, <2>3, FS_Bijection
  <2> QED BY <1>2, <2>4, FS_CardinalityType DEF T
<1> HIDE DEF number, data
<1>8. ASSUME NEW e \in Numbered(n)
      PROVE  lastSeq < e[2] /\ e[2] <= lastSeq + Cardinality(Numbered(n))
  <2>1. PICK i \in data : e = <<writers[i], lastSeq + Cardinality(upto(i))>>
    BY <1>5, <1>6
  <2>2. e[2] = lastSeq + Cardinality(upto(i))
    BY <2>1
  <2> HIDE DEF upto
  <2> QED BY <1>3, <1>7, <2>2
<1>9. ASSUME NEW a \in Numbered(n), NEW b \in Numbered(n), a[2] = b[2] PROVE a[1] = b[1]
  <2>1. PICK i \in data : a = <<writers[i], lastSeq + Cardinality(upto(i))>>
    BY <1>5, <1>6
  <2>2. PICK k \in data : b = <<writers[k], lastSeq + Cardinality(upto(k))>>
    BY <1>5, <1>6
  <2>3. i \in Nat /\ k \in Nat
    BY <1>1 DEF data
  <2>4. a[2] = lastSeq + Cardinality(upto(i)) /\ b[2] = lastSeq + Cardinality(upto(k))
        /\ a[1] = writers[i] /\ b[1] = writers[k]
    BY <2>1, <2>2
  <2>5. Cardinality(upto(i)) \in Nat /\ Cardinality(upto(k)) \in Nat
    BY <1>3
  <2> DEFINE p == Cardinality(upto(i))
             q == Cardinality(upto(k))
  <2>6. p = q
    <3>1. lastSeq + p = lastSeq + q /\ p \in Nat /\ q \in Nat
      BY <1>9, <2>4, <2>5
    <3> HIDE DEF p, q
    <3> QED BY <3>1
  <2> HIDE DEF upto
  <2>7. i = k
    BY <1>4, <2>3, <2>5, <2>6
  <2> QED BY <2>4, <2>7
<1> QED BY <1>8, <1>9 DEF Distinct

\* Whatever is stored was numbered: what a group in flight writes, after the
\* last sequence, everything else up to it.
EntriesOK ==
  /\ \A e \in Stored : e[2] <= lastSeq \/ e \in InFlight
  /\ \A e \in Settled : e[2] <= lastSeq
  /\ \A e \in InFlight : lastSeq < e[2] /\ e[2] <= lastSeq + Cardinality(InFlight)
  /\ Distinct(Stored \cup InFlight)

LEMMA EntriesKept ==
  ASSUME EntriesOK, InFlight' = InFlight, lastSeq' = lastSeq, Settled' \subseteq Settled,
         Stored' \subseteq Stored \cup InFlight
  PROVE  EntriesOK'
<1>1. Stored' \cup InFlight' \subseteq Stored \cup InFlight
  OBVIOUS
<1>2. Distinct(Stored \cup InFlight)'
  BY <1>1 DEF EntriesOK, Distinct
<1> QED BY <1>2 DEF EntriesOK

\* A group is built when none is in flight.
LEMMA EntriesNumbered ==
  ASSUME EntriesOK, QueueOK, lastSeq \in Nat, writers # <<>>, group = None, BuildBatchGroup,
         lastSeq' = lastSeq, Stored' \subseteq Stored
  PROVE  EntriesOK'
<1> DEFINE n == GroupSize
           new == Numbered(n)
<1>1. n \in 1..Len(writers)
  BY GroupSizeInQueue
<1>2. /\ \A e \in new : lastSeq < e[2] /\ e[2] <= lastSeq + Cardinality(new)
      /\ Distinct(new)
  BY <1>1, NumberedFresh
<1>3. InFlight = {}
  BY DEF InFlight
<1>4. \A e \in Stored : e[2] <= lastSeq
  BY <1>3 DEF EntriesOK
<1>5. new \subseteq Entries
  BY <1>1, NumberedEffect
<1>6. InFlight' = new
  <2>1. group' # None
    <3>1. IsFiniteSet(new) /\ n \in Nat
      BY <1>1, NumberedEffect DEF QueueOK
    <3>2. group' \in Groups
      <4> HIDE DEF new, n
      <4>1. group' = [phase |-> "append", size |-> n, entries |-> new, status |-> "ok"]
        BY DEF BuildBatchGroup, new, n
      <4> QED BY <1>5, <3>1, <4>1 DEF Groups
    <3> QED BY <3>2, NoneAssumption
  <2>2. group'.entries = new
    BY DEF BuildBatchGroup
  <2> QED BY <2>1, <2>2 DEF InFlight
<1> HIDE DEF new
<1>7. \A a \in Stored : \A b \in new : a[2] # b[2]
  <2>1. \A e \in new : e[2] \in Nat
    BY <1>5 DEF Entries
  <2> QED BY <1>2, <1>4, <2>1
<1>8. Distinct(Stored \cup InFlight)'
  <2>1. Distinct(Stored)
    BY DEF EntriesOK, Distinct
  <2>2. Distinct(Stored \cup new)
    BY <1>2, <1>7, <2>1 DEF Distinct
  <2> QED BY <1>6, <2>2 DEF Distinct
<1>9. Settled' \subseteq Stored
  BY DEF Stored
<1> QED BY <1>2, <1>4, <1>6, <1>8, <1>9 DEF EntriesOK

\* The invariant.  A snapshot, and every state of the manifest, ends where the
\* sequence did; what is found at a recovery bears no number twice either.
Sequences ==
  /\ LeftOK
  /\ \A m \in Candidates : \A e \in Contents(Files(m)) : e[2] <= m.seq
  /\ up = "down" => Distinct(Found(manifest[1]))
  /\ up # "down" =>
       /\ EntriesOK
       /\ \A m \in Candidates : m.seq <= lastSeq
       /\ \A r \in Readers : view[r] # None => view[r].snapshot <= lastSeq

LEMMA WritingTypes ==
  ASSUME FileInv, up # "down"
  PROVE  /\ mem \in DOMAIN mems /\ mem \in DOMAIN logs /\ mem \in Nat /\ mem >= logNumber
         /\ logNumber \in Nat /\ lastSeq \in Nat
         /\ \A l \in DOMAIN logs : logs[l].recs \in Seq(Records)
<1>1. mem \in DOMAIN mems /\ mem \in DOMAIN logs /\ (imm # None => imm < mem /\ imm \in Nat)
  BY MemHeld, NoneAssumption DEF FileInv, FilesOK, MemoryOK
<1>2. mem \in Nat /\ logNumber \in Nat /\ lastSeq \in Nat /\ logNumber = IF imm = None THEN mem ELSE imm
  BY DEF FileInv, FilesOK, MemoryOK, NumbersOK
<1> QED BY <1>1, <1>2 DEF FileInv, FilesOK, LogsOK

\* A record of the group is added to the log in use.
LEMMA LogGrows ==
  ASSUME FileInv, up # "down", group # None, NEW w \in BOOLEAN,
         UNCHANGED <<mem, logNumber>>,
         logs' = [logs EXCEPT ![mem].recs = Append(@, [entries |-> group.entries, whole |-> w])]
  PROVE  /\ Logged(logNumber)' \subseteq Logged(logNumber) \cup InFlight
         /\ DOMAIN logs' = DOMAIN logs
         /\ \A l \in DOMAIN logs : l # mem => logs'[l] = logs[l]
<1> DEFINE rec == [entries |-> group.entries, whole |-> w]
           recs == logs[mem].recs
<1>1. mem \in DOMAIN logs /\ recs \in Seq(Records)
  BY WritingTypes
<1>2. /\ DOMAIN logs' = DOMAIN logs /\ \A l \in DOMAIN logs : l # mem => logs'[l] = logs[l]
      /\ logs'[mem].recs = Append(recs, rec)
  <2> HIDE DEF rec
  <2>1. logs[mem] \in [recs: Seq(Records), synced: Nat]
    BY <1>1 DEF FileInv, FilesOK, LogsOK
  <2>2. logs' = [logs EXCEPT ![mem] = [logs[mem] EXCEPT !.recs = Append(recs, rec)]]
    BY DEF rec
  <2> QED BY <1>1, <2>1, <2>2
<1>3. rec.entries = group.entries
  OBVIOUS
<1> HIDE DEF rec, recs
<1>4. \A i \in DOMAIN Append(recs, rec) : Append(recs, rec)[i] = rec \/ (i \in DOMAIN recs /\ Append(recs, rec)[i] = recs[i])
  BY <1>1
<1>5. ASSUME NEW e \in Logged(logNumber)' PROVE e \in Logged(logNumber) \cup InFlight
  <2>1. PICK l \in LogsFrom(logNumber)' : e \in RecsOf(l)'
    BY <1>5 DEF Logged
  <2>2. l \in LogsFrom(logNumber)
    BY <1>2, <2>1 DEF LogsFrom
  <2>3. PICK i \in DOMAIN logs'[l].recs : e \in logs'[l].recs[i].entries
    BY <2>1 DEF RecsOf
  <2>4. CASE l # mem
    <3>1. e \in RecsOf(l)
      BY <1>2, <2>2, <2>3, <2>4 DEF RecsOf, LogsFrom
    <3> QED BY <2>2, <3>1 DEF Logged
  <2>5. CASE l = mem
    <3>1. e \in rec.entries \/ (i \in DOMAIN recs /\ e \in recs[i].entries)
      BY <1>2, <1>4, <2>3, <2>5
    <3>2. e \in InFlight \/ e \in RecsOf(mem)
      BY <1>3, <3>1 DEF InFlight, RecsOf, recs
    <3> QED BY <2>2, <2>5, <3>2 DEF Logged
  <2> QED BY <2>4, <2>5
<1> QED BY <1>2, <1>5

\* The memtable in use has nothing more to come: it may be left.
LEMMA SwitchStored ==
  ASSUME FileInv, NEW c \in Calls, SwitchMemTable(c)
  PROVE  /\ Settled' = Settled \cup mems[mem] /\ Stored' \subseteq Stored
         /\ mems'[mem'] = {}
         /\ \A n \in DOMAIN mems : n \in DOMAIN mems' /\ mems'[n] = mems[n]
<1>1. /\ logs' = Put(logs, nextFile, EmptyLog) /\ mem' = nextFile
      /\ mems' = Put(mems, nextFile, {}) /\ logNumber' = logNumber /\ tables' = tables
      /\ up # "down"
  BY DEF SwitchMemTable, Leads
<1>2. mem \in DOMAIN mems /\ nextFile \notin DOMAIN mems /\ nextFile \notin DOMAIN logs
  BY <1>1, WritingTypes DEF FileInv, FilesOK, MemoryOK, NumbersOK
<1>3. /\ DOMAIN mems' = DOMAIN mems \cup {nextFile} /\ mems'[nextFile] = {}
      /\ \A n \in DOMAIN mems : mems'[n] = mems[n]
  BY <1>1, <1>2 DEF Put
<1>4. Contents(DOMAIN tables)' = Contents(DOMAIN tables)
  BY <1>1 DEF Contents
<1>5. Settled' = Settled \cup mems[mem]
  <2>1. DOMAIN mems' \ {mem'} = DOMAIN mems
    BY <1>1, <1>2, <1>3
  <2>2. UNION {mems'[n] : n \in DOMAIN mems' \ {mem'}} = (UNION {mems[n] : n \in DOMAIN mems \ {mem}}) \cup mems[mem]
    <3>1. \A e : e \in UNION {mems'[n] : n \in DOMAIN mems' \ {mem'}} <=> \E n \in DOMAIN mems : e \in mems[n]
      BY <1>3, <2>1
    <3>2. \A e : e \in (UNION {mems[n] : n \in DOMAIN mems \ {mem}}) \cup mems[mem]
             <=> \E n \in DOMAIN mems : e \in mems[n]
      BY <1>2
    <3> QED BY <3>1, <3>2
  <2> QED BY <1>4, <2>2 DEF Settled
<1>6. Logged(logNumber)' \subseteq Logged(logNumber)
  <2> SUFFICES ASSUME NEW e \in Logged(logNumber)' PROVE e \in Logged(logNumber)
    OBVIOUS
  <2>1. PICK l \in LogsFrom(logNumber)' : e \in RecsOf(l)'
    BY DEF Logged
  <2>2. DOMAIN logs' = DOMAIN logs \cup {nextFile} /\ logs'[nextFile] = EmptyLog
        /\ \A n \in DOMAIN logs : logs'[n] = logs[n]
    BY <1>1, <1>2 DEF Put
  <2>3. l # nextFile
    BY <2>1, <2>2 DEF RecsOf, EmptyLog
  <2>4. l \in LogsFrom(logNumber) /\ e \in RecsOf(l)
    BY <1>1, <2>1, <2>2, <2>3 DEF LogsFrom, RecsOf
  <2> QED BY <2>4 DEF Logged
<1> QED BY <1>1, <1>3, <1>5, <1>6 DEF Stored

\* What the steps that write leave behind.
LEMMA WritingEntries ==
  ASSUME FileInv, Sequences, up # "down", Writing
  PROVE  EntriesOK' /\ Stored' \subseteq Stored \cup InFlight
<1> USE DEF FileInv
<1>1. EntriesOK /\ QueueOK /\ lastSeq \in Nat /\ mem \in DOMAIN mems
  BY WritingTypes DEF Sequences
<1>2. CASE \E c \in Calls : WriteToMem(c)
  <2>1. PICK c \in Calls : WriteToMem(c)
    BY <1>2
  <2>2. /\ Leads(c) /\ BuildBatchGroup /\ lastSeq' = lastSeq
        /\ UNCHANGED <<mem, mems, logNumber, tables, logs>>
    BY <2>1 DEF WriteToMem, memory, numbers, disk
  <2>3. group = None /\ writers # <<>>
    BY <2>2, LeaderAlone DEF Leads
  <2>4. Stored' = Stored
    BY <2>2 DEF Stored, Settled, Contents, Logged, LogsFrom, RecsOf
  <2> QED BY <1>1, <2>2, <2>3, <2>4, EntriesNumbered
<1>3. CASE \E c \in Calls : SwitchMemTable(c)
  <2>1. PICK c \in Calls : SwitchMemTable(c)
    BY <1>3
  <2>2. Leads(c) /\ lastSeq' = lastSeq /\ (BuildBatchGroup \/ group' = group)
    BY <2>1 DEF SwitchMemTable
  <2>3. group = None /\ writers # <<>> /\ InFlight = {}
    BY <2>2, LeaderAlone DEF Leads, InFlight
  <2>4. Settled' = Settled \cup mems[mem] /\ Stored' \subseteq Stored
    BY <2>1, SwitchStored
  <2>5. CASE BuildBatchGroup
    BY <1>1, <2>2, <2>3, <2>4, <2>5, EntriesNumbered
  <2>6. CASE group' = group
    <3>1. InFlight' = {}
      BY <2>3, <2>6 DEF InFlight
    <3>2. \A e \in Stored : e[2] <= lastSeq
      BY <1>1, <2>3 DEF EntriesOK
    <3>3. Settled' \subseteq Stored
      BY <2>4 DEF Stored
    <3>4. Distinct(Stored \cup InFlight)'
      BY <1>1, <2>4, <3>1 DEF EntriesOK, Distinct
    <3> QED BY <2>2, <2>4, <3>1, <3>2, <3>3, <3>4 DEF EntriesOK
  <2> QED BY <2>2, <2>5, <2>6
<1>4. CASE AddRecord \/ AddRecordFails
  <2>1. /\ group # None /\ group'.entries = group.entries /\ lastSeq' = lastSeq
        /\ UNCHANGED <<mem, mems, logNumber, tables>> /\ group' # None
    <3>1. /\ group # None /\ lastSeq' = lastSeq
          /\ UNCHANGED <<mem, mems, logNumber, tables>>
          /\ \/ \E to \in {"sync", "insert"} : group' = [group EXCEPT !.phase = to]
             \/ group' = [group EXCEPT !.phase = "finish", !.status = "error"]
      BY <1>4 DEF AddRecord, AddRecordFails, Phase, PhaseFails, memory, numbers
    <3>2. group \in Groups
      BY <3>1 DEF QueueOK
    <3>3. group' \in Groups /\ group'.entries = group.entries
      BY <3>1, <3>2 DEF Groups
    <3> QED BY <3>1, <3>3, NoneAssumption
  <2>2. \/ logs' = logs
        \/ \E w \in BOOLEAN :
             logs' = [logs EXCEPT ![mem].recs = Append(@, [entries |-> group.entries, whole |-> w])]
    BY <1>4 DEF AddRecord, AddRecordFails
  <2>3. Logged(logNumber)' \subseteq Logged(logNumber) \cup InFlight
    <3>1. CASE logs' = logs
      BY <2>1, <3>1 DEF Logged, LogsFrom, RecsOf
    <3>2. CASE \E w \in BOOLEAN :
                 logs' = [logs EXCEPT ![mem].recs = Append(@, [entries |-> group.entries, whole |-> w])]
      BY <2>1, <3>2, LogGrows
    <3> QED BY <2>2, <3>1, <3>2
  <2>4. InFlight' = InFlight
    BY <2>1 DEF InFlight
  <2>5. Settled' = Settled
    BY <2>1 DEF Settled, Contents
  <2>6. Stored' \subseteq Stored \cup InFlight
    BY <2>1, <2>3, <2>5 DEF Stored
  <2> QED BY <1>1, <2>1, <2>4, <2>5, <2>6, EntriesKept
<1>5. CASE InsertInto \/ SyncLog \/ SyncFails
  <2>1. /\ group # None /\ group'.entries = group.entries /\ lastSeq' = lastSeq
        /\ UNCHANGED <<mem, logNumber, tables>> /\ group' # None
    <3>1. /\ group # None /\ lastSeq' = lastSeq
          /\ UNCHANGED <<mem, logNumber, tables>>
          /\ \/ \E to \in {"insert", "finish"} : group' = [group EXCEPT !.phase = to]
             \/ group' = [group EXCEPT !.phase = "finish", !.status = "syncerror"]
      BY <1>5 DEF InsertInto, SyncLog, SyncFails, Phase, PhaseFails, memory, numbers
    <3>2. group \in Groups
      BY <3>1 DEF QueueOK
    <3>3. group' \in Groups /\ group'.entries = group.entries
      BY <3>1, <3>2 DEF Groups
    <3> QED BY <3>1, <3>3, NoneAssumption
  <2>2. InFlight' = InFlight
    BY <2>1 DEF InFlight
  <2>3. mems' = mems \/ mems' = [mems EXCEPT ![mem] = @ \cup group.entries]
    BY <1>5 DEF InsertInto, SyncLog, SyncFails, PhaseFails, memory
  <2>4. Settled' = Settled /\ mems'[mem] \subseteq mems[mem] \cup InFlight
    <3>1. DOMAIN mems' = DOMAIN mems /\ \A n \in DOMAIN mems \ {mem} : mems'[n] = mems[n]
      BY <2>3
    <3>2. Settled' = Settled
      BY <2>1, <3>1 DEF Settled, Contents
    <3> QED BY <1>1, <2>1, <2>3, <3>2 DEF InFlight
  <2>5. Logged(logNumber)' = Logged(logNumber)
    <3>1. \A l \in DOMAIN logs : logs[l] \in [recs: Seq(Records), synced: Nat]
      BY DEF FilesOK, LogsOK
    <3>2. logs' = logs \/ logs' = [logs EXCEPT ![mem].synced = Len(logs[mem].recs)]
      BY <1>5 DEF InsertInto, SyncLog, SyncFails
    <3>3. DOMAIN logs' = DOMAIN logs /\ \A l \in DOMAIN logs : logs'[l].recs = logs[l].recs
      BY <3>1, <3>2
    <3>4. LogsFrom(logNumber)' = LogsFrom(logNumber)
      BY <2>1, <3>3 DEF LogsFrom
    <3>5. \A l \in LogsFrom(logNumber) : RecsOf(l)' = RecsOf(l)
      BY <3>3 DEF RecsOf, LogsFrom
    <3> QED BY <3>4, <3>5 DEF Logged
  <2>6. Stored' \subseteq Stored \cup InFlight
    BY <2>1, <2>4, <2>5 DEF Stored
  <2> QED BY <1>1, <2>1, <2>2, <2>4, <2>6, EntriesKept
<1>6. CASE FinishWrite
  <2>1. /\ group # None /\ group' = None /\ lastSeq' = lastSeq + Cardinality(group.entries)
        /\ UNCHANGED <<mem, mems, logNumber, tables, logs>>
    BY <1>6 DEF FinishWrite, memory, disk
  <2>2. Stored' = Stored /\ Settled' = Settled /\ InFlight = group.entries /\ InFlight' = {}
    BY <2>1 DEF Stored, Settled, Contents, Logged, LogsFrom, RecsOf, InFlight
  <2>3. lastSeq <= lastSeq' /\ lastSeq' \in Nat
    <3>1. Cardinality(group.entries) \in Nat
      BY <2>1, FS_CardinalityType DEF QueueOK
    <3> QED BY <1>1, <2>1, <3>1
  <2>4. \A e \in Stored : e[2] <= lastSeq'
    <3>1. Stored \subseteq Entries
      <4>1. \A n \in DOMAIN tables : tables[n] \subseteq Entries
        BY DEF FilesOK, TablesOK
      <4>2. \A n \in DOMAIN mems : mems[n] \subseteq Entries
        BY DEF FilesOK, MemoryOK
      <4>3. Settled \cup mems[mem] \subseteq Entries
        BY <1>1, <4>1, <4>2 DEF Settled, Contents
      <4>4. \A l \in DOMAIN logs : \A i \in DOMAIN logs[l].recs : logs[l].recs[i].entries \subseteq Entries
        <5>1. \A l \in DOMAIN logs : \A i \in DOMAIN logs[l].recs : logs[l].recs[i] \in Records
          BY WritingTypes
        <5> QED BY <5>1 DEF Records
      <4>5. Logged(logNumber) \subseteq Entries
        BY <4>4 DEF Logged, LogsFrom, RecsOf
      <4> QED BY <4>3, <4>5 DEF Stored
    <3>2. \A e \in Stored : e[2] \in Nat
      BY <3>1 DEF Entries
    <3>3. \A e \in Stored : e[2] <= lastSeq \/ e[2] <= lastSeq'
      BY <1>1, <2>1, <2>2 DEF EntriesOK
    <3> QED BY <1>1, <2>3, <3>2, <3>3
  <2>5. Settled \subseteq Stored
    BY DEF Stored
  <2>6. Distinct(Stored)
    BY <1>1 DEF EntriesOK, Distinct
  <2> QED BY <2>2, <2>4, <2>5, <2>6 DEF EntriesOK, Distinct
<1> QED BY <1>2, <1>3, <1>4, <1>5, <1>6 DEF Writing

(* Stopping and opening again.                                             *)

\* One of the candidates is read back; of each log a prefix remains, and all
\* of it unless the power fails.
LEMMA StopEffect ==
  ASSUME FileInv, EndClose \/ Kill \/ NullManual \/ PowerCut
  PROVE  /\ up' = "down" /\ group' = None /\ comp' = None /\ tables' = tables
         /\ \E m \in Candidates : manifest' = <<m>> /\ manifest'[1] = m /\ Candidates' = {m}
         /\ DOMAIN logs' = DOMAIN logs
         /\ \A l \in DOMAIN logs :
              /\ logs[l].synced <= logs'[l].synced
              /\ logs'[l].synced <= Len(logs'[l].recs) /\ Len(logs'[l].recs) <= Len(logs[l].recs)
              /\ DOMAIN logs'[l].recs = 1..Len(logs'[l].recs)
              /\ \A i \in DOMAIN logs'[l].recs :
                   i \in DOMAIN logs[l].recs /\ logs'[l].recs[i] = logs[l].recs[i]
         /\ cuts' = cuts => logs' = logs
         /\ kind' = kind /\ limits' = limits
         /\ st' = [c \in Calls |-> IF st[c] \in {"idle", "ok", "error"} THEN st[c] ELSE "lost"]
         /\ kills' + cuts' = kills + cuts + 1
<1>1. /\ kills \in Nat /\ cuts \in Nat
      /\ \A l \in DOMAIN logs : /\ logs[l].recs \in Seq(Records) /\ logs[l].synced \in Nat
                                /\ logs[l].synced <= Len(logs[l].recs)
  BY DEF FileInv, FilesOK, LogsOK, NumbersOK
<1>2. ASSUME NEW l, NEW m, m \in Candidates, Stop(l, m)
      PROVE  /\ up' = "down" /\ group' = None /\ comp' = None /\ tables' = tables
             /\ manifest' = <<m>> /\ manifest'[1] = m /\ Candidates' = {m}
             /\ logs' = l /\ kind' = kind
             /\ st' = [c \in Calls |-> IF st[c] \in {"idle", "ok", "error"} THEN st[c] ELSE "lost"]
  BY <1>2 DEF Stop, Candidates
<1>3. CASE EndClose \/ Kill \/ NullManual
  <2>1. PICK m \in Candidates : Stop(logs, m)
    BY <1>3, CandidateSet DEF EndClose, Kill, NullManual
  <2>2. kills' = kills + 1 /\ cuts' = cuts /\ limits' = limits
    BY <1>3 DEF EndClose, Kill, NullManual
  <2>3. \A l \in DOMAIN logs : DOMAIN logs[l].recs = 1..Len(logs[l].recs) /\ Len(logs[l].recs) \in Nat
    BY <1>1
  <2>4. logs' = logs
    BY <1>2, <2>1
  <2>5. kills' + cuts' = kills + cuts + 1
    BY <1>1, <2>2
  <2>6. \A l \in DOMAIN logs : logs[l].synced <= logs'[l].synced
    BY <1>1, <2>4
  <2>7. \A l \in DOMAIN logs : Len(logs'[l].recs) <= Len(logs[l].recs)
    BY <2>3, <2>4
  <2> QED BY <1>1, <1>2, <2>1, <2>2, <2>3, <2>4, <2>5, <2>6, <2>7
<1>4. CASE PowerCut
  <2>1. PICK kept \in [DOMAIN logs -> 0..Max({0} \cup {Len(logs[n].recs) : n \in DOMAIN logs})] :
          /\ \A n \in DOMAIN logs : kept[n] \in logs[n].synced..Len(logs[n].recs)
          /\ \E m \in ToSet(manifest) :
               Stop([n \in DOMAIN logs |-> [recs |-> SubSeq(logs[n].recs, 1, kept[n]),
                                            synced |-> kept[n]]], m)
    BY <1>4 DEF PowerCut
  <2> DEFINE s == [n \in DOMAIN logs |-> [recs |-> SubSeq(logs[n].recs, 1, kept[n]),
                                          synced |-> kept[n]]]
  <2>2. PICK m \in Candidates : Stop(s, m)
    BY <2>1, CandidateSet
  <2>3. cuts' = cuts + 1 /\ kills' = kills /\ limits' = limits
    BY <1>4 DEF PowerCut
  <2>4. cuts' # cuts /\ kills' + cuts' = kills + cuts + 1
    BY <1>1, <2>3
  <2>5. logs' = s
    BY <1>2, <2>2
  <2>6. ASSUME NEW l \in DOMAIN logs
        PROVE  /\ logs[l].synced <= logs'[l].synced
               /\ logs'[l].synced <= Len(logs'[l].recs) /\ Len(logs'[l].recs) <= Len(logs[l].recs)
               /\ DOMAIN logs'[l].recs = 1..Len(logs'[l].recs)
               /\ \A i \in DOMAIN logs'[l].recs :
                    i \in DOMAIN logs[l].recs /\ logs'[l].recs[i] = logs[l].recs[i]
    <3> DEFINE recs == logs[l].recs
               k == kept[l]
               cut == SubSeq(recs, 1, k)
    <3>1. logs'[l] = [recs |-> cut, synced |-> k]
      BY <2>5
    <3>2. recs \in Seq(Records) /\ logs[l].synced \in Nat /\ k \in logs[l].synced..Len(recs)
      BY <1>1, <2>1
    <3> HIDE DEF recs, k
    <3>3. Len(recs) \in Nat /\ DOMAIN recs = 1..Len(recs)
      BY <3>2
    <3>4. k \in 0..Len(recs) /\ k \in Nat /\ logs[l].synced <= k
      BY <3>2, <3>3
    <3>5. /\ Len(cut) = k /\ DOMAIN cut = 1..k
          /\ \A i \in 1..k : cut[i] = recs[i]
      BY <3>2, <3>4, PrefixEffect
    <3> HIDE DEF cut
    <3> QED BY <3>1, <3>3, <3>4, <3>5 DEF recs
  <2>7. DOMAIN logs' = DOMAIN logs
    BY <2>5
  <2> HIDE DEF s
  <2> QED BY <1>2, <2>2, <2>3, <2>4, <2>6, <2>7
<1> QED BY <1>3, <1>4

\* Open reads the logs into tables of their own and starts an empty log.
LEMMA OpenEffect ==
  ASSUME FileInv, Open
  PROVE  LET r == Recovered
             old == manifest[1]
         IN  /\ up = "down" /\ up' = "open" /\ mem' = r.next /\ lastSeq' = RecoveredSequence
             /\ logNumber' = r.next /\ mems'[mem'] = {} /\ DOMAIN mems' = {mem'}
             /\ DOMAIN tables' = Files(old) \cup DOMAIN r.tables
             /\ \A n \in DOMAIN r.tables : tables'[n] = r.tables[n] /\ n \notin Files(old)
             /\ \A n \in Files(old) : tables'[n] = tables[n] /\ n \in DOMAIN tables
             /\ \A l \in DOMAIN logs' : l >= logNumber' => l = mem' /\ logs'[l] = EmptyLog
             /\ version' \in Versions
             /\ Files(version') = Files(old) \cup DOMAIN r.tables
             /\ \E x : /\ Candidates' = {x} /\ manifest'[1] = x /\ Files(x) = Files(version')
                       /\ x.seq = lastSeq' /\ x.log = logNumber'
             /\ group' = None /\ comp' = None /\ flush' = None /\ imm' = None
             /\ view' = [q \in Readers |-> None]
<1> USE DEF FileInv, FilesOK
<1> DEFINE new == DOMAIN Recovered.tables
           next == Recovered.next
           old == manifest[1]
           edit == [l0 |-> new, deep |-> {}, del |-> {}]
           v == [l0 |-> old.l0, deep |-> old.deep]
           x == [l0 |-> version'.l0, deep |-> version'.deep,
                 log |-> logNumber', next |-> nextFile', seq |-> lastSeq']
           f == Over(Recovered.tables, tables)
           l == Put(logs, next, EmptyLog)
<1>1. /\ up = "down" /\ up' = "open"
      /\ lastSeq' = RecoveredSequence /\ logNumber' = next
      /\ mem' = next /\ mems' = Put(mems, next, {})
      /\ version' = Apply(edit, v) /\ manifest' = <<x>>
      /\ DeleteObsoleteFiles(f, l)
      /\ UNCHANGED <<imm, bgError, pending, comp, view, group, flush>>
  BY DEF Open
<1>2. /\ imm = None /\ mems = <<>> /\ bgError = FALSE /\ pending = {} /\ comp = None /\ flush = None
      /\ view = [r \in Readers |-> None] /\ group = None
  BY <1>1 DEF DownOK, Down
<1>3. /\ next \in Nat /\ old.next < next /\ \A n \in DOMAIN logs : n < next
      /\ new \subseteq Nat
      /\ \A t \in new : old.next < t /\ t < next
  BY RecoveredEffect
<1>4. /\ old \in Candidates /\ old.l0 \subseteq Nat /\ old.deep \subseteq Nat
      /\ old.next \in Nat /\ Files(old) \subseteq DOMAIN tables
      /\ \A n \in Files(old) : n < old.next
  BY CandidateTypes DEF ManifestOK
<1>5. /\ DOMAIN f = new \cup DOMAIN tables
      /\ \A n \in new : f[n] = Recovered.tables[n]
      /\ \A n \in DOMAIN tables \ new : f[n] = tables[n]
  BY OverEffect
<1>6. DOMAIN l = DOMAIN logs \cup {next} /\ l[next] = EmptyLog
  BY DEF Put
<1>7. \A n \in new : n \notin Files(old)
  <2>1. \A n \in Files(old) : n \in Nat
    BY <1>4 DEF Files
  <2> QED BY <1>3, <1>4, <2>1
<1> HIDE DEF new, next, f, l, old
<1>8. /\ edit \in Edits /\ v \in Versions /\ edit.l0 = new /\ edit.deep = {} /\ edit.del = {}
      /\ v.l0 = old.l0 /\ v.deep = old.deep
  BY <1>3, <1>4 DEF Edits, Versions
<1> HIDE DEF edit, v
<1>9. version' \in Versions /\ version'.l0 = old.l0 \cup new /\ version'.deep = old.deep
  <2>1. /\ Apply(edit, v) \in Versions
        /\ Apply(edit, v).l0 = (v.l0 \ edit.del) \cup edit.l0
        /\ Apply(edit, v).deep = (v.deep \ edit.del) \cup edit.deep
    BY <1>8, ApplyEffect
  <2> QED BY <1>1, <1>8, <2>1
<1>10. Files(version') = Files(old) \cup new
  BY <1>9 DEF Files
<1>11. Viewed' = {}
  BY <1>1, <1>2 DEF Viewed
<1>12. LiveTables' = Files(version')
  <2>1. {w.files : w \in {}} = {}
    OBVIOUS
  <2> QED BY <1>1, <1>2, <1>11, <2>1 DEF LiveTables
<1>13. /\ DOMAIN tables' = DOMAIN f \cap LiveTables' /\ \A n \in DOMAIN tables' : tables'[n] = f[n]
       /\ DOMAIN logs' = {n \in DOMAIN l : n >= logNumber'} /\ \A n \in DOMAIN logs' : logs'[n] = l[n]
  <2>1. ~bgError'
    BY <1>1, <1>2
  <2> QED BY <1>1, <2>1 DEF DeleteObsoleteFiles, Restrict
<1>14. DOMAIN tables' = Files(old) \cup new
  BY <1>4, <1>5, <1>10, <1>12, <1>13
<1>15. /\ \A n \in new : tables'[n] = Recovered.tables[n]
       /\ \A n \in Files(old) : tables'[n] = tables[n] /\ n \in DOMAIN tables
  BY <1>4, <1>5, <1>7, <1>13, <1>14
<1>16. \A n \in DOMAIN logs' : n = next /\ logs'[n] = EmptyLog
  <2>1. \A n \in DOMAIN logs : n \in Nat
    BY DEF LogsOK
  <2> QED BY <1>1, <1>3, <1>6, <1>13, <2>1
<1>17. DOMAIN mems' = {next} /\ mems'[next] = {}
  <2>1. DOMAIN mems = {}
    BY <1>2
  <2> QED BY <1>1, <2>1 DEF Put
<1>18. Candidates' = {x} /\ manifest'[1] = x /\ Files(x) = Files(version')
       /\ x.seq = lastSeq' /\ x.log = logNumber'
  <2>1. Files(x) = Files(version')
    BY DEF Files
  <2> HIDE DEF x
  <2>2. Candidates' = {x} /\ manifest'[1] = x
    BY <1>1 DEF Candidates
  <2> QED BY <2>1, <2>2 DEF x
<1> HIDE DEF x
<1> QED BY <1>1, <1>2, <1>7, <1>9, <1>10, <1>14, <1>15, <1>16, <1>17, <1>18 DEF new, next, old

\* An attempt that dies leaves tables nobody knows and perhaps an empty log.
LEMMA OpenDiesEffect ==
  ASSUME FileInv, OpenDies
  PROVE  /\ up = "down" /\ up' = "down" /\ manifest' = manifest
         /\ \A n \in Files(manifest[1]) : n \in DOMAIN tables /\ n \in DOMAIN tables' /\ tables'[n] = tables[n]
         /\ \A l \in DOMAIN logs : l \in DOMAIN logs' /\ logs'[l] = logs[l]
         /\ \A l \in DOMAIN logs' : l \in DOMAIN logs \/ logs'[l] = EmptyLog
<1> USE DEF FileInv, FilesOK
<1> DEFINE new == DOMAIN Recovered.tables
           next == Recovered.next
           old == manifest[1]
           f == Over(Recovered.tables, tables)
<1>1. /\ up = "down" /\ up' = up /\ manifest' = manifest /\ tables' = f
      /\ logs' \in {logs, Put(logs, next, EmptyLog)}
  BY DEF OpenDies
<1>2. /\ next \in Nat /\ \A n \in DOMAIN logs : n < next
      /\ new \subseteq Nat /\ \A t \in new : old.next < t
  BY RecoveredEffect
<1>3. /\ old \in Candidates /\ old.l0 \subseteq Nat /\ old.deep \subseteq Nat
      /\ old.next \in Nat /\ Files(old) \subseteq DOMAIN tables
      /\ \A n \in Files(old) : n < old.next
  BY CandidateTypes DEF ManifestOK
<1>4. \A n \in new : n \notin Files(old)
  <2>1. \A n \in Files(old) : n \in Nat
    BY <1>3 DEF Files
  <2> QED BY <1>2, <1>3, <2>1
<1>5. /\ DOMAIN f = new \cup DOMAIN tables
      /\ \A n \in DOMAIN tables \ new : f[n] = tables[n]
  BY OverEffect
<1>6. \A n \in DOMAIN logs : n \in Nat
  BY DEF LogsOK
<1>7. /\ \A l \in DOMAIN logs : l \in DOMAIN logs' /\ logs'[l] = logs[l]
      /\ \A l \in DOMAIN logs' : l \in DOMAIN logs \/ logs'[l] = EmptyLog
  <2> HIDE DEF next
  <2>1. next \notin DOMAIN logs
    BY <1>2, <1>6
  <2> QED BY <1>1, <2>1 DEF Put
<1> HIDE DEF new, next, f
<1> QED BY <1>1, <1>3, <1>4, <1>5, <1>7

LEMMA InitSequences ==
  ASSUME Init
  PROVE  Sequences
<1>1. /\ up = "down" /\ comp = None /\ tables = <<>> /\ logs = <<>>
      /\ manifest = <<[l0 |-> {}, deep |-> {}, log |-> 0, next |-> 2, seq |-> 0]>>
  BY DEF Init, Down
<1>2. Files(manifest[1]) = {} /\ Candidates = {manifest[1]}
  <2> DEFINE m == [l0 |-> {}, deep |-> {}, log |-> 0, next |-> 2, seq |-> 0]
  <2>1. Files(m) = {}
    BY DEF Files
  <2>2. manifest = <<m>>
    BY <1>1
  <2> HIDE DEF m
  <2> QED BY <2>1, <2>2 DEF Candidates
<1>3. Found(manifest[1]) = {}
  <2>1. DOMAIN logs = {}
    BY <1>1
  <2> QED BY <1>2, <2>1 DEF Found, Contents, Logged, LogsFrom
<1> QED BY <1>1, <1>2, <1>3 DEF Sequences, LeftOK, Distinct, Contents

(* Steps of a process that runs and goes on running.                       *)

\* A compaction under way keeps its inputs and has ever less to write.
LEMMA CompStep ==
  ASSUME FileInv, up # "down", up' # "down", [Next]_vars, comp' # None
  PROVE  \/ comp # None /\ comp'.inputs = comp.inputs /\ comp'.left \subseteq comp.left
         \/ /\ comp = None /\ UNCHANGED tables
            /\ comp'.inputs \subseteq DOMAIN tables /\ comp'.left = Contents(comp'.inputs)
<1> DEFINE Goal == \/ comp # None /\ comp'.inputs = comp.inputs /\ comp'.left \subseteq comp.left
                   \/ /\ comp = None /\ UNCHANGED tables
                      /\ comp'.inputs \subseteq DOMAIN tables /\ comp'.left = Contents(comp'.inputs)
<1>1. ASSUME comp' = comp PROVE Goal
  BY <1>1
<1>2. comp # None => comp \in Compactions
  BY DEF FileInv, FilesOK, CompOK
<1>3. CASE UNCHANGED vars
  BY <1>1, <1>3 DEF vars, background
<1>4. CASE Environment
  BY <1>1, <1>4 DEF Environment, Enqueue, NewIterator, CloseIterator, BeginManual, BeginClose,
     Kill, PowerCut, Stop, OpenDies, background
<1>5. CASE \E c \in Calls : CallStep(c)
  BY <1>1, <1>5 DEF CallStep, Refuse, SlowDown, WaitForRoom, WriteToMem, SwitchMemTable, SwitchFails,
     AwaitFlush, background
<1>6. CASE LogGroup
  BY <1>1, <1>6 DEF LogGroup, AddRecord, AddRecordFails, SyncLog, SyncFails, InsertInto, FinishWrite,
     Phase, PhaseFails, background
<1>7. CASE Open \/ EndClose \/ \E m \in Manuals : EndManual(m) \/ AwaitManual(m)
  BY <1>1, <1>7 DEF Open, EndClose, Stop, EndManual, AwaitManual, background
<1>8. CASE BackgroundWork
  <2>1. CASE \/ BackgroundCallIdle \/ BuildTableFails \/ FlushAborted \/ LogFlush(0) \/ LogFlush(1)
             \/ EndFlush \/ FlushEditFails \/ ManualHasNothing
    BY <1>1, <2>1 DEF BackgroundCallIdle, BuildTableFails, FlushAborted, LogFlush, EndFlush,
       FlushEditFails, ManualHasNothing
  <2>2. CASE StartFlush
    <3>1. comp # None /\ comp' = [comp EXCEPT !.tried = TRUE]
      BY <2>2 DEF StartFlush
    <3>2. comp'.inputs = comp.inputs /\ comp'.left = comp.left
      BY <1>2, <3>1 DEF Compactions
    <3> QED BY <3>1, <3>2
  <2>3. CASE OpenCompactionOutputFile \/ LogCompaction
    <3> DEFINE edit == [l0 |-> {}, deep |-> comp.outs, del |-> comp.inputs]
    <3>1. comp # None /\ \/ comp' = [comp EXCEPT !.state = "writing", !.out = nextFile, !.tried = FALSE]
                         \/ comp' = [comp EXCEPT !.state = "installing", !.edit = edit]
      BY <2>3 DEF OpenCompactionOutputFile, LogCompaction, Merging
    <3> HIDE DEF edit
    <3>2. comp'.inputs = comp.inputs /\ comp'.left = comp.left
      BY <1>2, <3>1 DEF Compactions
    <3> QED BY <3>1, <3>2
  <2>4. CASE \E part \in SUBSET (IF comp = None THEN {} ELSE comp.left) : FinishCompactionOutputFile(part)
    <3>1. PICK part : FinishCompactionOutputFile(part)
      BY <2>4
    <3>2. comp # None
          /\ comp' = [comp EXCEPT !.state = "merging", !.left = @ \ part,
                                  !.outs = @ \cup {comp.out}, !.out = None, !.tried = FALSE]
      BY <3>1 DEF FinishCompactionOutputFile, Merging
    <3>3. comp'.inputs = comp.inputs /\ comp'.left = comp.left \ part
      BY <1>2, <3>2 DEF Compactions
    <3> QED BY <3>2, <3>3
  <2>5. CASE \E inputs \in Inputs : StartCompaction(inputs)
    <3>1. PICK inputs \in Inputs : StartCompaction(inputs)
      BY <2>5
    <3>2. comp = None /\ UNCHANGED tables /\ comp'.inputs = inputs /\ comp'.left = Contents(inputs)
      BY <3>1 DEF StartCompaction, Running, Contents
    <3>3. inputs \subseteq Files(version)
      BY DEF Inputs, Files
    <3>4. Files(version) \subseteq DOMAIN tables
      BY DEF FileInv, FilesOK, MemoryOK
    <3> QED BY <3>2, <3>3, <3>4
  <2>6. CASE InstallCompaction \/ CompactionEditFails \/ CompactionFails
    BY <2>6 DEF InstallCompaction, CompactionEditFails, CompactionFails, EndCompaction
  <2>7. CASE NullManual
    BY <2>7 DEF NullManual, Stop
  <2> QED BY <1>8, <2>1, <2>2, <2>3, <2>4, <2>5, <2>6, <2>7 DEF BackgroundWork
<1> QED BY <1>3, <1>4, <1>5, <1>6, <1>7, <1>8 DEF Next, Work

LEMMA LeftKept ==
  ASSUME FileInv, FileInv', LeftOK, up # "down", up' # "down", [Next]_vars
  PROVE  LeftOK'
<1> SUFFICES ASSUME comp' # None PROVE comp'.left \subseteq Contents(comp.inputs)'
  BY DEF LeftOK
<1>1. CASE comp = None
  <2>1. UNCHANGED tables /\ comp'.inputs \subseteq DOMAIN tables /\ comp'.left = Contents(comp'.inputs)
    BY <1>1, CompStep
  <2>2. Contents(comp.inputs)' = UNION {tables'[n] : n \in comp'.inputs}
    BY DEF Contents
  <2> QED BY <2>1, <2>2 DEF Contents
<1>2. CASE comp # None
  <2>1. comp'.inputs = comp.inputs /\ comp'.left \subseteq comp.left
    BY <1>2, CompStep
  <2>2. comp.inputs \subseteq Kept
    BY <1>2 DEF Kept, FileInv, FilesOK, CompOK
  <2>3. comp'.inputs \subseteq DOMAIN tables'
    BY DEF FileInv, FilesOK, CompOK
  <2>4. \A n \in comp.inputs : tables'[n] = tables[n]
    BY <2>1, <2>2, <2>3, TableStep
  <2>5. Contents(comp.inputs)' = UNION {tables'[n] : n \in comp'.inputs}
    BY DEF Contents
  <2>6. UNION {tables'[n] : n \in comp'.inputs} = UNION {tables[n] : n \in comp.inputs}
    BY <2>1, <2>4
  <2> QED BY <1>2, <2>1, <2>5, <2>6 DEF LeftOK, Contents
<1> QED BY <1>1, <1>2

\* Sequence numbers do not go back.
LEMMA SequenceGrows ==
  ASSUME FileInv, LeftOK, up # "down", up' # "down", [Next]_vars
  PROVE  lastSeq' \in Nat /\ lastSeq <= lastSeq'
<1>1. lastSeq \in Nat
  BY DEF FileInv, NumbersOK
<1>2. CASE Frame
  BY <1>1, <1>2 DEF Frame
<1>3. CASE FinishWrite
  <2>1. lastSeq' = lastSeq + Cardinality(group.entries) /\ Cardinality(group.entries) \in Nat
    BY <1>3, FS_CardinalityType DEF FinishWrite, FileInv, QueueOK
  <2> QED BY <1>1, <2>1
<1>4. CASE Writing /\ ~FinishWrite
  <2>1. CASE \E c \in Calls : WriteToMem(c) \/ SwitchMemTable(c)
    <3>1. lastSeq' = lastSeq
      BY <2>1 DEF WriteToMem, SwitchMemTable, numbers
    <3> QED BY <1>1, <3>1
  <2>2. CASE AddRecord \/ AddRecordFails \/ InsertInto \/ SyncLog \/ SyncFails
    BY <1>1, <2>2 DEF AddRecord, AddRecordFails, InsertInto, SyncLog, SyncFails, Phase, PhaseFails, numbers
  <2> QED BY <1>4, <2>1, <2>2 DEF Writing
<1> QED BY <1>2, <1>3, <1>4, FrameStep

\* A state of the manifest ends where its files do.
LEMMA CandidatesKept ==
  ASSUME FileInv, FileInv', Sequences, EntriesOK', up # "down", up' # "down", [Next]_vars
  PROVE  \A m \in Candidates' :
           m.seq <= lastSeq' /\ \A e \in Contents(Files(m))' : e[2] <= m.seq
<1> SUFFICES ASSUME NEW m \in Candidates'
             PROVE  m.seq <= lastSeq' /\ \A e \in Contents(Files(m))' : e[2] <= m.seq
  OBVIOUS
<1>1. lastSeq \in Nat /\ lastSeq' \in Nat /\ lastSeq <= lastSeq'
  BY SequenceGrows DEF Sequences, FileInv, NumbersOK
<1>2. Files(m) \subseteq DOMAIN tables'
  BY DEF FileInv, FilesOK, ManifestOK
<1>3. Contents(Files(m))' = UNION {tables'[n] : n \in Files(m)}
  BY DEF Contents
<1>4. CASE m \in Candidates
  <2>1. m.seq \in Nat /\ m.seq <= lastSeq
    BY <1>4, CandidateTypes DEF Sequences, FileInv, FilesOK
  <2>2. Files(m) \subseteq Kept
    BY <1>4 DEF Kept, Named
  <2>3. \A n \in Files(m) : tables'[n] = tables[n]
    BY <1>2, <2>2, TableStep
  <2>4. Contents(Files(m))' = Contents(Files(m))
    BY <1>3, <2>3 DEF Contents
  <2>5. m.seq <= lastSeq'
    BY <1>1, <2>1
  <2> QED BY <1>4, <2>4, <2>5 DEF Sequences
<1>5. CASE m \notin Candidates
  <2>1. m.seq = lastSeq'
    BY <1>5, CandidateStep
  <2>2. \A n \in Files(m) : tables'[n] \subseteq Settled'
    <3>1. Contents(DOMAIN tables)' \subseteq Settled'
      BY DEF Settled
    <3> QED BY <1>2, <3>1 DEF Contents
  <2>3. \A e \in Contents(Files(m))' : e \in Settled'
    BY <1>3, <2>2
  <2> QED BY <1>1, <2>1, <2>3 DEF EntriesOK
<1> QED BY <1>4, <1>5

\* A snapshot is the last sequence of its time.
LEMMA ViewsKept ==
  ASSUME FileInv, Sequences, up # "down", up' # "down", [Next]_vars, NEW r \in Readers, view'[r] # None
  PROVE  /\ view'[r].snapshot <= lastSeq'
         /\ \/ view[r] # None /\ view'[r] = view[r]
            \/ /\ NewIterator(r) /\ view[r] = None
               /\ view'[r] = [snapshot |-> Capture.snapshot, mems |-> Capture.mems,
                              files |-> Capture.files, seen |-> UpTo(Held, lastSeq)]
<1>1. view = [q \in Readers |-> view[q]] /\ \A q \in Readers : view[q] # None => view[q] \in Views
  BY DEF FileInv, FilesOK, ViewsOK
<1>2. lastSeq \in Nat /\ lastSeq' \in Nat /\ lastSeq <= lastSeq'
  BY SequenceGrows DEF Sequences, FileInv, NumbersOK
<1>3. view' = view \/ \E q \in Readers : NewIterator(q) \/ CloseIterator(q)
  <2>1. CASE UNCHANGED vars
    BY <2>1 DEF vars
  <2>2. CASE Environment
    BY <2>2 DEF Environment, Enqueue, BeginManual, BeginClose, Kill, PowerCut, Stop, OpenDies
  <2>3. CASE \E c \in Calls : CallStep(c)
    BY <2>3 DEF CallStep, Refuse, SlowDown, WaitForRoom, WriteToMem, SwitchMemTable, SwitchFails, AwaitFlush
  <2>4. CASE LogGroup
    BY <2>4 DEF LogGroup, AddRecord, AddRecordFails, SyncLog, SyncFails, InsertInto, FinishWrite,
       Phase, PhaseFails
  <2>5. CASE Open \/ EndClose \/ \E m \in Manuals : EndManual(m) \/ AwaitManual(m)
    BY <2>5 DEF Open, EndClose, Stop, EndManual, AwaitManual
  <2>6. CASE BackgroundWork
    <3>1. CASE \/ BackgroundCallIdle \/ StartFlush \/ BuildTableFails \/ FlushAborted \/ LogFlush(0)
               \/ LogFlush(1) \/ EndFlush \/ FlushEditFails \/ ManualHasNothing
      BY <3>1 DEF BackgroundCallIdle, StartFlush, BuildTableFails, FlushAborted, LogFlush, EndFlush,
         FlushEditFails, ManualHasNothing
    <3>2. CASE \/ OpenCompactionOutputFile \/ LogCompaction
               \/ \E part \in SUBSET (IF comp = None THEN {} ELSE comp.left) : FinishCompactionOutputFile(part)
      <4>1. ASSUME NEW part, FinishCompactionOutputFile(part) PROVE view' = view
        BY <4>1 DEF FinishCompactionOutputFile
      <4> QED BY <3>2, <4>1 DEF OpenCompactionOutputFile, LogCompaction
    <3>3. CASE InstallCompaction \/ CompactionEditFails \/ CompactionFails \/ NullManual
      BY <3>3 DEF InstallCompaction, CompactionEditFails, CompactionFails, EndCompaction, NullManual, Stop
    <3>4. CASE \E inputs \in Inputs : StartCompaction(inputs)
      BY <3>4 DEF StartCompaction
    <3> QED BY <2>6, <3>1, <3>2, <3>3, <3>4 DEF BackgroundWork
  <2> QED BY <2>1, <2>2, <2>3, <2>4, <2>5, <2>6 DEF Next, Work
<1>4. ASSUME view[r] # None, view'[r] = view[r]
      PROVE  view'[r].snapshot <= lastSeq'
  <2>1. view[r].snapshot <= lastSeq /\ view[r].snapshot \in Nat
    BY <1>1, <1>4 DEF Sequences, Views
  <2> QED BY <1>2, <1>4, <2>1
<1>5. CASE view' = view
  BY <1>4, <1>5
<1>6. CASE \E q \in Readers : NewIterator(q)
  <2>1. PICK q \in Readers : NewIterator(q)
    BY <1>6
  <2> DEFINE x == [snapshot |-> Capture.snapshot, mems |-> Capture.mems,
                   files |-> Capture.files, seen |-> UpTo(Held, lastSeq)]
  <2>2. view[q] = None /\ view' = [view EXCEPT ![q] = x]
    BY <2>1 DEF NewIterator
  <2>3. x.snapshot = lastSeq
    BY DEF Capture
  <2> HIDE DEF x
  <2>4. view'[q] = x /\ (r # q => view'[r] = view[r])
    BY <1>1, <2>2
  <2>5. CASE r = q
    BY <1>2, <2>1, <2>2, <2>3, <2>4, <2>5 DEF x
  <2>6. CASE r # q
    BY <1>4, <2>4, <2>6
  <2> QED BY <2>5, <2>6
<1>7. CASE \E q \in Readers : CloseIterator(q)
  <2>1. PICK q \in Readers : CloseIterator(q)
    BY <1>7
  <2>2. view'[r] = IF r = q THEN None ELSE view[r]
    BY <1>1, <2>1 DEF CloseIterator
  <2> QED BY <1>4, <2>2
<1> QED BY <1>3, <1>5, <1>6, <1>7

LEMMA UpSequences ==
  ASSUME FileInv, FileInv', Sequences, up # "down", up' # "down", [Next]_vars
  PROVE  Sequences'
<1>1. LeftOK'
  BY LeftKept DEF Sequences
<1>2. EntriesOK'
  <2>1. CASE Frame
    <3>1. InFlight' = InFlight /\ Settled' \subseteq Settled /\ Stored' \subseteq Stored /\ lastSeq' = lastSeq
      BY <2>1, FrameEffect DEF Frame
    <3> QED BY <3>1, EntriesKept DEF Sequences
  <2>2. CASE Writing
    BY <2>2, WritingEntries
  <2> QED BY <2>1, <2>2, FrameStep DEF Sequences
<1>3. \A m \in Candidates' : m.seq <= lastSeq' /\ \A e \in Contents(Files(m))' : e[2] <= m.seq
  BY <1>2, CandidatesKept
<1>4. \A r \in Readers : view'[r] # None => view'[r].snapshot <= lastSeq'
  BY ViewsKept
<1> QED BY <1>1, <1>2, <1>3, <1>4 DEF Sequences

(* Stopping and opening again.                                             *)

\* All that may be read back is stored.
LEMMA FoundStored ==
  ASSUME FileInv, up # "down", NEW m \in Candidates
  PROVE  Found(m) \subseteq Stored
<1>1. Files(m) \subseteq DOMAIN tables /\ m.log \in {logNumber, mem} /\ mem >= logNumber
      /\ m.log \in Nat /\ logNumber \in Nat
  BY WritingTypes, CandidateTypes DEF FileInv, FilesOK, ManifestOK, MemoryOK
<1>2. Contents(Files(m)) \subseteq Settled
  BY <1>1 DEF Contents, Settled
<1>3. DOMAIN logs \subseteq Nat
  BY DEF FileInv, FilesOK, LogsOK
<1>4. LogsFrom(m.log) \subseteq LogsFrom(logNumber)
  BY <1>1, <1>3 DEF LogsFrom
<1>5. Logged(m.log) \subseteq Logged(logNumber)
  BY <1>4 DEF Logged
<1> QED BY <1>2, <1>5 DEF Found, Stored

\* Of the logs a prefix is left.
LEMMA FoundLess ==
  ASSUME NEW m, tables' = tables, DOMAIN logs' = DOMAIN logs,
         \A l \in DOMAIN logs : \A i \in DOMAIN logs'[l].recs :
            i \in DOMAIN logs[l].recs /\ logs'[l].recs[i] = logs[l].recs[i]
  PROVE  Found(m)' \subseteq Found(m)
<1> SUFFICES ASSUME NEW e \in Found(m)' PROVE e \in Found(m)
  OBVIOUS
<1>1. Contents(Files(m))' = Contents(Files(m))
  BY DEF Contents
<1>2. CASE e \in Logged(m.log)'
  <2>1. PICK l \in LogsFrom(m.log)' : e \in RecsOf(l)'
    BY <1>2 DEF Logged
  <2>2. l \in LogsFrom(m.log)
    BY <2>1 DEF LogsFrom
  <2>3. PICK i \in DOMAIN logs'[l].recs : e \in logs'[l].recs[i].entries
    BY <2>1 DEF RecsOf
  <2>4. e \in RecsOf(l)
    BY <2>2, <2>3 DEF RecsOf, LogsFrom
  <2> QED BY <2>2, <2>4 DEF Found, Logged
<1> QED BY <1>1, <1>2 DEF Found

\* A process that does not run is opened, or the machine dies once more.
LEMMA DownSteps ==
  ASSUME FileInv, up = "down", Next
  PROVE  Open \/ OpenDies \/ PowerCut
<1>1. /\ group = None /\ comp = None /\ flush = None /\ scheduled = FALSE
      /\ view = [r \in Readers |-> None]
  BY DEF FileInv, FilesOK, DownOK, Down
<1>2. \A m \in Manuals : mst[m] \notin {"running", "waiting"}
  BY DEF FileInv, RestOK
<1>3. CASE \E c \in Calls : CallStep(c)
  BY <1>3 DEF CallStep, Refuse, SlowDown, WaitForRoom, WriteToMem, SwitchMemTable, SwitchFails,
     AwaitFlush, Leads
<1>4. CASE LogGroup
  BY <1>1, <1>4 DEF LogGroup, AddRecord, AddRecordFails, SyncLog, SyncFails, InsertInto, FinishWrite,
     Phase, PhaseFails
<1>5. CASE Open \/ EndClose \/ \E m \in Manuals : EndManual(m) \/ AwaitManual(m)
  BY <1>2, <1>5 DEF EndClose, EndManual, AwaitManual
<1>6. CASE BackgroundWork
  <2>1. ~StartFlush
    BY <1>1 DEF StartFlush, Running
  <2>2. ~(BackgroundCallIdle \/ ManualHasNothing \/ \E inputs \in Inputs : StartCompaction(inputs))
    BY <1>1 DEF BackgroundCallIdle, ManualHasNothing, StartCompaction, Running
  <2>3. ~(BuildTableFails \/ FlushAborted \/ LogFlush(0) \/ LogFlush(1) \/ EndFlush \/ FlushEditFails)
    BY <1>1 DEF BuildTableFails, FlushAborted, LogFlush, EndFlush, FlushEditFails, Building
  <2>4. ~(OpenCompactionOutputFile \/ LogCompaction
          \/ \E part \in SUBSET (IF comp = None THEN {} ELSE comp.left) : FinishCompactionOutputFile(part))
    BY <1>1 DEF OpenCompactionOutputFile, LogCompaction, FinishCompactionOutputFile, Merging
  <2>5. ~(InstallCompaction \/ CompactionEditFails \/ CompactionFails \/ NullManual)
    BY <1>1 DEF InstallCompaction, CompactionEditFails, CompactionFails, CompactionBreaks, Merging, NullManual
  <2> QED BY <1>6, <2>1, <2>2, <2>3, <2>4, <2>5 DEF BackgroundWork
<1>7. CASE Environment
  BY <1>1, <1>7 DEF Environment, Enqueue, NewIterator, CloseIterator, BeginManual, BeginClose, Kill
<1> QED BY <1>3, <1>4, <1>5, <1>6, <1>7 DEF Next, Work

\* Nothing else ends a process.
LEMMA StopSteps ==
  ASSUME up # "down", up' = "down", Next
  PROVE  EndClose \/ Kill \/ NullManual \/ PowerCut
<1>1. CASE Environment
  BY <1>1 DEF Environment, Enqueue, NewIterator, CloseIterator, BeginManual, BeginClose, OpenDies
<1>2. CASE \E c \in Calls : CallStep(c)
  BY <1>2 DEF CallStep, Refuse, SlowDown, WaitForRoom, WriteToMem, SwitchMemTable, SwitchFails, AwaitFlush
<1>3. CASE LogGroup
  BY <1>3 DEF LogGroup, AddRecord, AddRecordFails, SyncLog, SyncFails, InsertInto, FinishWrite,
     Phase, PhaseFails
<1>4. CASE Open \/ EndClose \/ \E m \in Manuals : EndManual(m) \/ AwaitManual(m)
  BY <1>4 DEF Open, EndManual, AwaitManual
<1>5. CASE BackgroundWork
  <2>1. CASE \/ BackgroundCallIdle \/ StartFlush \/ BuildTableFails \/ FlushAborted \/ LogFlush(0)
             \/ LogFlush(1) \/ EndFlush \/ FlushEditFails \/ ManualHasNothing
    BY <2>1 DEF BackgroundCallIdle, StartFlush, BuildTableFails, FlushFails, FlushAborted, LogFlush,
       EndFlush, FlushEditFails, ManualHasNothing
  <2>2. CASE \/ OpenCompactionOutputFile \/ LogCompaction
             \/ \E part \in SUBSET (IF comp = None THEN {} ELSE comp.left) : FinishCompactionOutputFile(part)
    <3>1. ASSUME NEW part, FinishCompactionOutputFile(part) PROVE up' = up
      BY <3>1 DEF FinishCompactionOutputFile
    <3> QED BY <2>2, <3>1 DEF OpenCompactionOutputFile, LogCompaction
  <2>3. CASE InstallCompaction \/ CompactionEditFails \/ CompactionFails
    BY <2>3 DEF InstallCompaction, CompactionEditFails, CompactionFails, EndCompaction
  <2>4. CASE \E inputs \in Inputs : StartCompaction(inputs)
    BY <2>4 DEF StartCompaction
  <2> QED BY <1>5, <2>1, <2>2, <2>3, <2>4 DEF BackgroundWork
<1> QED BY <1>1, <1>2, <1>3, <1>4, <1>5 DEF Next, Work

LEMMA StopSequences ==
  ASSUME FileInv, Sequences, EndClose \/ Kill \/ NullManual \/ PowerCut
  PROVE  Sequences'
<1>1. PICK m \in Candidates : manifest' = <<m>> /\ manifest'[1] = m /\ Candidates' = {m}
  BY StopEffect
<1>2. /\ up' = "down" /\ comp' = None /\ tables' = tables /\ DOMAIN logs' = DOMAIN logs
      /\ \A l \in DOMAIN logs : \A i \in DOMAIN logs'[l].recs :
            i \in DOMAIN logs[l].recs /\ logs'[l].recs[i] = logs[l].recs[i]
  BY StopEffect
<1>3. Found(m)' \subseteq Found(m)
  BY <1>2, FoundLess
<1>4. Distinct(Found(m))
  <2>1. CASE up = "down"
    <3>1. m = manifest[1]
      BY <2>1 DEF Candidates, FileInv, FilesOK, DownOK, ManifestOK
    <3> QED BY <2>1, <3>1 DEF Sequences
  <2>2. CASE up # "down"
    <3>1. Found(m) \subseteq Stored
      BY <2>2, FoundStored
    <3> QED BY <2>2, <3>1 DEF Sequences, EntriesOK, Distinct
  <2> QED BY <2>1, <2>2
<1>5. Distinct(Found(manifest[1]))'
  <2>1. Found(manifest[1])' = Found(m)'
    BY <1>1 DEF Found, Contents, Logged, LogsFrom, RecsOf
  <2> QED BY <1>3, <1>4, <2>1 DEF Distinct
<1>6. \A e \in Contents(Files(m))' : e[2] <= m.seq
  BY <1>2 DEF Sequences, Contents
<1>7. LeftOK'
  BY <1>2 DEF LeftOK
<1>8. \A k \in Candidates' : \A e \in Contents(Files(k))' : e[2] <= k.seq
  BY <1>1, <1>6
<1> QED BY <1>2, <1>5, <1>7, <1>8 DEF Sequences

\* What an Open that dies leaves in the directory was found there before.
LEMMA OpenDiesFound ==
  ASSUME FileInv, OpenDies
  PROVE  Found(manifest[1])' \subseteq Found(manifest[1])
<1> DEFINE m == manifest[1]
<1>1. /\ up = "down" /\ up' = "down" /\ manifest' = manifest
      /\ \A n \in Files(m) : tables'[n] = tables[n]
      /\ \A l \in DOMAIN logs : l \in DOMAIN logs' /\ logs'[l] = logs[l]
      /\ \A l \in DOMAIN logs' : l \in DOMAIN logs \/ logs'[l] = EmptyLog
  BY OpenDiesEffect
<1>2. UNION {tables'[n] : n \in Files(m)} = Contents(Files(m))
  BY <1>1 DEF Contents
<1>3. ASSUME NEW l \in DOMAIN logs', l >= m.log, NEW i \in DOMAIN logs'[l].recs,
             NEW e \in logs'[l].recs[i].entries
      PROVE  e \in Found(m)
  <2>1. logs'[l] # EmptyLog
    <3>1. DOMAIN EmptyLog.recs = {}
      BY DEF EmptyLog
    <3> QED BY <3>1
  <2>2. l \in DOMAIN logs /\ logs'[l] = logs[l]
    BY <1>1, <2>1
  <2>3. e \in RecsOf(l)
    BY <2>2 DEF RecsOf
  <2> QED BY <1>3, <2>2, <2>3 DEF Found, Logged, LogsFrom
<1>4. Found(manifest[1])' \subseteq Found(m)
  <2> SUFFICES ASSUME NEW e \in Found(manifest[1])' PROVE e \in Found(m)
    OBVIOUS
  <2>1. Found(manifest[1])' = (UNION {tables'[n] : n \in Files(m)}) \cup Logged(manifest[1].log)'
    <3>1. Files(manifest[1])' = Files(m)
      BY <1>1 DEF Files
    <3> QED BY <3>1 DEF Found, Contents
  <2>2. CASE e \in Logged(manifest[1].log)'
    <3>1. PICK l \in DOMAIN logs' : l >= m.log /\ e \in RecsOf(l)'
      BY <1>1, <2>2 DEF Logged, LogsFrom
    <3>2. PICK i \in DOMAIN logs'[l].recs : e \in logs'[l].recs[i].entries
      BY <3>1 DEF RecsOf
    <3> QED BY <1>3, <3>1, <3>2
  <2>3. CASE e \in UNION {tables'[n] : n \in Files(m)}
    BY <1>2, <2>3 DEF Found
  <2> HIDE DEF m
  <2> QED BY <2>1, <2>2, <2>3
<1> QED BY <1>4

LEMMA OpenDiesSequences ==
  ASSUME FileInv, Sequences, OpenDies
  PROVE  Sequences'
<1> DEFINE m == manifest[1]
<1>1. /\ up = "down" /\ up' = "down" /\ manifest' = manifest
      /\ \A n \in Files(m) : tables'[n] = tables[n]
      /\ \A l \in DOMAIN logs : l \in DOMAIN logs' /\ logs'[l] = logs[l]
      /\ \A l \in DOMAIN logs' : l \in DOMAIN logs \/ logs'[l] = EmptyLog
  BY OpenDiesEffect
<1>2. Candidates' = {m} /\ Candidates = {m} /\ comp' = None
  <2>1. comp = None /\ comp' = comp
    BY <1>1 DEF FileInv, FilesOK, DownOK, Down, OpenDies, background
  <2> QED BY <1>1, <2>1 DEF Candidates, FileInv, FilesOK, DownOK, ManifestOK
<1>3. UNION {tables'[n] : n \in Files(m)} = Contents(Files(m))
  BY <1>1 DEF Contents
<1>4. Found(manifest[1])' \subseteq Found(m)
  BY OpenDiesFound
<1>5. Distinct(Found(manifest[1]))'
  BY <1>1, <1>4 DEF Sequences, Distinct
<1>6. \A k \in Candidates' : \A e \in Contents(Files(k))' : e[2] <= k.seq
  <2>1. Contents(Files(m))' = UNION {tables'[n] : n \in Files(manifest'[1])}
    BY DEF Contents
  <2>2. ASSUME NEW k \in Candidates', NEW e \in Contents(Files(k))' PROVE e[2] <= k.seq
    <3>1. k = m
      BY <1>2
    <3>2. Contents(Files(k))' = UNION {tables'[n] : n \in Files(k)}
      BY DEF Contents
    <3>3. e \in Contents(Files(m))
      BY <1>3, <2>2, <3>1, <3>2
    <3> QED BY <1>2, <3>1, <3>3 DEF Sequences
  <2> QED BY <2>2
<1> QED BY <1>1, <1>2, <1>5, <1>6 DEF Sequences, LeftOK

\* A recovery reads no more than the entries of the records.
LEMMA ReadLogWithin ==
  ASSUME NEW l \in DOMAIN logs
  PROVE  ReadLog(logs[l].recs) \subseteq RecsOf(l)
BY DEF ReadLog, RecsOf

\* What is in the directory once the database is open again was found, and is
\* not beyond the sequence it starts with.
LEMMA OpenedTables ==
  ASSUME FileInv, Sequences, Open
  PROVE  \A n \in DOMAIN tables' : /\ tables'[n] \subseteq Found(manifest[1])
                                   /\ \A e \in tables'[n] : e[2] <= lastSeq'
<1> DEFINE old == manifest[1]
           new == DOMAIN Recovered.tables
<1>1. /\ DOMAIN tables' = Files(old) \cup new /\ lastSeq' = RecoveredSequence
      /\ \A n \in new : tables'[n] = Recovered.tables[n]
      /\ \A n \in Files(old) : tables'[n] = tables[n]
  BY OpenEffect
<1>2. /\ \A t \in new : \E l \in FullLogs : Recovered.tables[t] = ReadLog(logs[l].recs)
      /\ old \in Candidates /\ old.seq \in Nat
      /\ RecoveredSequence \in Nat /\ old.seq <= RecoveredSequence
      /\ \A l \in OpenLogs : \A e \in ReadLog(logs[l].recs) : e[2] <= RecoveredSequence
  BY RecoveredEffect, CandidateTypes, RecoveredSequenceEffect DEF FileInv, FilesOK
<1> HIDE DEF new
<1>3. ASSUME NEW n \in new
      PROVE  tables'[n] \subseteq Found(old) /\ \A e \in tables'[n] : e[2] <= lastSeq'
  <2>1. PICK l \in FullLogs : Recovered.tables[n] = ReadLog(logs[l].recs)
    BY <1>2
  <2>2. l \in OpenLogs /\ l \in DOMAIN logs /\ l \in LogsFrom(old.log)
    BY DEF FullLogs, OpenLogs, LogsFrom
  <2>3. ReadLog(logs[l].recs) \subseteq Logged(old.log)
    BY <2>2, ReadLogWithin DEF Logged
  <2> QED BY <1>1, <1>2, <2>1, <2>2, <2>3 DEF Found
<1>4. ASSUME NEW n \in Files(old)
      PROVE  tables'[n] \subseteq Found(old) /\ \A e \in tables'[n] : e[2] <= lastSeq'
  <2>1. tables[n] \subseteq Contents(Files(old))
    BY DEF Contents
  <2>2. \A e \in Contents(Files(old)) : e[2] <= old.seq /\ e[2] \in Nat
    <3>1. \A k \in Files(old) : k \in DOMAIN tables /\ tables[k] \subseteq Entries
      BY <1>2 DEF FileInv, FilesOK, ManifestOK, TablesOK
    <3>2. Contents(Files(old)) \subseteq Entries
      BY <3>1 DEF Contents
    <3> QED BY <1>2, <3>2 DEF Sequences, Entries
  <2>3. \A e \in tables[n] : e[2] <= RecoveredSequence
    BY <1>2, <2>1, <2>2
  <2> QED BY <1>1, <2>1, <2>3 DEF Found
<1> QED BY <1>1, <1>3, <1>4

\* Once the database is open again, its tables hold all there is.
LEMMA OpenedStored ==
  ASSUME FileInv, Sequences, Open
  PROVE  /\ Settled' \subseteq Found(manifest[1]) /\ \A e \in Settled' : e[2] <= lastSeq'
         /\ Stored' = Settled' /\ InFlight' = {}
<1> DEFINE old == manifest[1]
<1>1. /\ up = "down" /\ up' = "open" /\ mem' = Recovered.next /\ logNumber' = Recovered.next
      /\ mems'[mem'] = {} /\ DOMAIN mems' = {mem'}
      /\ \A l \in DOMAIN logs' : l >= logNumber' => logs'[l] = EmptyLog
      /\ group' = None /\ comp' = None /\ view' = [q \in Readers |-> None]
  BY OpenEffect
<1>2. \A n \in DOMAIN tables' : tables'[n] \subseteq Found(old) /\ \A e \in tables'[n] : e[2] <= lastSeq'
  BY OpenedTables
<1>3. Settled' \subseteq Found(old) /\ \A e \in Settled' : e[2] <= lastSeq'
  <2>1. Settled' = Contents(DOMAIN tables)' \cup UNION {mems'[n] : n \in DOMAIN mems' \ {mem'}}
    BY DEF Settled
  <2>2. Contents(DOMAIN tables)' = UNION {tables'[n] : n \in DOMAIN tables'}
    BY DEF Contents
  <2>3. DOMAIN mems' \ {mem'} = {}
    BY <1>1
  <2>4. Settled' = UNION {tables'[n] : n \in DOMAIN tables'}
    BY <2>1, <2>2, <2>3
  <2> QED BY <1>2, <2>4
<1>4. Stored' = Settled'
  <2>1. Logged(logNumber)' = {}
    <3>1. DOMAIN EmptyLog.recs = {}
      BY DEF EmptyLog
    <3>2. \A l \in LogsFrom(logNumber)' : logs'[l] = EmptyLog
      BY <1>1 DEF LogsFrom
    <3>3. \A l \in LogsFrom(logNumber)' : RecsOf(l)' = {}
      BY <3>1, <3>2 DEF RecsOf
    <3> QED BY <3>3 DEF Logged
  <2> QED BY <1>1, <2>1 DEF Stored
<1>5. InFlight' = {}
  BY <1>1 DEF InFlight
<1> QED BY <1>3, <1>4, <1>5

LEMMA OpenSequences ==
  ASSUME FileInv, Sequences, Open
  PROVE  Sequences'
<1> DEFINE old == manifest[1]
<1>1. /\ up = "down" /\ up' = "open" /\ mem' = Recovered.next /\ logNumber' = Recovered.next
      /\ mems'[mem'] = {} /\ DOMAIN mems' = {mem'}
      /\ \A l \in DOMAIN logs' : l >= logNumber' => logs'[l] = EmptyLog
      /\ group' = None /\ comp' = None /\ view' = [q \in Readers |-> None]
  BY OpenEffect
<1>2. \A n \in DOMAIN tables' : tables'[n] \subseteq Found(old) /\ \A e \in tables'[n] : e[2] <= lastSeq'
  BY OpenedTables
<1>3. /\ Settled' \subseteq Found(old) /\ \A e \in Settled' : e[2] <= lastSeq'
      /\ Stored' = Settled' /\ InFlight' = {}
  BY OpenedStored
<1>4. Distinct(Found(old))
  BY <1>1 DEF Sequences
<1>5. EntriesOK'
  <2>1. Distinct(Stored \cup InFlight)'
    BY <1>3, <1>4 DEF Distinct
  <2> QED BY <1>3, <2>1 DEF EntriesOK
<1>6. PICK x : Candidates' = {x} /\ Files(x) = Files(version') /\ x.seq = lastSeq'
  BY OpenEffect
<1>7. \A e \in Contents(Files(x))' : e[2] <= lastSeq'
  <2>1. Files(x) \subseteq DOMAIN tables'
    BY <1>6, OpenEffect
  <2>2. Contents(Files(x))' = UNION {tables'[n] : n \in Files(x)}
    BY DEF Contents
  <2> QED BY <1>2, <2>1, <2>2
<1>8. lastSeq' \in Nat
  BY StepFiles DEF FileInv, NumbersOK, Next, Work
<1>9. \A m \in Candidates' : m.seq <= lastSeq' /\ \A e \in Contents(Files(m))' : e[2] <= m.seq
  BY <1>6, <1>7, <1>8
<1>10. \A r \in Readers : view'[r] = None
  BY <1>1
<1> QED BY <1>1, <1>5, <1>9, <1>10 DEF Sequences, LeftOK

LEMMA StepSequences ==
  ASSUME FileInv, Sequences, [Next]_vars
  PROVE  Sequences'
<1>1. FileInv'
  BY StepFiles
<1>2. CASE UNCHANGED vars
  BY <1>2 DEF vars, disk, memory, numbers, background, Sequences, LeftOK, EntriesOK, Found, Stored,
     Settled, Contents, Logged, LogsFrom, RecsOf, InFlight, Candidates
<1>3. CASE up = "down" /\ Next
  BY <1>3, DownSteps, OpenSequences, OpenDiesSequences, StopSequences
<1>4. CASE up # "down" /\ up' # "down"
  BY <1>1, <1>4, UpSequences
<1>5. CASE up # "down" /\ up' = "down" /\ Next
  <2>1. EndClose \/ Kill \/ NullManual \/ PowerCut
    BY <1>5, StopSteps
  <2> QED BY <2>1, StopSequences
<1> QED BY <1>2, <1>3, <1>4, <1>5

\* The inductive invariant holds throughout.
LEMMA SequencesInvariant == Spec => [](FileInv /\ Sequences)
<1>1. Init => FileInv /\ Sequences
  BY InitFiles, InitSequences
<1>2. FileInv /\ Sequences /\ [Next]_vars => FileInv' /\ Sequences'
  BY StepFiles, StepSequences
<1> QED BY <1>1, <1>2, PTL DEF Spec

(* What the theorems say of it.                                            *)

LEMMA HeldStored ==
  ASSUME FileInv, up # "down"
  PROVE  Held \subseteq Stored
<1>1. mem \in DOMAIN mems /\ (imm # None => imm \in DOMAIN mems /\ imm # mem)
  BY MemHeld, NoneAssumption DEF FileInv, FilesOK, NumbersOK, MemoryOK
<1>2. UNION {tables[n] : n \in Files(version) \cap DOMAIN tables} \subseteq Settled
  BY DEF Settled, Contents
<1>3. imm # None => mems[imm] \subseteq Settled
  BY <1>1 DEF Settled
<1> QED BY <1>2, <1>3 DEF Held, Stored

LEMMA RecoverableFound ==
  ASSUME NEW m
  PROVE  Recoverable(m) \subseteq Found(m)
<1> SUFFICES ASSUME NEW e \in Recoverable(m) PROVE e \in Found(m)
  OBVIOUS
<1>1. CASE \E n \in Files(m) \cap DOMAIN tables : e \in tables[n]
  BY <1>1 DEF Found, Contents
<1>2. CASE \E l \in LogsFrom(m.log) : e \in ReadLog(logs[l].recs)
  <2>1. PICK l \in LogsFrom(m.log) : e \in ReadLog(logs[l].recs)
    BY <1>2
  <2>2. e \in RecsOf(l)
    BY <2>1, ReadLogWithin DEF LogsFrom
  <2> QED BY <2>1, <2>2 DEF Found, Logged
<1> QED BY <1>1, <1>2 DEF Recoverable

\* No two writes ever share a sequence number, neither in what the open
\* database holds nor in what a recovery would read, and only a group in flight
\* is beyond the last sequence: Write, BuildBatchGroup and Recover.
THEOREM NumbersNeverShared == Spec => []SequencesFresh
<1>1. ASSUME FileInv, Sequences PROVE SequencesFresh
  <2> SUFFICES ASSUME up # "down"
               PROVE  LET all == Held \cup Recoverable(manifest[1]) IN
                        /\ \A a, b \in all : a[2] = b[2] => a[1] = b[1]
                        /\ \A e \in all : e[2] <= lastSeq \/ (group # None /\ e \in group.entries)
    BY DEF SequencesFresh
  <2>1. manifest[1] \in Candidates
    BY <1>1, CandidateTypes DEF FileInv, FilesOK
  <2>2. Held \cup Recoverable(manifest[1]) \subseteq Stored
    BY <1>1, <2>1, HeldStored, RecoverableFound, FoundStored
  <2>3. EntriesOK
    BY <1>1 DEF Sequences
  <2>4. \A e \in InFlight : group # None /\ e \in group.entries
    BY DEF InFlight
  <2>5. \A a, b \in Stored : a[2] = b[2] => a[1] = b[1]
    BY <2>3 DEF EntriesOK, Distinct
  <2>6. \A e \in Stored : e[2] <= lastSeq \/ (group # None /\ e \in group.entries)
    BY <2>3, <2>4 DEF EntriesOK
  <2> QED BY <2>2, <2>5, <2>6
<1> QED BY <1>1, SequencesInvariant, PTL

\* A memtable gets nothing that is not beyond the last sequence.
LEMMA MemsStep ==
  ASSUME FileInv, Sequences, up # "down", up' # "down", [Next]_vars,
         NEW n \in DOMAIN mems, n \in DOMAIN mems', NEW e, e[2] <= lastSeq
  PROVE  e \in mems'[n] <=> e \in mems[n]
<1>1. CASE Frame
  BY <1>1 DEF Frame
<1>2. CASE InsertInto
  <2>1. mems' = [mems EXCEPT ![mem] = @ \cup group.entries] /\ group # None
    BY <1>2 DEF InsertInto, Phase
  <2>2. group.entries = InFlight
    BY <2>1 DEF InFlight
  <2>3. lastSeq \in Nat /\ \A x \in InFlight : x[2] \in Nat /\ lastSeq < x[2]
    <3>1. group \in Groups /\ lastSeq \in Nat
      BY <2>1 DEF FileInv, QueueOK, NumbersOK
    <3>2. InFlight \subseteq Entries
      BY <2>2, <3>1 DEF Groups
    <3> QED BY <3>1, <3>2 DEF Entries, Sequences, EntriesOK
  <2>4. e \notin InFlight
    BY <2>3
  <2>5. mems'[n] = mems[n] \/ mems'[n] = mems[n] \cup group.entries
    BY <2>1
  <2> QED BY <2>2, <2>4, <2>5
<1>3. CASE \E c \in Calls : SwitchMemTable(c)
  BY <1>3, SwitchStored
<1>4. CASE AddRecord \/ AddRecordFails \/ SyncLog \/ SyncFails \/ FinishWrite
  BY <1>4 DEF AddRecord, AddRecordFails, SyncLog, SyncFails, FinishWrite, PhaseFails, memory
<1>5. CASE \E c \in Calls : WriteToMem(c)
  BY <1>5 DEF WriteToMem, memory
<1> QED BY <1>1, <1>2, <1>3, <1>4, <1>5, FrameStep DEF Writing, Sequences

\* What an iterator that stays open sees stays the same.
LEMMA SeenKept ==
  ASSUME FileInv, FileInv', Sequences, up # "down", up' # "down", [Next]_vars,
         NEW r \in Readers, view[r] # None, view'[r] = view[r], NEW v, v = view[r]
  PROVE  Seen(v)' = Seen(v)
<1>1. v \in Views /\ v \in Viewed /\ v.snapshot \in Nat /\ v.snapshot <= lastSeq /\ lastSeq \in Nat
  BY DEF FileInv, FilesOK, ViewsOK, NumbersOK, Viewed, Views, Sequences
<1>2. v \in Viewed'
  BY DEF Viewed
<1>3. v.mems \subseteq DOMAIN mems /\ v.mems \subseteq DOMAIN mems'
  BY <1>1, <1>2 DEF FileInv, FilesOK, MemoryOK, HeldMems
<1>4. v.files \subseteq DOMAIN tables /\ v.files \subseteq DOMAIN tables'
  BY DEF FileInv, FilesOK, ViewsOK
<1>5. \A n \in v.files : tables'[n] = tables[n]
  <2>1. v.files \subseteq Kept
    BY <1>1 DEF Kept, Named
  <2> QED BY <1>4, <2>1, TableStep
<1>6. \A n \in DOMAIN mems : mems[n] \subseteq Entries
  BY DEF FileInv, FilesOK, MemoryOK
<1>7. \A n \in DOMAIN mems' : mems'[n] \subseteq Entries
  BY DEF FileInv, FilesOK, MemoryOK
<1>8. ASSUME NEW n \in v.mems, NEW e, e[2] <= v.snapshot
      PROVE  e \in mems'[n] <=> e \in mems[n]
  <2>1. CASE e \in Entries
    <3>1. e[2] \in Nat
      BY <2>1 DEF Entries
    <3>2. e[2] <= lastSeq
      BY <1>1, <1>8, <3>1
    <3> QED BY <1>3, <3>2, MemsStep
  <2>2. CASE e \notin Entries
    BY <1>3, <1>6, <1>7, <2>2
  <2> QED BY <2>1, <2>2
<1>9. Seen(v) = {e \in UNION ({mems[n] : n \in v.mems} \cup {tables[n] : n \in v.files}) : e[2] <= v.snapshot}
  <2>1. v.mems \cap DOMAIN mems = v.mems /\ v.files \cap DOMAIN tables = v.files
    BY <1>3, <1>4
  <2> QED BY <2>1 DEF Seen, UpTo
<1>10. Seen(v)' = {e \in UNION ({mems'[n] : n \in v.mems} \cup {tables'[n] : n \in v.files}) : e[2] <= v.snapshot}
  <2>1. v.mems \cap DOMAIN mems' = v.mems /\ v.files \cap DOMAIN tables' = v.files
    BY <1>3, <1>4
  <2> QED BY <2>1 DEF Seen, UpTo
<1>11. ASSUME NEW e, e[2] <= v.snapshot
       PROVE  e \in UNION ({mems'[n] : n \in v.mems} \cup {tables'[n] : n \in v.files})
              <=> e \in UNION ({mems[n] : n \in v.mems} \cup {tables[n] : n \in v.files})
  BY <1>5, <1>8, <1>11
<1> QED BY <1>9, <1>10, <1>11

\* A new iterator sees what is committed.
LEMMA SeenAtFirst ==
  ASSUME FileInv, up # "down", NEW v,
         v = [snapshot |-> Capture.snapshot, mems |-> Capture.mems,
              files |-> Capture.files, seen |-> UpTo(Held, lastSeq)]
  PROVE  Seen(v) = v.seen
<1>1. mem \in DOMAIN mems /\ (imm # None => imm \in DOMAIN mems) /\ mem # None
  BY MemHeld, NoneAssumption DEF FileInv, FilesOK, NumbersOK
<1>2. /\ v.snapshot = lastSeq /\ v.mems = {mem, imm} \ {None} /\ v.files = Files(version)
      /\ v.seen = UpTo(Held, lastSeq)
  BY DEF Capture
<1>3. UNION ({mems[n] : n \in v.mems \cap DOMAIN mems} \cup {tables[n] : n \in v.files \cap DOMAIN tables}) = Held
  <2>1. v.mems \cap DOMAIN mems = {mem, imm} \ {None}
    BY <1>1, <1>2
  <2>2. CASE imm = None
    <3>1. v.mems \cap DOMAIN mems = {mem}
      BY <1>1, <2>1, <2>2
    <3> QED BY <1>2, <2>2, <3>1 DEF Held
  <2>3. CASE imm # None
    <3>1. v.mems \cap DOMAIN mems = {mem, imm}
      BY <1>1, <2>1, <2>3
    <3> QED BY <1>2, <2>3, <3>1 DEF Held
  <2> QED BY <2>2, <2>3
<1> QED BY <1>2, <1>3 DEF Seen

LEMMA StepReads ==
  ASSUME FileInv, Sequences, ReadsStable, [Next]_vars
  PROVE  ReadsStable'
<1>1. FileInv'
  BY StepFiles
<1>2. CASE up' = "down"
  <2>1. \A r \in Readers : view'[r] = None
    BY <1>1, <1>2 DEF FileInv, FilesOK, DownOK, Down
  <2> QED BY <2>1 DEF ReadsStable
<1>3. CASE UNCHANGED vars
  BY <1>3 DEF vars, memory, disk, ReadsStable, Seen
<1>4. CASE up = "down" /\ up' # "down" /\ Next
  <2>1. Open
    BY <1>4, DownSteps, StopEffect DEF OpenDies
  <2>2. \A r \in Readers : view'[r] = None
    BY <2>1, OpenEffect
  <2> QED BY <2>2 DEF ReadsStable
<1>5. CASE up # "down" /\ up' # "down"
  <2> SUFFICES ASSUME NEW r \in Readers, view'[r] # None
               PROVE  Seen(view[r])' = view'[r].seen
    BY DEF ReadsStable
  <2>1. CASE view[r] # None /\ view'[r] = view[r]
    <3>1. PICK w : w = view[r]
      OBVIOUS
    <3>2. Seen(w)' = Seen(w)
      BY <1>1, <1>5, <2>1, <3>1, SeenKept
    <3>3. Seen(view[r])' = Seen(w)'
      BY <2>1, <3>1 DEF Seen
    <3> QED BY <2>1, <3>1, <3>2, <3>3 DEF ReadsStable
  <2>2. CASE NewIterator(r) /\ view'[r] = [snapshot |-> Capture.snapshot, mems |-> Capture.mems,
                                           files |-> Capture.files, seen |-> UpTo(Held, lastSeq)]
    <3>1. PICK w : w = [snapshot |-> Capture.snapshot, mems |-> Capture.mems,
                        files |-> Capture.files, seen |-> UpTo(Held, lastSeq)]
      OBVIOUS
    <3>2. Seen(w) = w.seen
      BY <1>5, <3>1, SeenAtFirst
    <3>3. UNCHANGED <<mems, tables>>
      BY <2>2 DEF NewIterator, memory, disk
    <3>4. Seen(view[r])' = Seen(w)
      BY <2>2, <3>1, <3>3 DEF Seen
    <3> QED BY <2>2, <3>1, <3>2, <3>4
  <2> QED BY <1>5, <2>1, <2>2, ViewsKept
<1> QED BY <1>2, <1>3, <1>4, <1>5

\* An iterator sees, as long as it is open, exactly what was committed when it
\* was made: NewInternalIterator, Ref and Unref, DeleteObsoleteFiles.
THEOREM IteratorsRead == Spec => []ReadsStable
<1>1. Init => ReadsStable
  BY DEF Init, Down, ReadsStable
<1>2. FileInv /\ Sequences /\ ReadsStable /\ [Next]_vars => ReadsStable'
  BY StepReads
<1> QED BY <1>1, <1>2, SequencesInvariant, PTL DEF Spec

-----------------------------------------------------------------------------
(* The promises: DurableStore, and what survives a dead process.            *)

(* A record is never cut short: no write to a log fails, which is what     *)
(* takes the promise back (see DBImplTornRecord).                          *)
NothingTorn == "append" \notin limits.faults

\* What files of directory f hold, what log holds, and what the disk is sure to
\* keep of it; of a recovery from state m of the manifest, it keeps Safe(m).
EntriesIn(f, files) == UNION {f[n] : n \in files}
RecsIn(log) == UNION {log.recs[i].entries : i \in DOMAIN log.recs}
SyncedIn(log) == UNION {log.recs[i].entries : i \in 1..log.synced}
Safe(m) == EntriesIn(tables, Files(m)) \cup UNION {SyncedIn(logs[l]) : l \in LogsFrom(m.log)}

Whole == \A l \in DOMAIN logs : \A i \in DOMAIN logs[l].recs : logs[l].recs[i].whole

\* The group in flight is that of the calls at the front of the queue.
GroupRight ==
  group # None =>
    /\ CallsOf(group.entries) = {writers[i] : i \in {j \in 1..group.size : kind[writers[j]] # "flush"}}
    /\ kind[writers[1]] # "flush"
    /\ \A i \in 1..group.size : kind[writers[i]] = "sync" => kind[writers[1]] = "sync"
    /\ group.status # "ok" => group.phase = "finish"
    /\ group.phase = "sync" => kind[writers[1]] = "sync"

\* A memtable is covered by its log, and so is the group once it is logged; it
\* is in the memtable when all went well, and on the disk if that was asked for.
LogRight ==
  up # "down" =>
    /\ mems[mem] \subseteq RecsIn(logs[mem])
    /\ imm # None => mems[imm] \subseteq RecsIn(logs[imm])
    /\ group # None =>
         /\ group.phase # "append" => group.entries \subseteq RecsIn(logs[mem])
         /\ IF group.phase = "finish" /\ group.status = "ok"
            THEN group.entries \subseteq mems[mem]
            ELSE \A e \in mems[mem] : e[2] <= lastSeq
         /\ group.phase \in {"insert", "finish"} /\ group.status = "ok" /\ kind[writers[1]] = "sync"
              => group.entries \subseteq SyncedIn(logs[mem])

\* A flush replaces a memtable and a compaction its inputs by the same entries.
FlushRight ==
  Installing => mems[imm] = EntriesIn(tables, flush.edit.l0 \cup flush.edit.deep)
CompRight ==
  comp # None =>
    IF comp.state = "installing"
    THEN EntriesIn(tables, comp.inputs) = EntriesIn(tables, comp.edit.deep)
    ELSE EntriesIn(tables, comp.inputs) = comp.left \cup EntriesIn(tables, comp.outs)

\* Whatever state of the manifest is read back, the tables in use are in it,
\* and the memtable being flushed in its tables or in its logs.
ManifestRight ==
  up # "down" =>
    \A m \in Candidates :
      /\ EntriesIn(tables, Files(version)) \subseteq EntriesIn(tables, Files(m))
      /\ m.log = logNumber \/ (imm # None /\ m.log = mem /\ mems[imm] \subseteq EntriesIn(tables, Files(m)))

\* What the disk has of memtable l.
Sure(l) == IF l = None THEN {} ELSE mems[l] \cap SyncedIn(logs[l])
Lasting == IF up = "down" THEN Safe(manifest[1]) ELSE EntriesIn(tables, Files(version)) \cup Sure(mem) \cup Sure(imm)
PromiseKept == \A c \in Calls : st[c] = "ok" /\ kind[c] = "sync" => \E e \in Lasting : e[1] = c

\* What is stored was asked for; by a call that returned, unless it is in flight.
CallsRight ==
  IF up = "down" THEN \A e \in Found(manifest[1]) : st[e[1]] # "idle"
  ELSE \A e \in Stored : /\ st[e[1]] # "idle"
                         /\ e \in InFlight \/ \A i \in DOMAIN writers : writers[i] # e[1]

StoreInv == /\ NothingTorn /\ Whole /\ GroupRight /\ LogRight /\ FlushRight /\ CompRight
            /\ ManifestRight /\ PromiseKept /\ CallsRight

(* The steps of a running database, one part of its state at a time.       *)

\* Logs only grow, by records that are whole, and so does what is on the disk.
LogsGrow ==
  \A l \in DOMAIN logs' :
    IF l \in DOMAIN logs
    THEN /\ logs[l].synced <= logs'[l].synced
         /\ \A i \in DOMAIN logs[l].recs : i \in DOMAIN logs'[l].recs /\ logs'[l].recs[i] = logs[l].recs[i]
         /\ \A i \in DOMAIN logs'[l].recs : i \in DOMAIN logs[l].recs \/ logs'[l].recs[i].whole
    ELSE logs'[l] = EmptyLog

LEMMA LogStep ==
  ASSUME FileInv, NothingTorn, up # "down", up' # "down", [Next]_vars
  PROVE  LogsGrow
<1>1. /\ \A l \in DOMAIN logs : /\ logs[l] \in [recs: Seq(Records), synced: Nat]
                                /\ logs[l].synced <= Len(logs[l].recs)
      /\ mem \in DOMAIN logs /\ nextFile \notin DOMAIN logs
  BY DEF FileInv, FilesOK, LogsOK, MemoryOK, NumbersOK
<1>2. ASSUME \A l \in DOMAIN logs' : l \in DOMAIN logs /\ logs'[l] = logs[l]
      PROVE  LogsGrow
  BY <1>1, <1>2 DEF LogsGrow
<1>3. ASSUME logs' = logs PROVE LogsGrow
  BY <1>2, <1>3
<1>4. ASSUME DeleteObsoleteFiles(tables, logs) PROVE LogsGrow
  BY <1>2, <1>4 DEF DeleteObsoleteFiles, Restrict
<1>5. CASE \E c \in Calls : SwitchMemTable(c)
  <2>1. logs' = Put(logs, nextFile, EmptyLog)
    BY <1>5 DEF SwitchMemTable
  <2>2. DOMAIN logs' = DOMAIN logs \cup {nextFile} /\ logs'[nextFile] = EmptyLog
    BY <2>1 DEF Put
  <2>3. \A l \in DOMAIN logs : logs'[l] = logs[l]
    BY <1>1, <2>1 DEF Put
  <2> QED BY <1>1, <2>2, <2>3 DEF LogsGrow
<1>6. CASE AddRecord
  <2> DEFINE r == [entries |-> group.entries, whole |-> TRUE]
  <2>1. logs' = [logs EXCEPT ![mem].recs = Append(@, r)] /\ r.whole
    BY <1>6 DEF AddRecord
  <2> HIDE DEF r
  <2>2. DOMAIN logs' = DOMAIN logs /\ logs[mem].recs \in Seq(Records) /\ logs[mem].synced \in Nat
    BY <1>1, <2>1
  <2>3. logs'[mem].recs = Append(logs[mem].recs, r) /\ logs'[mem].synced = logs[mem].synced
    BY <1>1, <2>1
  <2>4. \A l \in DOMAIN logs : l # mem => logs'[l] = logs[l]
    BY <2>1
  <2>5. /\ \A i \in DOMAIN logs[mem].recs : i \in DOMAIN logs'[mem].recs /\ logs'[mem].recs[i] = logs[mem].recs[i]
        /\ \A i \in DOMAIN logs'[mem].recs : i \in DOMAIN logs[mem].recs \/ logs'[mem].recs[i] = r
    BY <2>2, <2>3
  <2> QED BY <1>1, <2>1, <2>2, <2>3, <2>4, <2>5 DEF LogsGrow
<1>7. CASE SyncLog
  <2>1. logs' = [logs EXCEPT ![mem].synced = Len(logs[mem].recs)]
    BY <1>7 DEF SyncLog
  <2>2. DOMAIN logs' = DOMAIN logs /\ \A l \in DOMAIN logs : l # mem => logs'[l] = logs[l]
    BY <2>1
  <2>3. logs'[mem].recs = logs[mem].recs /\ logs'[mem].synced = Len(logs[mem].recs)
    BY <1>1, <2>1
  <2> QED BY <1>1, <2>2, <2>3 DEF LogsGrow
<1>8. CASE UNCHANGED vars
  BY <1>3, <1>8 DEF vars, disk
<1>9. CASE Environment
  BY <1>3, <1>9 DEF Environment, Enqueue, NewIterator, CloseIterator, BeginManual, BeginClose,
     Kill, PowerCut, Stop, OpenDies, disk
<1>10. CASE \E c \in Calls : CallStep(c)
  BY <1>3, <1>5, <1>10 DEF CallStep, Refuse, SlowDown, WaitForRoom, WriteToMem, SwitchFails,
     AwaitFlush, disk
<1>11. CASE LogGroup
  BY <1>3, <1>6, <1>7, <1>11 DEF LogGroup, AddRecordFails, SyncFails, InsertInto, FinishWrite, disk, NothingTorn
<1>12. CASE Open \/ EndClose \/ \E m \in Manuals : EndManual(m) \/ AwaitManual(m)
  BY <1>3, <1>12 DEF Open, EndClose, Stop, EndManual, AwaitManual, disk
<1>13. CASE BackgroundWork
  <2>1. CASE \/ BackgroundCallIdle \/ StartFlush \/ BuildTableFails \/ FlushAborted \/ LogFlush(0)
             \/ LogFlush(1) \/ FlushEditFails \/ ManualHasNothing
    BY <1>3, <2>1 DEF BackgroundCallIdle, StartFlush, BuildTableFails, FlushAborted, LogFlush,
       FlushEditFails, ManualHasNothing, disk
  <2>2. CASE \/ OpenCompactionOutputFile \/ LogCompaction
             \/ \E part \in SUBSET (IF comp = None THEN {} ELSE comp.left) : FinishCompactionOutputFile(part)
    <3>1. ASSUME NEW part, FinishCompactionOutputFile(part) PROVE logs' = logs
      BY <3>1 DEF FinishCompactionOutputFile
    <3> QED BY <1>3, <2>2, <3>1 DEF OpenCompactionOutputFile, LogCompaction
  <2>3. CASE EndFlush \/ InstallCompaction \/ CompactionEditFails \/ CompactionFails
    BY <1>3, <1>4, <2>3 DEF EndFlush, InstallCompaction, CompactionEditFails, CompactionFails, EndCompaction
  <2>4. CASE \E inputs \in Inputs : StartCompaction(inputs)
    BY <1>3, <2>4 DEF StartCompaction
  <2>5. CASE NullManual
    BY <2>5 DEF NullManual, Stop
  <2> QED BY <1>13, <2>1, <2>2, <2>3, <2>4, <2>5 DEF BackgroundWork
<1> QED BY <1>8, <1>9, <1>10, <1>11, <1>12, <1>13 DEF Next, Work

\* Only a full memtable, its flush and the end of a compaction change which
\* files and memtables make up the database.
LEMMA VersionStep ==
  ASSUME FileInv, up # "down", up' # "down", [Next]_vars
  PROVE  \/ UNCHANGED <<version, logNumber, mem, imm>>
         \/ \E c \in Calls : SwitchMemTable(c)
         \/ EndFlush \/ InstallCompaction
<1> DEFINE Goal == UNCHANGED <<version, logNumber, mem, imm>>
<1>1. CASE UNCHANGED vars
  BY <1>1 DEF vars, memory, numbers
<1>2. CASE Environment
  BY <1>2 DEF Environment, Enqueue, NewIterator, CloseIterator, BeginManual, BeginClose,
     Kill, PowerCut, Stop, OpenDies, memory, numbers
<1>3. CASE \E c \in Calls : CallStep(c)
  BY <1>3 DEF CallStep, Refuse, SlowDown, WaitForRoom, WriteToMem, SwitchFails, AwaitFlush, memory, numbers
<1>4. CASE LogGroup
  BY <1>4 DEF LogGroup, AddRecord, AddRecordFails, SyncLog, SyncFails, InsertInto, FinishWrite,
     Phase, PhaseFails, memory, numbers
<1>5. CASE Open \/ EndClose \/ \E m \in Manuals : EndManual(m) \/ AwaitManual(m)
  BY <1>5 DEF Open, EndClose, Stop, EndManual, AwaitManual, memory, numbers
<1>6. CASE BackgroundWork
  <2>1. CASE BackgroundCallIdle \/ StartFlush \/ BuildTableFails \/ FlushAborted \/ LogFlush(0) \/ LogFlush(1)
    BY <2>1 DEF BackgroundCallIdle, StartFlush, BuildTableFails, FlushAborted, LogFlush, FlushFails, memory, numbers
  <2>2. CASE FlushEditFails \/ ManualHasNothing
    BY <2>2 DEF FlushEditFails, ManualHasNothing, EditFails, FlushFails, memory, numbers
  <2>3. CASE \/ OpenCompactionOutputFile \/ LogCompaction
             \/ \E part \in SUBSET (IF comp = None THEN {} ELSE comp.left) : FinishCompactionOutputFile(part)
    <3>1. ASSUME NEW part, FinishCompactionOutputFile(part) PROVE Goal
      BY <3>1 DEF FinishCompactionOutputFile, memory, numbers
    <3> QED BY <2>3, <3>1 DEF OpenCompactionOutputFile, LogCompaction, memory, numbers
  <2>4. CASE CompactionEditFails \/ CompactionFails
    BY <2>4 DEF CompactionEditFails, CompactionFails, EndCompaction, EditFails
  <2>5. CASE \E inputs \in Inputs : StartCompaction(inputs)
    BY <2>5 DEF StartCompaction, memory
  <2>6. CASE NullManual
    BY <2>6 DEF NullManual, Stop
  <2> QED BY <1>6, <2>1, <2>2, <2>3, <2>4, <2>5, <2>6 DEF BackgroundWork
<1> QED BY <1>1, <1>2, <1>3, <1>4, <1>5, <1>6 DEF Next, Work

\* A state that the manifest may be read back in comes with an edit.
LEMMA ManifestStep ==
  ASSUME FileInv, up # "down", up' # "down", [Next]_vars
  PROVE  \/ Candidates' \subseteq Candidates
         \/ LogFlush(0) \/ LogFlush(1) \/ LogCompaction
         \/ \E inputs \in Inputs : StartCompaction(inputs) /\ manifest' # manifest
<1> DEFINE Goal == Candidates' \subseteq Candidates
<1>1. ASSUME manifest' = manifest PROVE Goal
  BY <1>1 DEF Candidates
<1>2. ManifestOK /\ NumbersOK
  BY DEF FileInv, FilesOK
<1>3. ASSUME manifest' = <<Last(manifest)>> PROVE Goal
  BY <1>2, <1>3, EditTaken
<1>4. ASSUME EditFails, NEW x \in {flush, comp}, x # None,
             x = flush => flush.installing, x = comp => comp.state = "installing"
      PROVE Goal
  <2>1. Len(manifest) >= 2
    BY <1>4 DEF FileInv, FilesOK, FlushOK, CompOK
  <2>2. manifest' = manifest \/ manifest' = Front(manifest)
    BY <1>4 DEF EditFails
  <2> QED BY <1>2, <2>1, <2>2, FrontEffect
<1>5. CASE UNCHANGED vars
  BY <1>1, <1>5 DEF vars, disk
<1>6. CASE Environment
  BY <1>1, <1>6 DEF Environment, Enqueue, NewIterator, CloseIterator, BeginManual, BeginClose,
     Kill, PowerCut, Stop, OpenDies, disk
<1>7. CASE \E c \in Calls : CallStep(c)
  BY <1>1, <1>7 DEF CallStep, Refuse, SlowDown, WaitForRoom, WriteToMem, SwitchMemTable, SwitchFails,
     AwaitFlush, disk
<1>8. CASE LogGroup
  BY <1>1, <1>8 DEF LogGroup, AddRecord, AddRecordFails, SyncLog, SyncFails, InsertInto, FinishWrite,
     Phase, PhaseFails, disk
<1>9. CASE Open \/ EndClose \/ \E m \in Manuals : EndManual(m) \/ AwaitManual(m)
  BY <1>1, <1>9 DEF Open, EndClose, Stop, EndManual, AwaitManual, disk
<1>10. CASE BackgroundWork
  <2>1. CASE \/ StartFlush \/ OpenCompactionOutputFile \/ BuildTableFails \/ FlushAborted
             \/ BackgroundCallIdle \/ ManualHasNothing \/ CompactionFails
             \/ \E part \in SUBSET (IF comp = None THEN {} ELSE comp.left) : FinishCompactionOutputFile(part)
    BY <1>1, <2>1 DEF StartFlush, OpenCompactionOutputFile, BuildTableFails, FlushAborted,
       BackgroundCallIdle, ManualHasNothing, CompactionFails, FinishCompactionOutputFile, disk
  <2>2. CASE \E inputs \in Inputs : StartCompaction(inputs)
    BY <1>1, <2>2
  <2>3. CASE EndFlush \/ InstallCompaction
    BY <1>3, <2>3 DEF EndFlush, InstallCompaction, InstallEdit
  <2>4. CASE FlushEditFails
    BY <1>4, <2>4 DEF FlushEditFails, FileInv, FilesOK, FlushOK
  <2>5. CASE CompactionEditFails
    <3>1. EditFails /\ comp # None /\ comp.state = "installing"
      BY <2>5 DEF CompactionEditFails
    <3>2. flush = None
      BY <3>1 DEF FileInv, FilesOK, FlushOK
    <3> QED BY <1>4, <3>1, <3>2
  <2>6. CASE NullManual
    BY <2>6 DEF NullManual, Stop
  <2> QED BY <1>10, <2>1, <2>2, <2>3, <2>4, <2>5, <2>6 DEF BackgroundWork
<1> QED BY <1>5, <1>6, <1>7, <1>8, <1>9, <1>10 DEF Next, Work

\* Nobody but the calls of Write touches the queue.
LEMMA OtherStep ==
  ASSUME FileInv, up # "down", up' # "down", [Next]_vars,
         ~LogGroup, \A c \in Calls : ~CallStep(c) /\ \A k \in Kinds : ~Enqueue(c, k)
  PROVE  /\ UNCHANGED <<kind, writers, group, lastSeq>>
         /\ st' = st \/ st' = WokenCalls(st)
<1> DEFINE Goal == UNCHANGED <<kind, writers, group, lastSeq>> /\ (st' = st \/ st' = WokenCalls(st))
<1>1. CASE UNCHANGED vars
  BY <1>1 DEF vars, clients, numbers
<1>2. CASE Environment
  BY <1>2 DEF Environment, NewIterator, CloseIterator, BeginManual, BeginClose,
     Kill, PowerCut, Stop, OpenDies, clients, numbers
<1>3. CASE Open \/ EndClose \/ \E m \in Manuals : EndManual(m) \/ AwaitManual(m)
  BY <1>3 DEF Open, EndClose, Stop, EndManual, AwaitManual, numbers
<1>4. CASE BackgroundWork
  <2>1. CASE BackgroundCallIdle \/ StartFlush \/ BuildTableFails \/ FlushAborted \/ LogFlush(0) \/ LogFlush(1)
    BY <2>1 DEF BackgroundCallIdle, StartFlush, BuildTableFails, FlushAborted, LogFlush, FlushFails,
       EndBackgroundCall, SignalAll, clients, numbers
  <2>2. CASE EndFlush \/ FlushEditFails \/ ManualHasNothing
    BY <2>2 DEF EndFlush, FlushEditFails, ManualHasNothing, FlushFails, EndBackgroundCall, SignalAll, numbers
  <2>3. CASE \/ OpenCompactionOutputFile \/ LogCompaction
             \/ \E part \in SUBSET (IF comp = None THEN {} ELSE comp.left) : FinishCompactionOutputFile(part)
    <3>1. ASSUME NEW part, FinishCompactionOutputFile(part) PROVE Goal
      BY <3>1 DEF FinishCompactionOutputFile, clients, numbers
    <3> QED BY <2>3, <3>1 DEF OpenCompactionOutputFile, LogCompaction, clients
  <2>4. CASE InstallCompaction \/ CompactionEditFails \/ CompactionFails
    BY <2>4 DEF InstallCompaction, CompactionEditFails, CompactionFails, EndCompaction, EndBackgroundCall
  <2>5. CASE \E inputs \in Inputs : StartCompaction(inputs)
    BY <2>5 DEF StartCompaction, clients
  <2>6. CASE NullManual
    BY <2>6 DEF NullManual, Stop
  <2> QED BY <1>4, <2>1, <2>2, <2>3, <2>4, <2>5, <2>6 DEF BackgroundWork
<1> QED BY <1>1, <1>2, <1>3, <1>4 DEF Next, Work, Environment

(* What such a step leaves of tables, memtables and logs.                  *)

LEMMA KeptParts ==
  ASSUME FileInv, up # "down"
  PROVE  /\ Files(version) \subseteq Kept
         /\ \A m \in Candidates : Files(m) \subseteq Kept
         /\ comp # None => comp.inputs \cup comp.base \cup comp.outs \subseteq Kept
         /\ Installing => flush.edit.l0 \cup flush.edit.deep \subseteq Kept
         /\ Kept \subseteq DOMAIN tables
  BY KeptPresent DEF Kept, Named, FileInv, FilesOK, CompOK

LEMMA TablesKept ==
  ASSUME FileInv, up # "down", up' # "down", [Next]_vars,
         NEW S, S \subseteq Kept, S \subseteq DOMAIN tables'
  PROVE  EntriesIn(tables', S) = EntriesIn(tables, S)
<1>1. \A n \in S : tables'[n] = tables[n]
  BY TableStep
<1> QED BY <1>1 DEF EntriesIn

LEMMA LogsKept ==
  ASSUME FileInv, FileInv', LogsGrow, NEW l \in DOMAIN logs, l \in DOMAIN logs'
  PROVE  /\ RecsIn(logs[l]) \subseteq RecsIn(logs'[l])
         /\ SyncedIn(logs[l]) \subseteq SyncedIn(logs'[l])
<1>1. /\ logs[l].recs \in Seq(Records) /\ logs[l].synced \in Nat
      /\ logs[l].synced <= Len(logs[l].recs)
  BY DEF FileInv, FilesOK, LogsOK
<1>2. /\ logs[l].synced <= logs'[l].synced
      /\ \A i \in DOMAIN logs[l].recs : i \in DOMAIN logs'[l].recs /\ logs'[l].recs[i] = logs[l].recs[i]
  BY DEF LogsGrow
<1>3. RecsIn(logs[l]) \subseteq RecsIn(logs'[l])
  BY <1>2 DEF RecsIn
<1>4. logs'[l].synced \in Nat
  BY DEF FileInv, FilesOK, LogsOK
<1>5. \A i \in 1..logs[l].synced : i \in 1..logs'[l].synced /\ logs'[l].recs[i] = logs[l].recs[i]
  BY <1>1, <1>2, <1>4
<1> QED BY <1>3, <1>5 DEF SyncedIn

LEMMA SyncedWithin ==
  ASSUME FileInv, NEW l \in DOMAIN logs
  PROVE  SyncedIn(logs[l]) \subseteq RecsIn(logs[l])
<1>1. /\ logs[l].recs \in Seq(Records) /\ logs[l].synced \in Nat
      /\ logs[l].synced <= Len(logs[l].recs)
  BY DEF FileInv, FilesOK, LogsOK
<1>2. 1..logs[l].synced \subseteq DOMAIN logs[l].recs
  BY <1>1
<1> QED BY <1>2 DEF RecsIn, SyncedIn

LEMMA MemsKept ==
  ASSUME FileInv, LeftOK, up # "down", up' # "down", [Next]_vars,
         NEW n \in DOMAIN mems, n \in DOMAIN mems'
  PROVE  mems'[n] = mems[n] \/ (InsertInto /\ n = mem)
<1>1. CASE Frame
  BY <1>1 DEF Frame
<1>2. CASE InsertInto
  BY <1>2 DEF InsertInto
<1>3. CASE \E c \in Calls : SwitchMemTable(c)
  BY <1>3, SwitchStored
<1>4. CASE AddRecord \/ AddRecordFails \/ SyncLog \/ SyncFails \/ FinishWrite
  BY <1>4 DEF AddRecord, AddRecordFails, SyncLog, SyncFails, FinishWrite, PhaseFails, memory
<1>5. CASE \E c \in Calls : WriteToMem(c)
  BY <1>5 DEF WriteToMem, memory
<1> QED BY <1>1, <1>2, <1>3, <1>4, <1>5, FrameStep DEF Writing

\* The memtables and their logs.
LEMMA MemtableFacts ==
  ASSUME FileInv, up # "down"
  PROVE  /\ mem \in Nat /\ mem # None /\ mem \in DOMAIN mems /\ mem \in DOMAIN logs
         /\ imm # None => /\ imm \in Nat /\ imm < mem /\ imm # mem
                          /\ imm \in DOMAIN mems /\ imm \in DOMAIN logs
         /\ logNumber = IF imm = None THEN mem ELSE imm
         /\ logNumber \in Nat /\ logNumber <= mem
         /\ lastSeq \in Nat
<1>1. /\ mem \in Nat /\ imm \in Nat \cup {None} /\ lastSeq \in Nat
      /\ mem \in DOMAIN mems /\ mem \in DOMAIN logs
      /\ imm # None => imm \in DOMAIN mems /\ imm \in DOMAIN logs /\ imm \in Nat
  BY MemHeld DEF FileInv, FilesOK, NumbersOK
<1>2. (imm # None => imm < mem) /\ logNumber = IF imm = None THEN mem ELSE imm
  BY DEF FileInv, FilesOK, MemoryOK
<1>3. mem # None
  BY <1>1, NoneAssumption
<1> QED BY <1>1, <1>2, <1>3

\* A full memtable becomes the immutable one.
LEMMA SwitchEffect ==
  ASSUME FileInv, NEW c \in Calls, SwitchMemTable(c)
  PROVE  /\ imm = None /\ imm' = mem /\ mem' # mem
         /\ mems'[mem'] = {} /\ mems'[mem] = mems[mem]
         /\ logs'[mem'] = EmptyLog /\ logs'[mem] = logs[mem]
         /\ UNCHANGED <<logNumber, version, tables, manifest, flush, comp, lastSeq, kind>>
         /\ flush = None /\ group = None /\ up = "open" /\ up' = up /\ Leads(c)
<1>1. /\ imm' = mem /\ mem' = nextFile /\ mems' = Put(mems, nextFile, {})
      /\ logs' = Put(logs, nextFile, EmptyLog) /\ ~MustWait /\ Leads(c) /\ up' = up
      /\ UNCHANGED <<logNumber, version, tables, manifest, flush, comp, lastSeq, kind>>
  BY DEF SwitchMemTable
<1>2. imm = None /\ up = "open"
  BY <1>1 DEF MustWait, Leads
<1>3. flush = None /\ group = None
  BY <1>1, <1>2, LeaderAlone DEF FileInv, FilesOK, FlushOK
<1>4. mem \in DOMAIN mems /\ mem \in DOMAIN logs
  BY <1>2, MemtableFacts
<1>5. nextFile \in Nat /\ mem < nextFile
  BY <1>2, <1>4 DEF FileInv, FilesOK, NumbersOK, MemoryOK
<1>6. mem # nextFile
  BY <1>4, <1>5 DEF FileInv, NumbersOK
<1>7. mems'[nextFile] = {} /\ mems'[mem] = mems[mem]
  BY <1>1, <1>4, <1>6 DEF Put
<1>8. logs'[nextFile] = EmptyLog /\ logs'[mem] = logs[mem]
  BY <1>1, <1>4, <1>6 DEF Put
<1> QED BY <1>1, <1>2, <1>3, <1>6, <1>7, <1>8

\* The flushed memtable goes and its table comes.
LEMMA EndFlushEffect ==
  ASSUME FileInv, EndFlush
  PROVE  /\ up # "down" /\ Installing /\ imm # None /\ imm' = None
         /\ Files(version') = Files(version) \cup flush.edit.l0 \cup flush.edit.deep
         /\ logNumber' = mem /\ flush' = None
         /\ Last(manifest) \in Candidates /\ Candidates' = {Last(manifest)} /\ Last(manifest).log = mem
         /\ UNCHANGED <<mem, comp, kind, writers, group, lastSeq>>
<1>1. /\ flush # None /\ flush.installing /\ InstallEdit(flush.edit, flush.log)
      /\ imm' = None /\ flush' = None
      /\ UNCHANGED <<mem, comp, kind, writers, group, lastSeq>>
  BY DEF EndFlush
<1>2. up # "down"
  BY <1>1 DEF FileInv, FilesOK, DownOK, Down
<1>3. /\ imm # None /\ flush.log = mem /\ flush.edit \in Edits /\ flush.edit.del = {}
      /\ Last(manifest).log = mem
  BY <1>1 DEF FileInv, FilesOK, FlushOK
<1>4. version \in Versions
  BY DEF FileInv, NumbersOK
<1>5. /\ version'.l0 = (version.l0 \ {}) \cup flush.edit.l0
      /\ version'.deep = (version.deep \ {}) \cup flush.edit.deep
      /\ logNumber' = mem /\ manifest' = <<Last(manifest)>>
  BY <1>1, <1>3, <1>4, ApplyEffect DEF InstallEdit
<1>6. Last(manifest) \in Candidates /\ Candidates' = {Last(manifest)}
  BY <1>5, EditTaken, CandidateTypes DEF FileInv, FilesOK
<1> QED BY <1>1, <1>2, <1>3, <1>5, <1>6 DEF Files, Installing

\* The inputs of a compaction go and its outputs come.
LEMMA InstallEffect ==
  ASSUME FileInv, InstallCompaction
  PROVE  /\ up # "down" /\ comp # None /\ comp.state = "installing"
         /\ comp.inputs \subseteq Files(version)
         /\ Files(version') = (Files(version) \ comp.inputs) \cup comp.edit.deep
         /\ comp' = None /\ flush = None /\ flush' = None
         /\ Last(manifest) \in Candidates /\ Candidates' = {Last(manifest)}
         /\ UNCHANGED <<mem, imm, logNumber, kind, writers, group, lastSeq>>
<1>1. /\ comp # None /\ comp.state = "installing" /\ InstallEdit(comp.edit, logNumber)
      /\ comp' = None /\ UNCHANGED <<mem, imm, flush, kind, writers, group, lastSeq>>
  BY DEF InstallCompaction, EndCompaction
<1>2. up # "down"
  BY <1>1 DEF FileInv, FilesOK, DownOK, Down
<1>3. /\ comp.inputs \subseteq Files(version) /\ comp.edit \in Edits
      /\ comp.edit.l0 = {} /\ comp.edit.del = comp.inputs
  BY <1>1 DEF FileInv, FilesOK, CompOK
<1>4. flush = None
  BY <1>1 DEF FileInv, FilesOK, FlushOK
<1>5. version \in Versions
  BY DEF FileInv, NumbersOK
<1>6. /\ version'.l0 = (version.l0 \ comp.inputs) \cup {}
      /\ version'.deep = (version.deep \ comp.inputs) \cup comp.edit.deep
      /\ logNumber' = logNumber /\ manifest' = <<Last(manifest)>>
  BY <1>1, <1>3, <1>5, ApplyEffect DEF InstallEdit
<1>7. Last(manifest) \in Candidates /\ Candidates' = {Last(manifest)}
  BY <1>6, EditTaken, CandidateTypes DEF FileInv, FilesOK
<1> QED BY <1>1, <1>2, <1>3, <1>4, <1>6, <1>7 DEF Files

LEMMA NextFacts ==
  ASSUME FileInv', up' # "down"
  PROVE  /\ mem' \in Nat /\ mem' # None /\ mem' \in DOMAIN mems' /\ mem' \in DOMAIN logs'
         /\ imm' # None => imm' \in DOMAIN mems' /\ imm' \in DOMAIN logs' /\ imm' # mem'
         /\ Files(version') \subseteq DOMAIN tables'
         /\ \A m \in Candidates' : Files(m) \subseteq DOMAIN tables'
<1>1. mem' \in Nat /\ mem' # None
  BY NoneAssumption DEF FileInv, NumbersOK
<1>2. /\ mem' \in DOMAIN logs' /\ (imm' # None => imm' \in DOMAIN logs') /\ DOMAIN mems' = HeldMems'
      /\ (imm' # None => imm' < mem') /\ Files(version') \subseteq DOMAIN tables'
  BY DEF FileInv, FilesOK, MemoryOK
<1>3. mem' \in HeldMems' /\ (imm' # None => imm' \in HeldMems')
  BY <1>1 DEF HeldMems
<1>4. \A m \in Candidates' : Files(m) \subseteq DOMAIN tables'
  BY DEF FileInv, FilesOK, ManifestOK
<1> QED BY <1>1, <1>2, <1>3, <1>4

(* Each part of the invariant is kept while the database is up.            *)

LEMMA WholeKept ==
  ASSUME Whole, LogsGrow
  PROVE  Whole'
<1>1. DOMAIN EmptyLog.recs = {}
  BY DEF EmptyLog
<1> QED BY <1>1 DEF Whole, LogsGrow

LEMMA FlushStep ==
  ASSUME FileInv, up # "down", up' # "down", [Next]_vars, flush' # None, flush'.installing
  PROVE  flush' = flush \/ LogFlush(0) \/ LogFlush(1)
<1> DEFINE Goal == flush' = flush \/ LogFlush(0) \/ LogFlush(1)
<1>1. CASE UNCHANGED vars
  BY <1>1 DEF vars, background
<1>2. CASE Environment
  BY <1>2 DEF Environment, Enqueue, NewIterator, CloseIterator, BeginManual, BeginClose,
     Kill, PowerCut, Stop, OpenDies, background
<1>3. CASE \E c \in Calls : CallStep(c)
  BY <1>3 DEF CallStep, Refuse, SlowDown, WaitForRoom, WriteToMem, SwitchMemTable, SwitchFails, AwaitFlush,
     background
<1>4. CASE LogGroup
  BY <1>4 DEF LogGroup, AddRecord, AddRecordFails, SyncLog, SyncFails, InsertInto, FinishWrite,
     Phase, PhaseFails, background
<1>5. CASE Open \/ EndClose \/ \E m \in Manuals : EndManual(m) \/ AwaitManual(m)
  BY <1>5 DEF Open, EndClose, Stop, EndManual, AwaitManual
<1>6. CASE BackgroundWork
  <2>1. CASE BackgroundCallIdle \/ BuildTableFails \/ FlushAborted \/ LogFlush(0) \/ LogFlush(1)
    BY <2>1 DEF BackgroundCallIdle, BuildTableFails, FlushAborted, FlushFails
  <2>2. CASE EndFlush \/ FlushEditFails \/ ManualHasNothing \/ StartFlush
    BY <2>2 DEF EndFlush, FlushEditFails, ManualHasNothing, FlushFails, StartFlush
  <2>3. CASE \/ OpenCompactionOutputFile \/ LogCompaction
             \/ \E part \in SUBSET (IF comp = None THEN {} ELSE comp.left) : FinishCompactionOutputFile(part)
    <3>1. ASSUME NEW part, FinishCompactionOutputFile(part) PROVE Goal
      BY <3>1 DEF FinishCompactionOutputFile
    <3> QED BY <2>3, <3>1 DEF OpenCompactionOutputFile, LogCompaction
  <2>4. CASE InstallCompaction \/ CompactionEditFails \/ CompactionFails
    BY <2>4 DEF InstallCompaction, CompactionEditFails, CompactionFails, EndCompaction
  <2>5. CASE \E inputs \in Inputs : StartCompaction(inputs)
    BY <2>5 DEF StartCompaction
  <2>6. CASE NullManual
    BY <2>6 DEF NullManual, Stop
  <2> QED BY <1>6, <2>1, <2>2, <2>3, <2>4, <2>5, <2>6 DEF BackgroundWork
<1> QED BY <1>1, <1>2, <1>3, <1>4, <1>5, <1>6 DEF Next, Work

\* What LogFlush writes to the table and to the manifest.
LEMMA LogFlushEffect ==
  ASSUME FileInv, NEW level \in {0, 1}, LogFlush(level)
  PROVE  /\ flush' # None /\ flush'.edit \in Edits /\ flush'.edit.del = {} /\ flush'.log = mem
         /\ mems[imm] = EntriesIn(tables', flush'.edit.l0 \cup flush'.edit.deep)
         /\ LogEdit(flush'.edit, mem) /\ nextFile' = nextFile
         /\ flush'.edit.l0 \cup flush'.edit.deep \subseteq {flush.out}
         /\ IsFiniteSet(flush'.edit.l0)
         /\ imm # None /\ UNCHANGED <<imm, mem, mems, version, logNumber>>
<1> DEFINE new == IF mems[imm] = {} THEN {} ELSE {flush.out}
           edit == [l0 |-> IF level = 0 THEN new ELSE {},
                    deep |-> IF level = 0 THEN {} ELSE new, del |-> {}]
<1>1. /\ flush # None /\ ~flush.installing /\ BuildTable /\ nextFile' = nextFile
      /\ flush' = [flush EXCEPT !.installing = TRUE, !.edit = edit, !.log = mem]
      /\ LogEdit(edit, mem) /\ UNCHANGED <<imm, mem, mems, version, logNumber>>
  BY DEF LogFlush, Building, memory
<1>2. flush \in Flushes /\ flush.out \in DOMAIN tables /\ flush.out \in Nat /\ imm # None
  BY <1>1 DEF FileInv, FilesOK, FlushOK, Flushes
<1>3. /\ edit \in Edits /\ edit.del = {} /\ edit.l0 \cup edit.deep = new /\ edit.l0 \subseteq new
  BY <1>2 DEF Edits
<1>4. mems[imm] = EntriesIn(tables', new)
  <2>1. CASE mems[imm] = {}
    BY <2>1 DEF EntriesIn
  <2>2. CASE mems[imm] # {}
    <3>1. tables' = [tables EXCEPT ![flush.out] = mems[imm]]
      BY <1>1, <2>2 DEF BuildTable
    <3>2. tables'[flush.out] = mems[imm]
      BY <1>2, <3>1
    <3> QED BY <2>2, <3>2 DEF EntriesIn
  <2> QED BY <2>1, <2>2
<1>5. IsFiniteSet({}) /\ IsFiniteSet({flush.out})
  BY FS_EmptySet, FS_Singleton
<1>6. IsFiniteSet(edit.l0) /\ new \subseteq {flush.out}
  BY <1>5
<1> HIDE DEF edit, new
<1>7. flush'.edit = edit /\ flush'.log = mem /\ flush' \in Flushes
  BY <1>1, <1>2, <1>3, MemtableFacts DEF Flushes, FileInv, NumbersOK
<1>8. flush' # None
  BY <1>7, NoneAssumption
<1> QED BY <1>1, <1>2, <1>3, <1>4, <1>6, <1>7, <1>8

LEMMA FlushKept ==
  ASSUME FileInv, FileInv', LeftOK, FlushRight, up # "down", up' # "down", [Next]_vars
  PROVE  FlushRight'
<1> SUFFICES ASSUME flush' # None, flush'.installing
             PROVE  mems'[imm'] = EntriesIn(tables', flush'.edit.l0 \cup flush'.edit.deep)
  BY DEF FlushRight, Installing
<1>1. CASE \E level \in {0, 1} : LogFlush(level)
  BY <1>1, LogFlushEffect
<1>2. CASE flush' = flush
  <2>1. Installing /\ mems[imm] = EntriesIn(tables, flush.edit.l0 \cup flush.edit.deep)
    BY <1>2 DEF FlushRight, Installing
  <2>2. imm # None /\ imm' # None
    BY <2>1, <1>2 DEF FileInv, FilesOK, FlushOK, Installing
  <2>3. UNCHANGED <<mem, imm>>
    BY <1>2, <2>1, VersionStep, SwitchEffect, EndFlushEffect, InstallEffect DEF Installing
  <2>4. mems'[imm'] = mems[imm]
    BY <2>2, <2>3, MemsKept, MemtableFacts, NextFacts
  <2>5. flush.edit.l0 \cup flush.edit.deep \subseteq DOMAIN tables'
    BY <1>2, <2>1 DEF FileInv, FilesOK, FlushOK, Installing
  <2>6. EntriesIn(tables', flush.edit.l0 \cup flush.edit.deep) = EntriesIn(tables, flush.edit.l0 \cup flush.edit.deep)
    BY <2>1, <2>5, TablesKept, KeptParts
  <2> QED BY <1>2, <2>1, <2>4, <2>6
<1> QED BY <1>1, <1>2, FlushStep

\* How a compaction goes on.
LEMMA CompactionStep ==
  ASSUME FileInv, up # "down", up' # "down", [Next]_vars, comp' # None
  PROVE  \/ comp # None /\ \A f \in {"state", "inputs", "left", "outs", "edit"} : comp'[f] = comp[f]
         \/ \E part \in SUBSET (IF comp = None THEN {} ELSE comp.left) : FinishCompactionOutputFile(part)
         \/ OpenCompactionOutputFile \/ LogCompaction
         \/ \E inputs \in Inputs : StartCompaction(inputs)
<1> DEFINE Goal == comp # None /\ \A f \in {"state", "inputs", "left", "outs", "edit"} : comp'[f] = comp[f]
<1>1. ASSUME comp' = comp PROVE Goal
  BY <1>1
<1>2. comp # None => comp \in Compactions
  BY DEF FileInv, FilesOK, CompOK
<1>3. CASE UNCHANGED vars
  BY <1>1, <1>3 DEF vars, background
<1>4. CASE Environment
  BY <1>1, <1>4 DEF Environment, Enqueue, NewIterator, CloseIterator, BeginManual, BeginClose,
     Kill, PowerCut, Stop, OpenDies, background
<1>5. CASE \E c \in Calls : CallStep(c)
  BY <1>1, <1>5 DEF CallStep, Refuse, SlowDown, WaitForRoom, WriteToMem, SwitchMemTable, SwitchFails,
     AwaitFlush, background
<1>6. CASE LogGroup
  BY <1>1, <1>6 DEF LogGroup, AddRecord, AddRecordFails, SyncLog, SyncFails, InsertInto, FinishWrite,
     Phase, PhaseFails, background
<1>7. CASE Open \/ EndClose \/ \E m \in Manuals : EndManual(m) \/ AwaitManual(m)
  BY <1>1, <1>7 DEF Open, EndClose, Stop, EndManual, AwaitManual, background
<1>8. CASE BackgroundWork
  <2>1. CASE \/ BackgroundCallIdle \/ BuildTableFails \/ FlushAborted \/ LogFlush(0) \/ LogFlush(1)
             \/ EndFlush \/ FlushEditFails \/ ManualHasNothing
    BY <1>1, <2>1 DEF BackgroundCallIdle, BuildTableFails, FlushAborted, LogFlush, EndFlush,
       FlushEditFails, ManualHasNothing
  <2>2. CASE StartFlush
    <3>1. comp # None /\ comp' = [comp EXCEPT !.tried = TRUE]
      BY <2>2 DEF StartFlush
    <3> QED BY <1>2, <3>1 DEF Compactions
  <2>3. CASE \/ OpenCompactionOutputFile \/ LogCompaction
             \/ \E part \in SUBSET (IF comp = None THEN {} ELSE comp.left) : FinishCompactionOutputFile(part)
             \/ \E inputs \in Inputs : StartCompaction(inputs)
    BY <2>3
  <2>4. CASE InstallCompaction \/ CompactionEditFails \/ CompactionFails
    BY <2>4 DEF InstallCompaction, CompactionEditFails, CompactionFails, EndCompaction
  <2>5. CASE NullManual
    BY <2>5 DEF NullManual, Stop
  <2> QED BY <1>8, <2>1, <2>2, <2>3, <2>4, <2>5 DEF BackgroundWork
<1> QED BY <1>3, <1>4, <1>5, <1>6, <1>7, <1>8 DEF Next, Work

LEMMA CompKept ==
  ASSUME FileInv, FileInv', LeftOK, CompRight, up # "down", up' # "down", [Next]_vars
  PROVE  CompRight'
<1> SUFFICES ASSUME comp' # None
             PROVE  IF comp'.state = "installing"
                    THEN EntriesIn(tables', comp'.inputs) = EntriesIn(tables', comp'.edit.deep)
                    ELSE EntriesIn(tables', comp'.inputs) = comp'.left \cup EntriesIn(tables', comp'.outs)
  BY DEF CompRight
<1>1. /\ comp'.inputs \subseteq comp'.base /\ comp'.base \cup comp'.outs \subseteq DOMAIN tables'
      /\ comp'.state = "installing" => comp'.edit.deep = IF comp'.moves THEN comp'.inputs ELSE comp'.outs
  BY DEF FileInv, FilesOK, CompOK
<1>2. comp # None =>
        /\ comp \in Compactions /\ comp.inputs \subseteq comp.base
        /\ comp.state = "installing" => comp.edit.deep = IF comp.moves THEN comp.inputs ELSE comp.outs
        /\ comp.inputs \cup comp.outs \subseteq Kept
  BY KeptParts DEF FileInv, FilesOK, CompOK
<1>3. ASSUME NEW S, S \subseteq Kept, S \subseteq DOMAIN tables'
      PROVE  EntriesIn(tables', S) = EntriesIn(tables, S)
  BY <1>3, TablesKept
<1>4. CASE comp # None /\ \A f \in {"state", "inputs", "left", "outs", "edit"} : comp'[f] = comp[f]
  <2>1. /\ comp'.state = comp.state /\ comp'.inputs = comp.inputs /\ comp'.left = comp.left
        /\ comp'.outs = comp.outs /\ comp'.edit = comp.edit
    BY <1>4
  <2>2. /\ EntriesIn(tables', comp.inputs) = EntriesIn(tables, comp.inputs)
        /\ EntriesIn(tables', comp.outs) = EntriesIn(tables, comp.outs)
    BY <1>1, <1>2, <1>3, <1>4, <2>1
  <2>3. CASE comp.state = "installing"
    <3>1. comp.edit.deep = comp.inputs \/ comp.edit.deep = comp.outs
      BY <1>2, <1>4, <2>3
    <3>2. EntriesIn(tables', comp.edit.deep) = EntriesIn(tables, comp.edit.deep)
      BY <2>2, <3>1
    <3> QED BY <1>4, <2>1, <2>2, <2>3, <3>2 DEF CompRight
  <2>4. CASE comp.state # "installing"
    BY <1>4, <2>1, <2>2, <2>4 DEF CompRight
  <2> QED BY <2>3, <2>4
<1>5. CASE OpenCompactionOutputFile
  <2>1. /\ comp # None /\ comp.state = "merging"
        /\ comp' = [comp EXCEPT !.state = "writing", !.out = nextFile, !.tried = FALSE]
    BY <1>5 DEF OpenCompactionOutputFile, Merging
  <2>2. /\ comp'.state = "writing" /\ comp'.inputs = comp.inputs /\ comp'.left = comp.left
        /\ comp'.outs = comp.outs
    BY <1>2, <2>1 DEF Compactions
  <2>3. /\ EntriesIn(tables', comp.inputs) = EntriesIn(tables, comp.inputs)
        /\ EntriesIn(tables', comp.outs) = EntriesIn(tables, comp.outs)
    BY <1>1, <1>2, <1>3, <2>1, <2>2
  <2> QED BY <2>1, <2>2, <2>3 DEF CompRight
<1>6. CASE LogCompaction
  <2> DEFINE edit == [l0 |-> {}, deep |-> comp.outs, del |-> comp.inputs]
  <2>1. /\ comp # None /\ comp.state = "merging" /\ comp.left = {} /\ tables' = tables
        /\ comp' = [comp EXCEPT !.state = "installing", !.edit = edit]
    BY <1>6 DEF LogCompaction, Merging
  <2>2. edit.deep = comp.outs
    OBVIOUS
  <2> HIDE DEF edit
  <2>3. comp'.state = "installing" /\ comp'.inputs = comp.inputs /\ comp'.edit = edit
    BY <1>2, <2>1 DEF Compactions
  <2>4. EntriesIn(tables, comp.inputs) = {} \cup EntriesIn(tables, comp.outs)
    BY <2>1 DEF CompRight
  <2> QED BY <2>1, <2>2, <2>3, <2>4
<1>7. CASE \E part \in SUBSET (IF comp = None THEN {} ELSE comp.left) : FinishCompactionOutputFile(part)
  <2>1. PICK part : FinishCompactionOutputFile(part)
    BY <1>7
  <2>2. /\ comp # None /\ comp.state = "writing" /\ part \subseteq comp.left
        /\ tables' = [n \in DOMAIN tables |-> IF n = comp.out THEN part ELSE tables[n]]
        /\ comp' = [comp EXCEPT !.state = "merging", !.left = @ \ part,
                                !.outs = @ \cup {comp.out}, !.out = None, !.tried = FALSE]
    BY <2>1 DEF FinishCompactionOutputFile, Merging
  <2>3. /\ comp'.state = "merging" /\ comp'.inputs = comp.inputs /\ comp'.left = comp.left \ part
        /\ comp'.outs = comp.outs \cup {comp.out}
    BY <1>2, <2>2 DEF Compactions
  <2>4. /\ EntriesIn(tables', comp.inputs) = EntriesIn(tables, comp.inputs)
        /\ EntriesIn(tables', comp.outs) = EntriesIn(tables, comp.outs)
    BY <1>1, <1>2, <1>3, <2>2, <2>3
  <2>5. tables'[comp.out] = part
    BY <1>1, <2>2, <2>3
  <2>6. EntriesIn(tables', comp'.outs) = EntriesIn(tables', comp.outs) \cup part
    BY <2>3, <2>5 DEF EntriesIn
  <2>7. EntriesIn(tables, comp.inputs) = comp.left \cup EntriesIn(tables, comp.outs)
    BY <2>2 DEF CompRight
  <2>8. EntriesIn(tables', comp'.inputs) = comp'.left \cup EntriesIn(tables', comp'.outs)
    BY <2>2, <2>3, <2>4, <2>6, <2>7
  <2> QED BY <2>3, <2>8
<1>8. CASE \E inputs \in Inputs : StartCompaction(inputs)
  <2>1. PICK inputs \in Inputs : StartCompaction(inputs)
    BY <1>8
  <2>0. PICK moves \in {FALSE, MayMove(inputs)} :
          LET edit == [l0 |-> {}, deep |-> inputs, del |-> inputs]
          IN comp' = [state |-> IF moves THEN "installing" ELSE "merging",
                      manual |-> manual, moves |-> moves,
                      base |-> Files(version), inputs |-> inputs,
                      left |-> UNION {tables[n] : n \in inputs},
                      out |-> None, outs |-> {}, tried |-> FALSE,
                      edit |-> IF moves THEN edit ELSE None]
    BY <2>1 DEF StartCompaction
  <2> DEFINE edit == [l0 |-> {}, deep |-> inputs, del |-> inputs]
             x == [state |-> IF moves THEN "installing" ELSE "merging",
                   manual |-> manual, moves |-> moves,
                   base |-> Files(version), inputs |-> inputs,
                   left |-> UNION {tables[n] : n \in inputs},
                   out |-> None, outs |-> {}, tried |-> FALSE,
                   edit |-> IF moves THEN edit ELSE None]
  <2>2. comp' = x /\ tables' = tables
    BY <2>1, <2>0 DEF StartCompaction
  <2>3. /\ x.state = IF moves THEN "installing" ELSE "merging"
        /\ x.inputs = inputs /\ x.left = EntriesIn(tables, inputs) /\ x.outs = {}
        /\ moves => x.edit = edit
    BY DEF EntriesIn
  <2>4. edit.deep = inputs
    OBVIOUS
  <2> HIDE DEF x, edit
  <2>5. EntriesIn(tables, {}) = {}
    BY DEF EntriesIn
  <2> QED BY <2>2, <2>3, <2>4, <2>5
<1> QED BY <1>4, <1>5, <1>6, <1>7, <1>8, CompactionStep

\* The tables of the database: a flush adds the entries of the memtable, nothing
\* else changes their union.
LEMMA VersionEntries ==
  ASSUME FileInv, FileInv', FlushRight, CompRight, up # "down", up' # "down", [Next]_vars
  PROVE  /\ EndFlush => EntriesIn(tables', Files(version'))
                          = EntriesIn(tables, Files(version)) \cup mems[imm]
         /\ ~EndFlush => EntriesIn(tables', Files(version')) = EntriesIn(tables, Files(version))
<1>1. Files(version') \subseteq DOMAIN tables' /\ Files(version) \subseteq Kept
  BY NextFacts, KeptParts
<1>2. CASE EndFlush
  <2>1. Installing /\ Files(version') = Files(version) \cup flush.edit.l0 \cup flush.edit.deep
    BY <1>2, EndFlushEffect
  <2>2. EntriesIn(tables', Files(version')) = EntriesIn(tables, Files(version'))
    BY <1>1, <2>1, TablesKept, KeptParts
  <2>3. mems[imm] = EntriesIn(tables, flush.edit.l0 \cup flush.edit.deep)
    BY <2>1 DEF FlushRight
  <2>4. EntriesIn(tables, Files(version'))
          = EntriesIn(tables, Files(version)) \cup EntriesIn(tables, flush.edit.l0 \cup flush.edit.deep)
    BY <2>1 DEF EntriesIn
  <2> QED BY <1>2, <2>2, <2>3, <2>4
<1>3. CASE ~EndFlush /\ UNCHANGED version
  BY <1>1, <1>3, TablesKept
<1>4. CASE ~EndFlush /\ InstallCompaction
  <2>1. /\ comp # None /\ comp.state = "installing" /\ comp.inputs \subseteq Files(version)
        /\ Files(version') = (Files(version) \ comp.inputs) \cup comp.edit.deep
    BY <1>4, InstallEffect
  <2>2. comp.edit.deep = comp.inputs \/ comp.edit.deep = comp.outs
    BY <2>1 DEF FileInv, FilesOK, CompOK
  <2>3. Files(version') \subseteq Kept
    BY <1>1, <2>1, <2>2, KeptParts
  <2>4. EntriesIn(tables', Files(version')) = EntriesIn(tables, Files(version'))
    BY <1>1, <2>3, TablesKept
  <2>5. EntriesIn(tables, comp.inputs) = EntriesIn(tables, comp.edit.deep)
    BY <2>1 DEF CompRight
  <2>6. EntriesIn(tables, Files(version')) = EntriesIn(tables, Files(version))
    BY <2>1, <2>5 DEF EntriesIn
  <2> QED BY <1>4, <2>4, <2>6
<1>5. CASE ~EndFlush /\ \E c \in Calls : SwitchMemTable(c)
  BY <1>3, <1>5, SwitchEffect
<1> QED BY <1>2, <1>3, <1>4, <1>5, VersionStep

\* An edit that replaces tables by others with the same entries loses nothing.
LEMMA MergeLogged ==
  ASSUME FileInv, up # "down", NEW edit \in Edits, edit.l0 = {}, edit.deep \subseteq DOMAIN tables,
         EntriesIn(tables, edit.del) = EntriesIn(tables, edit.deep),
         LogEdit(edit, logNumber), UNCHANGED <<nextFile, tables>>
  PROVE  \E x : /\ Candidates' = Candidates \cup {x} /\ x.log = logNumber
                /\ EntriesIn(tables, Files(Last(manifest))) \subseteq EntriesIn(tables, Files(x))
<1>1. NumbersOK /\ ManifestOK /\ MemoryOK
  BY DEF FileInv, FilesOK
<1>2. \A m \in Candidates : Files(m) \subseteq DOMAIN tables
  BY <1>1 DEF ManifestOK
<1>3. \A n \in DOMAIN tables : n < nextFile
  BY <1>1 DEF MemoryOK
<1>4. IsFiniteSet(edit.l0)
  BY FS_EmptySet
<1> DEFINE x == Last(manifest')
<1>5. /\ Candidates' = Candidates \cup {x} /\ x.log = logNumber
      /\ x.l0 = (Last(manifest).l0 \ edit.del) \cup edit.l0
      /\ x.deep = (Last(manifest).deep \ edit.del) \cup edit.deep
  BY <1>1, <1>2, <1>3, <1>4, EditLogged
<1>6. Files(x) = (Files(Last(manifest)) \ edit.del) \cup edit.deep
  BY <1>5 DEF Files
<1>7. EntriesIn(tables, Files(Last(manifest))) \subseteq EntriesIn(tables, Files(x))
  BY <1>6 DEF EntriesIn
<1> QED BY <1>5, <1>7

LEMMA ManifestKept ==
  ASSUME FileInv, FileInv', LeftOK, FlushRight, CompRight, ManifestRight,
         up # "down", up' # "down", [Next]_vars
  PROVE  ManifestRight'
<1> DEFINE V == EntriesIn(tables, Files(version))
           E(m) == EntriesIn(tables, Files(m))
           Right(m) == /\ V \subseteq E(m)
                       /\ m.log = logNumber \/ (imm # None /\ m.log = mem /\ mems[imm] \subseteq E(m))
           NV == EntriesIn(tables', Files(version'))
           NE(m) == EntriesIn(tables', Files(m))
           NextRight(m) == /\ NV \subseteq NE(m)
                           /\ \/ m.log = logNumber'
                              \/ imm' # None /\ m.log = mem' /\ mems'[imm'] \subseteq NE(m)
<1> SUFFICES \A m \in Candidates' : NextRight(m)
  BY DEF ManifestRight
<1>1. \A m \in Candidates : Right(m)
  BY DEF ManifestRight
<1>2. Last(manifest) \in Candidates
  BY CandidateTypes DEF FileInv, FilesOK
<1>3. /\ \A m \in Candidates : Files(m) \subseteq Kept
      /\ \A m \in Candidates' : Files(m) \subseteq DOMAIN tables'
  BY KeptParts, NextFacts
<1>4. \A m \in Candidates : m \in Candidates' => NE(m) = E(m)
  BY <1>3, TablesKept
<1>5. (EndFlush => NV = V \cup mems[imm]) /\ (~EndFlush => NV = V)
  BY VersionEntries
<1> HIDE DEF V, NV, E, NE
<1>6. ASSUME ~EndFlush, NEW m \in Candidates, m \in Candidates'
      PROVE  NextRight(m)
  <2>1. V \subseteq E(m) /\ NV = V /\ NE(m) = E(m)
    BY <1>1, <1>4, <1>5, <1>6
  <2>2. CASE UNCHANGED <<logNumber, mem, imm>>
    <3>1. imm # None => mems'[imm] = mems[imm]
      BY <2>2, MemsKept, MemtableFacts, NextFacts
    <3> QED BY <1>1, <1>6, <2>1, <2>2, <3>1
  <2>3. CASE \E c \in Calls : SwitchMemTable(c)
    BY <1>1, <1>6, <2>1, <2>3, SwitchEffect
  <2> QED BY <1>6, <2>2, <2>3, VersionStep, InstallEffect
<1>7. CASE Candidates' \subseteq Candidates
  <2>1. CASE EndFlush
    <3>1. /\ imm # None /\ Candidates' = {Last(manifest)} /\ Last(manifest).log = mem /\ logNumber' = mem
      BY <2>1, EndFlushEffect
    <3>2. logNumber # mem
      BY <3>1, MemtableFacts, EndFlushEffect
    <3>3. V \cup mems[imm] \subseteq E(Last(manifest))
      BY <1>1, <1>2, <3>1, <3>2
    <3> QED BY <1>2, <1>4, <1>5, <2>1, <3>1, <3>3
  <2>2. CASE ~EndFlush
    BY <1>6, <1>7, <2>2
  <2> QED BY <2>1, <2>2
<1>8. CASE \E level \in {0, 1} : LogFlush(level)
  <2>1. PICK level \in {0, 1} : LogFlush(level)
    BY <1>8
  <2>2. /\ flush'.edit \in Edits /\ flush'.edit.del = {}
        /\ mems[imm] = EntriesIn(tables', flush'.edit.l0 \cup flush'.edit.deep)
        /\ LogEdit(flush'.edit, mem) /\ nextFile' = nextFile /\ IsFiniteSet(flush'.edit.l0)
        /\ flush'.edit.l0 \cup flush'.edit.deep \subseteq {flush.out}
        /\ imm # None /\ UNCHANGED <<imm, mem, mems, version, logNumber>>
    BY <2>1, LogFlushEffect
  <2>3. PICK edit : edit = flush'.edit
    OBVIOUS
  <2>4. flush # None /\ ~flush.installing
    BY <2>1 DEF LogFlush, Building
  <2>5. flush.out < nextFile /\ ~EndFlush
    BY <2>4 DEF EndFlush, FileInv, FilesOK, FlushOK
  <2>6. edit.l0 \cup edit.deep \subseteq DOMAIN tables'
    <3>1. flush' # None /\ flush'.installing
      <4>1. flush \in Flushes /\ flush' = [flush EXCEPT !.installing = TRUE, !.edit = flush'.edit, !.log = flush'.log]
        <5>1. flush \in Flushes
          BY <2>4 DEF FileInv, FilesOK, FlushOK
        <5> QED BY <2>1, <5>1 DEF LogFlush, Flushes
      <4> QED BY <2>1, <4>1, LogFlushEffect DEF Flushes
    <3> QED BY <2>3, <3>1 DEF FileInv, FilesOK, FlushOK
  <2>7. \A m \in Candidates : Files(m) \subseteq DOMAIN tables'
    <3>1. Candidates \subseteq Candidates'
      <4>1. \A i \in DOMAIN manifest : i \in DOMAIN manifest' /\ manifest'[i] = manifest[i]
        BY <2>2 DEF LogEdit, FileInv, FilesOK, ManifestOK
      <4> QED BY <4>1 DEF Candidates
    <3> QED BY <1>3, <3>1
  <2>8. NumbersOK /\ ManifestOK /\ MemoryOK
    BY DEF FileInv, FilesOK
  <2> DEFINE x == Last(manifest')
  <2>9. /\ Candidates' = Candidates \cup {x} /\ x.log = mem
        /\ x.l0 = (Last(manifest).l0 \ {}) \cup edit.l0
        /\ x.deep = (Last(manifest).deep \ {}) \cup edit.deep
    BY <2>2, <2>3, <2>5, <2>6, <2>7, <2>8, EditLogged
  <2>10. Files(x) = Files(Last(manifest)) \cup (edit.l0 \cup edit.deep)
    BY <2>9 DEF Files
  <2>11. NE(x) = NE(Last(manifest)) \cup mems[imm]
    BY <2>2, <2>3, <2>10 DEF EntriesIn, NE
  <2> HIDE DEF x
  <2>12. NextRight(x)
    <3>1. NE(Last(manifest)) = E(Last(manifest)) /\ V \subseteq E(Last(manifest)) /\ NV = V
      BY <1>1, <1>2, <1>4, <1>5, <2>5, <2>9
    <3> QED BY <2>2, <2>9, <2>11, <3>1
  <2> QED BY <1>6, <2>5, <2>9, <2>12
<1>9. ASSUME NEW edit \in Edits, edit.l0 = {}, edit.deep \subseteq DOMAIN tables,
             EntriesIn(tables, edit.del) = EntriesIn(tables, edit.deep), ~EndFlush,
             LogEdit(edit, logNumber), UNCHANGED <<nextFile, tables, logNumber>>
      PROVE  \A m \in Candidates' : NextRight(m)
  <2>1. PICK x : /\ Candidates' = Candidates \cup {x} /\ x.log = logNumber
                 /\ EntriesIn(tables, Files(Last(manifest))) \subseteq EntriesIn(tables, Files(x))
    BY <1>9, MergeLogged
  <2>2. E(Last(manifest)) \subseteq NE(x)
    BY <1>9, <2>1 DEF E, NE
  <2>3. NextRight(x)
    BY <1>1, <1>2, <1>5, <1>9, <2>1, <2>2
  <2> QED BY <1>6, <1>9, <2>1, <2>3
<1>10. CASE LogCompaction
  <2> DEFINE edit == [l0 |-> {}, deep |-> comp.outs, del |-> comp.inputs]
  <2>1. /\ comp # None /\ comp.state = "merging" /\ comp.left = {} /\ flush = None
        /\ LogEdit(edit, logNumber) /\ UNCHANGED <<nextFile, tables, logNumber>>
    BY <1>10 DEF LogCompaction, Merging
  <2>2. comp \in Compactions /\ comp.outs \subseteq DOMAIN tables
    BY <2>1 DEF FileInv, FilesOK, CompOK
  <2>3. edit \in Edits /\ edit.l0 = {} /\ edit.deep = comp.outs /\ edit.del = comp.inputs
    BY <2>2 DEF Edits, Compactions
  <2>4. EntriesIn(tables, comp.inputs) = EntriesIn(tables, comp.outs)
    BY <2>1 DEF CompRight
  <2>5. ~EndFlush
    BY <2>1 DEF EndFlush
  <2> HIDE DEF edit
  <2> QED BY <1>9, <2>1, <2>2, <2>3, <2>4, <2>5
<1>11. CASE \E inputs \in Inputs : StartCompaction(inputs) /\ manifest' # manifest
  <2>1. PICK inputs \in Inputs : StartCompaction(inputs) /\ manifest' # manifest
    BY <1>11
  <2> DEFINE edit == [l0 |-> {}, deep |-> inputs, del |-> inputs]
  <2>2. flush = None /\ LogEdit(edit, logNumber) /\ UNCHANGED <<nextFile, tables, logNumber>>
    BY <2>1 DEF StartCompaction, Running
  <2>3. inputs \subseteq Files(version)
    BY DEF Inputs, Files
  <2>4. inputs \subseteq DOMAIN tables /\ DOMAIN tables \subseteq Nat
    BY <2>3 DEF FileInv, FilesOK, MemoryOK, TablesOK
  <2>5. edit \in Edits /\ edit.l0 = {} /\ edit.deep = inputs /\ edit.del = inputs
    BY <2>4 DEF Edits
  <2>6. ~EndFlush
    BY <2>2 DEF EndFlush
  <2> HIDE DEF edit
  <2> QED BY <1>9, <2>2, <2>4, <2>5, <2>6
<1> QED BY <1>7, <1>8, <1>10, <1>11, ManifestStep

(* The group in flight.                                                    *)

\* A new group: one batch of each call, and a leader that has a batch.
LEMMA GroupBuilt ==
  ASSUME FileInv, NEW c \in Calls, Leads(c), kind[c] # "flush", BuildBatchGroup, kind' = kind
  PROVE  /\ group = None /\ writers' = writers /\ GroupRight'
         /\ group'.phase = "append" /\ group'.status = "ok"
<1>1. /\ group = None /\ writers[1] = c /\ writers # <<>>
      /\ GroupSize \in 1..Len(writers) /\ \A i \in 2..GroupSize : Joins(i)
      /\ Len(writers) \in Nat
  BY LeaderAlone, GroupSizeInQueue DEF Leads, FileInv
<1>2. /\ writers' = writers
      /\ group' = [phase |-> "append", size |-> GroupSize, entries |-> Numbered(GroupSize), status |-> "ok"]
  BY DEF BuildBatchGroup
<1>3. /\ group'.phase = "append" /\ group'.status = "ok" /\ group'.size = GroupSize
      /\ group'.entries = Numbered(GroupSize)
  BY <1>2
<1>4. CallsOf(Numbered(GroupSize)) = {writers[i] : i \in {j \in 1..GroupSize : kind[writers[j]] # "flush"}}
  <2> DEFINE data == {j \in 1..GroupSize : kind[writers[j]] # "flush"}
             number(i) == lastSeq + Cardinality({j \in data : j <= i})
  <2>1. Numbered(GroupSize) = {<<writers[i], number(i)>> : i \in data}
    BY DEF Numbered
  <2> HIDE DEF number
  <2>2. \A i \in data : <<writers[i], number(i)>>[1] = writers[i]
    OBVIOUS
  <2> HIDE DEF data
  <2>3. CallsOf(Numbered(GroupSize)) = {writers[i] : i \in data}
    <3>1. \A e \in Numbered(GroupSize) : \E i \in data : e[1] = writers[i]
      BY <2>1, <2>2
    <3>2. \A i \in data : \E e \in Numbered(GroupSize) : e[1] = writers[i]
      BY <2>1, <2>2
    <3> QED BY <3>1, <3>2 DEF CallsOf
  <2> QED BY <2>3 DEF data
<1>5. \A i \in 1..GroupSize : kind[writers[i]] = "sync" => kind[writers[1]] = "sync"
  <2>1. \A i \in 1..GroupSize : i = 1 \/ i \in 2..GroupSize
    BY <1>1
  <2> QED BY <1>1, <2>1 DEF Joins
<1>6. CallsOf(group.entries)' = CallsOf(Numbered(GroupSize))
  BY <1>3 DEF CallsOf
<1> QED BY <1>1, <1>2, <1>3, <1>4, <1>5, <1>6 DEF GroupRight

\* Its leader takes it from phase to phase.
PhaseStep ==
  /\ group # None /\ group' # None
  /\ group'.size = group.size /\ group'.entries = group.entries
  /\ UNCHANGED <<kind, writers, st, lastSeq, mem, imm>>
  /\ \/ /\ AddRecord /\ group.phase = "append" /\ group'.status = group.status
        /\ group'.phase = IF kind[writers[1]] = "sync" THEN "sync" ELSE "insert"
     \/ SyncLog /\ group.phase = "sync" /\ group'.phase = "insert" /\ group'.status = group.status
     \/ SyncFails /\ group.phase = "sync" /\ group'.phase = "finish" /\ group'.status = "syncerror"
     \/ InsertInto /\ group.phase = "insert" /\ group'.phase = "finish" /\ group'.status = group.status

LEMMA LogGroupStep ==
  ASSUME FileInv, NothingTorn, LogGroup
  PROVE  FinishWrite \/ PhaseStep
<1> SUFFICES ASSUME ~FinishWrite PROVE PhaseStep
  OBVIOUS
<1>1. /\ group # None /\ UNCHANGED <<kind, writers, st, lastSeq, mem, imm>>
      /\ \/ /\ AddRecord /\ group.phase = "append"
            /\ group' = [group EXCEPT !.phase = IF kind[Leader] = "sync" THEN "sync" ELSE "insert"]
         \/ SyncLog /\ group.phase = "sync" /\ group' = [group EXCEPT !.phase = "insert"]
         \/ SyncFails /\ group.phase = "sync"
            /\ group' = [group EXCEPT !.phase = "finish", !.status = "syncerror"]
         \/ InsertInto /\ group.phase = "insert" /\ group' = [group EXCEPT !.phase = "finish"]
  <2>1. CASE AddRecord
    BY <2>1 DEF AddRecord, Phase, clients, memory, numbers
  <2>2. CASE SyncLog
    BY <2>2 DEF SyncLog, Phase, clients, memory, numbers
  <2>3. CASE SyncFails
    BY <2>3 DEF SyncFails, PhaseFails, clients, memory, numbers
  <2>4. CASE InsertInto
    BY <2>4 DEF InsertInto, Phase, clients, numbers
  <2> QED BY <2>1, <2>2, <2>3, <2>4 DEF LogGroup, AddRecordFails, NothingTorn
<1>2. group \in Groups /\ Leader = writers[1]
  BY <1>1 DEF FileInv, QueueOK, Leader
<1>3. group' \in Groups
  BY <1>1, <1>2 DEF Groups
<1>4. group' # None
  BY <1>3, NoneAssumption
<1>5. group'.size = group.size /\ group'.entries = group.entries
  BY <1>1, <1>2 DEF Groups
<1> QED BY <1>1, <1>2, <1>4, <1>5 DEF PhaseStep, Groups

\* Other steps leave it alone, and the calls that wait for it.
QuietGroup ==
  /\ group # None /\ group' = group
  /\ UNCHANGED <<lastSeq, mem, imm>> \/ (EndFlush /\ UNCHANGED <<lastSeq, mem>>)
  /\ ~LogGroup
  /\ \A i \in 1..Len(writers) : writers'[i] = writers[i] /\ kind'[writers[i]] = kind[writers[i]]

LEMMA GroupStep ==
  ASSUME FileInv, NothingTorn, up # "down", up' # "down", [Next]_vars
  PROVE  \/ group' = None /\ (group = None \/ FinishWrite)
         \/ /\ group = None /\ GroupRight' /\ group'.phase = "append" /\ group'.status = "ok"
            /\ lastSeq' = lastSeq /\ UNCHANGED tables /\ ~InsertInto
         \/ QuietGroup \/ PhaseStep
<1>1. CASE group = None /\ group' = None
  BY <1>1
<1>2. CASE group = None /\ group' # None
  <2>1. ~LogGroup
    BY <1>2 DEF LogGroup, AddRecord, AddRecordFails, SyncLog, SyncFails, InsertInto, FinishWrite, Phase, PhaseFails
  <2>2. ~ \E c \in Calls, k \in Kinds : Enqueue(c, k)
    BY <1>2 DEF Enqueue
  <2>3. PICK c \in Calls : CallStep(c)
    BY <1>2, <2>1, <2>2, OtherStep
  <2>4. WriteToMem(c) \/ SwitchMemTable(c)
    BY <1>2, <2>3 DEF CallStep, Refuse, SlowDown, WaitForRoom, SwitchFails, AwaitFlush
  <2>5. /\ Leads(c) /\ kind[c] # "flush" /\ BuildBatchGroup /\ kind' = kind
        /\ lastSeq' = lastSeq /\ UNCHANGED tables
    BY <1>2, <2>4 DEF WriteToMem, SwitchMemTable, HasRoom, numbers, disk
  <2>6. ~InsertInto
    BY <2>1 DEF LogGroup
  <2> QED BY <1>2, <2>5, <2>6, GroupBuilt
<1>3. CASE group # None
  <2>1. CASE LogGroup
    <3>1. FinishWrite => group' = None
      BY DEF FinishWrite
    <3> QED BY <2>1, <3>1, LogGroupStep
  <2>2. CASE ~LogGroup
    <3>1. ASSUME NEW c \in Calls PROVE ~Leads(c)
      BY <1>3, LeaderAlone DEF FileInv
    <3>2. UNCHANGED <<mem, imm>> \/ (EndFlush /\ UNCHANGED mem)
      <4>1. ~ \E c \in Calls : SwitchMemTable(c)
        BY <3>1 DEF SwitchMemTable
      <4> QED BY <4>1, VersionStep, EndFlushEffect, InstallEffect
    <3>3. CASE \E c \in Calls : CallStep(c)
      <4>1. PICK c \in Calls : AwaitFlush(c)
        BY <3>1, <3>3 DEF CallStep, Refuse, SlowDown, WaitForRoom, WriteToMem, SwitchMemTable, SwitchFails
      <4>2. UNCHANGED <<kind, writers, group, lastSeq>>
        BY <4>1 DEF AwaitFlush, numbers
      <4> QED BY <1>3, <2>2, <3>2, <4>2 DEF QuietGroup
    <3>4. CASE \E c \in Calls, k \in Kinds : Enqueue(c, k)
      <4>1. PICK c \in Calls, k \in Kinds : Enqueue(c, k)
        BY <3>4
      <4>2. /\ st[c] = "idle" /\ writers' = Append(writers, c) /\ kind' = [kind EXCEPT ![c] = k]
            /\ UNCHANGED <<group, lastSeq>>
        BY <4>1 DEF Enqueue, numbers
      <4>3. /\ writers \in Seq(Calls) /\ kind \in [Calls -> Kinds]
            /\ \A i \in DOMAIN writers : writers[i] # c
        BY <4>2 DEF FileInv, QueueOK, CallsOK
      <4>4. \A i \in 1..Len(writers) : writers'[i] = writers[i] /\ kind'[writers[i]] = kind[writers[i]]
        BY <4>2, <4>3
      <4> QED BY <1>3, <2>2, <3>2, <4>2, <4>4 DEF QuietGroup
    <3>5. CASE ~(\E c \in Calls : CallStep(c)) /\ ~ \E c \in Calls, k \in Kinds : Enqueue(c, k)
      BY <1>3, <2>2, <3>2, <3>5, OtherStep DEF QuietGroup
    <3> QED BY <3>3, <3>4, <3>5
  <2> QED BY <2>1, <2>2
<1> QED BY <1>1, <1>2, <1>3

LEMMA GroupKeptRight ==
  ASSUME FileInv, NothingTorn, GroupRight, up # "down", up' # "down", [Next]_vars
  PROVE  GroupRight'
<1>1. CASE group' = None
  BY <1>1 DEF GroupRight
<1>2. group # None => /\ group.size \in 1..Len(writers) /\ group \in Groups /\ Len(writers) \in Nat
                      /\ 1 \in 1..group.size /\ 1..group.size \subseteq 1..Len(writers)
  BY DEF FileInv, QueueOK
<1>3. CASE QuietGroup
  <2>1. /\ group # None /\ group' = group
        /\ \A i \in 1..group.size : writers'[i] = writers[i] /\ kind'[writers[i]] = kind[writers[i]]
    BY <1>2, <1>3 DEF QuietGroup
  <2>2. CallsOf(group.entries)' = CallsOf(group.entries)
    BY <2>1 DEF CallsOf
  <2>3. {writers'[i] : i \in {j \in 1..group.size : kind'[writers'[j]] # "flush"}}
          = {writers[i] : i \in {j \in 1..group.size : kind[writers[j]] # "flush"}}
    BY <2>1
  <2> QED BY <1>2, <2>1, <2>2, <2>3 DEF GroupRight
<1>4. CASE PhaseStep
  <2>1. /\ group # None /\ group'.size = group.size /\ group'.entries = group.entries
        /\ UNCHANGED <<kind, writers>>
    BY <1>4 DEF PhaseStep
  <2>2. CallsOf(group.entries)' = CallsOf(group.entries)
    BY <2>1 DEF CallsOf
  <2>3. group'.status # "ok" => group'.phase = "finish"
    BY <1>4 DEF PhaseStep, GroupRight
  <2>4. group'.phase = "sync" => kind[writers[1]] = "sync"
    BY <1>4 DEF PhaseStep
  <2> QED BY <2>1, <2>2, <2>3, <2>4 DEF GroupRight
<1> QED BY <1>1, <1>3, <1>4, GroupStep

LEMMA MemtablesLogged ==
  ASSUME FileInv, FileInv', NothingTorn, LeftOK, LogRight, up # "down", up' # "down", [Next]_vars
  PROVE  /\ mems'[mem'] \subseteq RecsIn(logs'[mem'])
         /\ imm' # None => mems'[imm'] \subseteq RecsIn(logs'[imm'])
<1>1. LogsGrow
  BY LogStep
<1>2. /\ mems[mem] \subseteq RecsIn(logs[mem])
      /\ imm # None => mems[imm] \subseteq RecsIn(logs[imm])
  BY DEF LogRight
<1>3. CASE mem' = mem /\ imm' \in {imm, None}
  <2>1. RecsIn(logs[mem]) \subseteq RecsIn(logs'[mem])
    BY <1>1, <1>3, LogsKept, MemtableFacts, NextFacts
  <2>2. mems'[mem] \subseteq RecsIn(logs[mem])
    <3>1. CASE mems'[mem] = mems[mem]
      BY <1>2, <3>1
    <3>2. CASE InsertInto
      <4>1. group # None /\ group.phase = "insert" /\ mems' = [mems EXCEPT ![mem] = @ \cup group.entries]
        BY <3>2 DEF InsertInto, Phase
      <4>2. mems'[mem] = mems[mem] \cup group.entries
        BY <4>1, MemtableFacts
      <4> QED BY <1>2, <4>1, <4>2 DEF LogRight
    <3> QED BY <1>3, <3>1, <3>2, MemsKept, MemtableFacts, NextFacts
  <2>3. imm' # None => mems'[imm] = mems[imm] /\ RecsIn(logs[imm]) \subseteq RecsIn(logs'[imm])
    BY <1>1, <1>3, MemsKept, LogsKept, MemtableFacts, NextFacts
  <2> QED BY <1>2, <1>3, <2>1, <2>2, <2>3
<1>4. CASE \E c \in Calls : SwitchMemTable(c)
  BY <1>2, <1>4, SwitchEffect
<1> QED BY <1>3, <1>4, VersionStep, EndFlushEffect, InstallEffect

\* The record is added, and then on the disk.
LEMMA RecordLogged ==
  ASSUME FileInv, up # "down", group # None,
         \/ AddRecord
         \/ SyncLog /\ group.entries \subseteq RecsIn(logs[mem])
  PROVE  /\ AddRecord => group.entries \subseteq RecsIn(logs'[mem])
         /\ SyncLog => group.entries \subseteq SyncedIn(logs'[mem])
<1>1. mem \in DOMAIN logs /\ logs[mem] \in [recs: Seq(Records), synced: Nat]
  BY MemtableFacts DEF FileInv, FilesOK, LogsOK
<1>2. ASSUME AddRecord PROVE group.entries \subseteq RecsIn(logs'[mem])
  <2> DEFINE r == [entries |-> group.entries, whole |-> TRUE]
  <2>1. logs' = [logs EXCEPT ![mem].recs = Append(@, r)] /\ r.entries = group.entries
    BY <1>2 DEF AddRecord
  <2> HIDE DEF r
  <2>2. logs'[mem].recs = Append(logs[mem].recs, r)
    BY <1>1, <2>1
  <2>3. /\ Len(logs[mem].recs) + 1 \in DOMAIN logs'[mem].recs
        /\ logs'[mem].recs[Len(logs[mem].recs) + 1] = r
    BY <1>1, <2>2
  <2> QED BY <2>1, <2>3 DEF RecsIn
<1>3. ASSUME SyncLog, group.entries \subseteq RecsIn(logs[mem])
      PROVE  group.entries \subseteq SyncedIn(logs'[mem])
  <2>1. logs' = [logs EXCEPT ![mem].synced = Len(logs[mem].recs)]
    BY <1>3 DEF SyncLog
  <2>2. logs'[mem].recs = logs[mem].recs /\ logs'[mem].synced = Len(logs[mem].recs)
    BY <1>1, <2>1
  <2>3. DOMAIN logs[mem].recs = 1..Len(logs[mem].recs)
    BY <1>1
  <2> QED BY <1>3, <2>2, <2>3 DEF RecsIn, SyncedIn
<1>4. ~(AddRecord /\ SyncLog)
  BY DEF AddRecord, SyncLog, Phase
<1> QED BY <1>2, <1>3, <1>4

LEMMA LogKept ==
  ASSUME FileInv, FileInv', NothingTorn, Sequences, GroupRight, LogRight,
         up # "down", up' # "down", [Next]_vars
  PROVE  LogRight'
<1> DEFINE Goal == group' # None =>
      /\ group'.phase # "append" => group'.entries \subseteq RecsIn(logs'[mem'])
      /\ IF group'.phase = "finish" /\ group'.status = "ok"
         THEN group'.entries \subseteq mems'[mem']
         ELSE \A e \in mems'[mem'] : e[2] <= lastSeq'
      /\ group'.phase \in {"insert", "finish"} /\ group'.status = "ok" /\ kind'[writers'[1]] = "sync"
           => group'.entries \subseteq SyncedIn(logs'[mem'])
<1>1. LogsGrow /\ LeftOK /\ EntriesOK
  BY LogStep DEF Sequences
<1>2. group # None =>
      /\ group.phase # "append" => group.entries \subseteq RecsIn(logs[mem])
      /\ IF group.phase = "finish" /\ group.status = "ok"
         THEN group.entries \subseteq mems[mem]
         ELSE \A e \in mems[mem] : e[2] <= lastSeq
      /\ group.phase \in {"insert", "finish"} /\ group.status = "ok" /\ kind[writers[1]] = "sync"
           => group.entries \subseteq SyncedIn(logs[mem])
  BY DEF LogRight
<1>3. mem' = mem => /\ RecsIn(logs[mem]) \subseteq RecsIn(logs'[mem])
                    /\ SyncedIn(logs[mem]) \subseteq SyncedIn(logs'[mem])
                    /\ mems'[mem] = mems[mem] \/ InsertInto
  BY <1>1, LogsKept, MemsKept, MemtableFacts, NextFacts
<1>4. ASSUME group = None, group'.phase = "append", lastSeq' = lastSeq, ~InsertInto PROVE Goal
  <2>1. \A e \in mems[mem] : e[2] <= lastSeq
    BY <1>1, <1>4 DEF EntriesOK, Stored, InFlight
  <2>2. mem' = mem \/ mems'[mem'] = {}
    BY VersionStep, SwitchEffect, EndFlushEffect, InstallEffect
  <2>3. \A e \in mems'[mem'] : e[2] <= lastSeq'
    BY <1>3, <1>4, <2>1, <2>2
  <2> QED BY <1>4, <2>3
<1>5. ASSUME QuietGroup PROVE Goal
  <2>1. /\ group # None /\ group' = group /\ lastSeq' = lastSeq /\ mem' = mem /\ ~InsertInto
        /\ 1 \in 1..Len(writers)
    BY <1>5 DEF QuietGroup, LogGroup, FileInv, QueueOK
  <2>2. kind'[writers'[1]] = kind[writers[1]]
    BY <1>5, <2>1 DEF QuietGroup
  <2> QED BY <1>2, <1>3, <2>1, <2>2
<1>6. ASSUME PhaseStep PROVE Goal
  <2>1. /\ group # None /\ group'.entries = group.entries /\ lastSeq' = lastSeq /\ mem' = mem
        /\ kind'[writers'[1]] = kind[writers[1]]
    BY <1>6 DEF PhaseStep
  <2>2. CASE AddRecord /\ group.phase = "append" /\ group'.status = group.status
             /\ group'.phase = IF kind[writers[1]] = "sync" THEN "sync" ELSE "insert"
    <3>1. group.entries \subseteq RecsIn(logs'[mem]) /\ ~InsertInto
      BY <2>1, <2>2, RecordLogged DEF InsertInto, Phase
    <3> QED BY <1>2, <1>3, <2>1, <2>2, <3>1
  <2>3. CASE SyncLog /\ group.phase = "sync" /\ group'.phase = "insert" /\ group'.status = group.status
    <3>1. group.entries \subseteq SyncedIn(logs'[mem]) /\ ~InsertInto
      BY <1>2, <2>1, <2>3, RecordLogged DEF InsertInto, Phase
    <3> QED BY <1>2, <1>3, <2>1, <2>3, <3>1
  <2>4. CASE SyncFails /\ group.phase = "sync" /\ group'.phase = "finish" /\ group'.status = "syncerror"
    <3>1. ~InsertInto
      BY <2>4 DEF InsertInto, Phase
    <3> QED BY <1>2, <1>3, <2>1, <2>4, <3>1
  <2>5. CASE InsertInto /\ group.phase = "insert" /\ group'.phase = "finish" /\ group'.status = group.status
    <3>1. group.status = "ok"
      BY <2>1, <2>5 DEF GroupRight
    <3>2. mems' = [mems EXCEPT ![mem] = @ \cup group.entries]
      BY <2>5 DEF InsertInto
    <3>3. group.entries \subseteq mems'[mem]
      BY <3>2, MemtableFacts
    <3> QED BY <1>2, <1>3, <2>1, <2>5, <3>1, <3>3
  <2> QED BY <1>6, <2>2, <2>3, <2>4, <2>5 DEF PhaseStep
<1>7. Goal
  BY <1>4, <1>5, <1>6, GroupStep
<1> QED BY <1>1, <1>7, MemtablesLogged DEF LogRight

(* The calls.                                                              *)

\* A call that returned stays as it is; it returns without an error from its
\* group, if it is not a flush.
Moves(c) ==
  /\ st'[c] = "idle" => st[c] = "idle"
  /\ st[c] = "idle" => st'[c] = "idle" \/ \E k \in Kinds : Enqueue(c, k)
  /\ st'[c] \in Waiting => st[c] \in Waiting \cup {"idle"}
  /\ st[c] = "ok" => st'[c] = "ok"
  /\ st'[c] = "ok" => \/ st[c] = "ok" \/ kind[c] = "flush"
                      \/ FinishWrite /\ group.status = "ok" /\ \E i \in 1..group.size : writers[i] = c
  /\ st[c] # "idle" => kind'[c] = kind[c]

\* The calls that return from the queue, and only they, leave it.
LEMMA ReturnStep ==
  ASSUME FileInv, NEW n \in 1..Len(writers), NEW ok \in BOOLEAN, NEW s, s = st \/ s = WokenCalls(st),
         Return(n, ok, s), NEW c \in Calls
  PROVE  /\ (\E i \in 1..n : writers[i] = c) =>
              /\ st[c] \in Waiting /\ st'[c] \in {"error", "flushcheck", "ok"}
              /\ st'[c] = "ok" => ok /\ kind[c] # "flush"
              /\ ok /\ kind[c] # "flush" => st'[c] = "ok"
         /\ (\A i \in 1..n : writers[i] # c) => st'[c] = s[c]
<1>1. st'[c] = IF \A i \in 1..n : writers[i] # c THEN s[c]
               ELSE IF ~ok THEN "error"
               ELSE IF kind[c] = "flush" THEN "flushcheck" ELSE "ok"
  BY DEF Return
<1>2. \A i \in 1..n : i \in DOMAIN writers
  BY DEF FileInv, QueueOK
<1>3. (\E i \in 1..n : writers[i] = c) => st[c] \in Waiting
  BY <1>2 DEF FileInv, QueueOK, Waiting
<1> QED BY <1>1, <1>3

LEMMA WokenStep ==
  ASSUME CallsOK, NEW c \in Calls
  PROVE  /\ WokenCalls(st)[c] \in Waiting <=> st[c] \in Waiting
         /\ WokenCalls(st)[c] = "idle" <=> st[c] = "idle"
         /\ WokenCalls(st)[c] = "ok" <=> st[c] = "ok"
  BY DEF WokenCalls, Waiting

LEMMA StatusStep ==
  ASSUME FileInv, up # "down", up' # "down", [Next]_vars, NEW c \in Calls
  PROVE  Moves(c)
<1> USE DEF Moves
<1>1. CallsOK /\ QueueOK
  BY DEF FileInv
<1>2. ASSUME kind' = kind, st' = st \/ st' = WokenCalls(st) PROVE Moves(c)
  BY <1>1, <1>2, WokenStep
<1>3. ASSUME NEW n \in 1..Len(writers), NEW ok \in BOOLEAN, NEW s, s = st \/ s = WokenCalls(st),
             Return(n, ok, s), kind' = kind,
             ok => (n = 1 /\ kind[writers[1]] = "flush") \/ (FinishWrite /\ group.status = "ok" /\ n = group.size)
      PROVE  Moves(c)
  <2>1. CASE \A i \in 1..n : writers[i] # c
    <3>1. st'[c] = s[c]
      BY <1>3, <2>1, ReturnStep
    <3> QED BY <1>1, <1>3, <3>1, WokenStep
  <2>2. CASE \E i \in 1..n : writers[i] = c
    <3>1. /\ st[c] \in Waiting /\ st'[c] \in {"error", "flushcheck", "ok"}
          /\ st'[c] = "ok" => ok /\ kind[c] # "flush"
      BY <1>3, <2>2, ReturnStep
    <3>2. st'[c] = "ok" => FinishWrite /\ group.status = "ok" /\ \E i \in 1..group.size : writers[i] = c
      BY <1>3, <2>2, <3>1
    <3> QED BY <1>3, <3>1, <3>2 DEF Waiting
  <2> QED BY <2>1, <2>2
<1>4. ASSUME NEW d \in Calls, NEW x \in {"writing", "waiting"}, st[d] = "queued",
             st' = [st EXCEPT ![d] = x], kind' = kind
      PROVE  Moves(c)
  BY <1>1, <1>4 DEF CallsOK, Waiting
<1>5. CASE \E d \in Calls, k \in Kinds : Enqueue(d, k)
  <2>1. PICK d \in Calls, k \in Kinds : Enqueue(d, k)
    BY <1>5
  <2>2. /\ st[d] = "idle" /\ st' = [st EXCEPT ![d] = "queued"] /\ kind' = [kind EXCEPT ![d] = k]
    BY <2>1 DEF Enqueue
  <2>3. st \in [Calls -> CallStates] /\ kind \in [Calls -> Kinds]
    BY <1>1 DEF CallsOK
  <2>4. CASE c = d
    BY <2>1, <2>2, <2>3, <2>4
  <2>5. CASE c # d
    <3>1. st'[c] = st[c] /\ kind'[c] = kind[c]
      BY <2>2, <2>3, <2>5
    <3> QED BY <3>1
  <2> QED BY <2>4, <2>5
<1>6. CASE \E d \in Calls : CallStep(d)
  <2>1. PICK d \in Calls : CallStep(d)
    BY <1>6
  <2>2. kind' = kind
    BY <2>1 DEF CallStep, Refuse, SlowDown, WaitForRoom, WriteToMem, SwitchMemTable, SwitchFails, AwaitFlush
  <2>3. Leads(d) => d = Head(writers) /\ d = writers[1] /\ 1 \in 1..Len(writers) /\ st[d] = "queued"
    BY <1>1, LeaderAlone DEF Leads
  <2>4. CASE Refuse(d) \/ SwitchFails(d)
    <3>1. Leads(d) /\ Return(1, FALSE, st)
      BY <2>4 DEF Refuse, SwitchFails
    <3> QED BY <1>3, <2>2, <2>3, <3>1
  <2>5. CASE SlowDown(d)
    BY <1>2, <2>2, <2>5 DEF SlowDown
  <2>6. CASE WaitForRoom(d)
    BY <1>4, <2>2, <2>3, <2>6 DEF WaitForRoom
  <2>7. CASE WriteToMem(d) \/ (SwitchMemTable(d) /\ BuildBatchGroup)
    <3>1. Leads(d) /\ st' = [st EXCEPT ![d] = "writing"]
      BY <2>3, <2>7 DEF WriteToMem, SwitchMemTable, BuildBatchGroup
    <3> QED BY <1>4, <2>2, <2>3, <3>1
  <2>8. CASE SwitchMemTable(d) /\ ~BuildBatchGroup
    <3>1. Leads(d) /\ Return(1, TRUE, st) /\ kind[d] = "flush"
      BY <2>8 DEF SwitchMemTable
    <3> QED BY <1>3, <2>2, <2>3, <3>1
  <2>9. CASE AwaitFlush(d)
    <3>1. st[d] = "flushcheck" /\ \E x \in {"ok", "error", "flushwait"} : st' = [st EXCEPT ![d] = x]
      BY <2>9 DEF AwaitFlush
    <3>2. kind[d] = "flush" /\ st \in [Calls -> CallStates]
      BY <1>1, <3>1 DEF QueueOK, CallsOK
    <3> QED BY <2>2, <3>1, <3>2 DEF Waiting
  <2> QED BY <2>1, <2>4, <2>5, <2>6, <2>7, <2>8, <2>9 DEF CallStep
<1>7. CASE LogGroup
  <2>1. CASE FinishWrite
    <3>1. /\ group # None /\ kind' = kind /\ group.size \in 1..Len(writers)
          /\ \/ Return(group.size, FALSE, WokenCalls(st))
             \/ Return(group.size, group.status = "ok", st)
      BY <1>1, <2>1 DEF FinishWrite, QueueOK
    <3>2. CASE Return(group.size, FALSE, WokenCalls(st))
      BY <1>3, <3>1, <3>2
    <3>3. CASE Return(group.size, group.status = "ok", st)
      <4>1. PICK ok \in BOOLEAN : ok = (group.status = "ok")
        OBVIOUS
      <4>2. Return(group.size, ok, st)
        BY <3>3, <4>1
      <4> QED BY <1>3, <2>1, <3>1, <4>1, <4>2
    <3> QED BY <3>1, <3>2, <3>3
  <2>2. CASE ~FinishWrite
    BY <1>2, <1>7, <2>2 DEF LogGroup, AddRecord, AddRecordFails, SyncLog, SyncFails, InsertInto,
       Phase, PhaseFails, clients
  <2> QED BY <2>1, <2>2
<1> QED BY <1>2, <1>5, <1>6, <1>7, OtherStep

\* The calls of a group wait for it.
LEMMA MemberWaits ==
  ASSUME FileInv, GroupRight, NEW e \in InFlight
  PROVE  /\ group # None /\ e \in group.entries /\ e \in Entries
         /\ e[1] \in Calls /\ st[e[1]] \in Waiting
         /\ \E i \in 1..group.size : writers[i] = e[1] /\ kind[writers[i]] # "flush"
<1>1. group # None /\ e \in group.entries /\ e \in Entries
  <2>1. group # None /\ e \in group.entries
    BY DEF InFlight
  <2>2. group \in Groups
    BY <2>1 DEF FileInv, QueueOK
  <2> QED BY <2>1, <2>2 DEF Groups
<1>2. e[1] \in CallsOf(group.entries)
  BY <1>1 DEF CallsOf
<1>3. PICK i \in 1..group.size : writers[i] = e[1] /\ kind[writers[i]] # "flush"
  BY <1>1, <1>2 DEF GroupRight
<1>4. i \in DOMAIN writers
  BY <1>1 DEF FileInv, QueueOK
<1> QED BY <1>1, <1>3, <1>4 DEF FileInv, QueueOK, Waiting, Entries

LEMMA StoredEntries ==
  ASSUME FileInv, up # "down"
  PROVE  Stored \subseteq Entries
<1>1. \A n \in DOMAIN tables : tables[n] \subseteq Entries
  BY DEF FileInv, FilesOK, TablesOK
<1>2. \A n \in DOMAIN mems : mems[n] \subseteq Entries
  BY DEF FileInv, FilesOK, MemoryOK
<1>3. Settled \cup mems[mem] \subseteq Entries
  BY <1>1, <1>2, WritingTypes DEF Settled, Contents
<1>4. \A l \in DOMAIN logs : \A i \in DOMAIN logs[l].recs : logs[l].recs[i].entries \subseteq Entries
  <2>1. \A l \in DOMAIN logs : \A i \in DOMAIN logs[l].recs : logs[l].recs[i] \in Records
    BY WritingTypes
  <2> QED BY <2>1 DEF Records
<1>5. Logged(logNumber) \subseteq Entries
  BY <1>4 DEF Logged, LogsFrom, RecsOf
<1> QED BY <1>3, <1>5 DEF Stored

LEMMA StoredStep ==
  ASSUME FileInv, Sequences, up # "down", up' # "down", [Next]_vars
  PROVE  Stored' \subseteq Stored \cup InFlight
<1>1. CASE Frame
  BY <1>1, FrameEffect
<1>2. CASE Writing
  BY <1>2, WritingEntries
<1> QED BY <1>1, <1>2, FrameStep DEF Sequences

LEMMA CallsStay ==
  ASSUME FileInv, FileInv', Sequences, NothingTorn, GroupRight, CallsRight,
         up # "down", up' # "down", [Next]_vars
  PROVE  CallsRight'
<1> SUFFICES ASSUME NEW e \in Stored'
             PROVE  /\ st'[e[1]] # "idle"
                    /\ e \in InFlight' \/ \A i \in DOMAIN writers' : writers'[i] # e[1]
  BY DEF CallsRight
<1>1. e \in Stored \cup InFlight
  BY StoredStep
<1>2. e[1] \in Calls
  BY <1>1, StoredEntries, MemberWaits DEF Entries
<1>3. st[e[1]] # "idle"
  BY <1>1, MemberWaits DEF CallsRight, Waiting
<1>4. Moves(e[1])
  BY <1>2, StatusStep
<1>5. st'[e[1]] # "idle"
  BY <1>3, <1>4 DEF Moves
<1>6. (\E i \in DOMAIN writers' : writers'[i] = e[1]) <=> st'[e[1]] \in Waiting
  BY <1>2 DEF FileInv, QueueOK, Waiting
<1>7. ASSUME st'[e[1]] \in Waiting PROVE e \in InFlight'
  <2>1. st[e[1]] \in Waiting
    BY <1>3, <1>4, <1>7 DEF Moves
  <2>2. \E i \in DOMAIN writers : writers[i] = e[1]
    BY <1>2, <2>1 DEF FileInv, QueueOK, Waiting
  <2>3. e \in InFlight
    BY <1>1, <2>2 DEF CallsRight
  <2>4. group # None /\ \E i \in 1..group.size : writers[i] = e[1]
    BY <2>3, MemberWaits
  <2>5. ~FinishWrite
    <3> SUFFICES ASSUME FinishWrite PROVE FALSE
      OBVIOUS
    <3>1. /\ group.size \in 1..Len(writers)
          /\ Return(group.size, FALSE, WokenCalls(st)) \/ Return(group.size, group.status = "ok", st)
      BY <2>4 DEF FinishWrite, FileInv, QueueOK
    <3>2. PICK ok \in BOOLEAN : ok = (group.status = "ok")
      OBVIOUS
    <3>3. \E s : \E k \in BOOLEAN : (s = st \/ s = WokenCalls(st)) /\ Return(group.size, k, s)
      BY <3>1, <3>2
    <3>4. st'[e[1]] \in {"error", "flushcheck", "ok"}
      BY <1>2, <2>4, <3>1, <3>3, ReturnStep
    <3> QED BY <1>7, <3>4 DEF Waiting
  <2>6. InFlight' = InFlight
    BY <2>4, <2>5, GroupStep DEF InFlight, QuietGroup, PhaseStep
  <2> QED BY <2>3, <2>6
<1> QED BY <1>5, <1>6, <1>7

(* What reads find.                                                        *)

LEMMA HeldParts ==
  ASSUME FileInv, up # "down"
  PROVE  Held = mems[mem] \cup (IF imm = None THEN {} ELSE mems[imm]) \cup EntriesIn(tables, Files(version))
<1>1. Files(version) \cap DOMAIN tables = Files(version)
  BY KeptParts
<1> QED BY <1>1 DEF Held, EntriesIn

LEMMA HeldStep ==
  ASSUME FileInv, FileInv', LeftOK, FlushRight, CompRight, up # "down", up' # "down", [Next]_vars
  PROVE  Held' = Held \cup (IF InsertInto THEN group.entries ELSE {})
<1> DEFINE new == IF InsertInto THEN group.entries ELSE {}
<1>1. Held = mems[mem] \cup (IF imm = None THEN {} ELSE mems[imm]) \cup EntriesIn(tables, Files(version))
  BY HeldParts
<1>2. Held' = mems'[mem'] \cup (IF imm' = None THEN {} ELSE mems'[imm']) \cup EntriesIn(tables', Files(version'))
  <2>1. Files(version') \cap DOMAIN tables' = Files(version')
    BY NextFacts
  <2> QED BY <2>1 DEF Held, EntriesIn
<1>3. mem' = mem => mems'[mem] = mems[mem] \cup new
  <2>1. CASE InsertInto
    BY <2>1, MemtableFacts DEF InsertInto
  <2>2. CASE ~InsertInto
    BY <2>2, MemsKept, MemtableFacts, NextFacts
  <2> QED BY <2>1, <2>2
<1>4. CASE EndFlush
  <2>1. mem' = mem /\ imm # None /\ imm' = None
    BY <1>4, EndFlushEffect
  <2>2. EntriesIn(tables', Files(version')) = EntriesIn(tables, Files(version)) \cup mems[imm]
    BY <1>4, VersionEntries
  <2> HIDE DEF new
  <2> QED BY <1>1, <1>2, <1>3, <2>1, <2>2 DEF new
<1>5. CASE UNCHANGED <<mem, imm>> /\ ~EndFlush
  <2>1. imm # None => mems'[imm] = mems[imm]
    BY <1>5, MemsKept, MemtableFacts, NextFacts
  <2>2. EntriesIn(tables', Files(version')) = EntriesIn(tables, Files(version))
    BY <1>5, VersionEntries
  <2> HIDE DEF new
  <2> QED BY <1>1, <1>2, <1>3, <1>5, <2>1, <2>2 DEF new
<1>6. CASE \E c \in Calls : SwitchMemTable(c)
  <2>1. /\ imm = None /\ imm' = mem /\ mem # None /\ mems'[mem'] = {} /\ mems'[mem] = mems[mem]
        /\ flush = None /\ group = None
    BY <1>6, SwitchEffect, MemtableFacts
  <2>2. ~EndFlush /\ ~InsertInto
    BY <2>1 DEF EndFlush, InsertInto, Phase
  <2>3. EntriesIn(tables', Files(version')) = EntriesIn(tables, Files(version))
    BY <2>2, VersionEntries
  <2> QED BY <1>1, <1>2, <2>1, <2>2, <2>3
<1> QED BY <1>4, <1>5, <1>6, VersionStep, InstallEffect

\* The last sequence moves when a group is done.
LEMMA LastSeqStep ==
  ASSUME FileInv, LeftOK, up # "down", up' # "down", [Next]_vars
  PROVE  /\ ~FinishWrite => lastSeq' = lastSeq
         /\ FinishWrite => /\ group # None /\ group.phase = "finish" /\ group' = None
                           /\ lastSeq' = lastSeq + Cardinality(group.entries)
                           /\ UNCHANGED <<memory, tables, logs, version, manifest>>
                           /\ ~InsertInto /\ ~EndFlush
<1>1. CASE Frame
  <2>1. lastSeq' = lastSeq
    BY <1>1 DEF Frame
  <2>2. ASSUME FinishWrite PROVE FALSE
    BY <1>1, <2>2 DEF Frame, FinishWrite
  <2> QED BY <2>1, <2>2
<1>2. CASE Writing
  <2>1. ASSUME ~FinishWrite PROVE lastSeq' = lastSeq
    BY <1>2, <2>1 DEF Writing, WriteToMem, SwitchMemTable, AddRecord, AddRecordFails, InsertInto,
       SyncLog, SyncFails, Phase, PhaseFails, numbers
  <2>2. ASSUME FinishWrite
        PROVE  /\ group # None /\ group.phase = "finish" /\ group' = None
               /\ lastSeq' = lastSeq + Cardinality(group.entries)
               /\ UNCHANGED <<memory, tables, logs, version, manifest>>
               /\ ~InsertInto /\ ~EndFlush
    <3>1. /\ group # None /\ group.phase = "finish" /\ group' = None
          /\ lastSeq' = lastSeq + Cardinality(group.entries)
          /\ UNCHANGED <<memory, tables, logs, version, manifest, flush>>
      BY <2>2 DEF FinishWrite, disk
    <3>2. ~InsertInto
      BY <3>1 DEF InsertInto, Phase
    <3>3. ~EndFlush
      BY <3>1, NoneAssumption DEF EndFlush
    <3> QED BY <3>1, <3>2, <3>3
  <2> QED BY <2>1, <2>2
<1> QED BY <1>1, <1>2, FrameStep

\* What reads find changes when a group is done, by the entries of the group.
LEMMA FoundByReads ==
  ASSUME FileInv, FileInv', Sequences, LogRight, FlushRight, CompRight,
         up # "down", up' # "down", [Next]_vars
  PROVE  /\ ~FinishWrite => UpTo(Held', lastSeq') = UpTo(Held, lastSeq)
         /\ FinishWrite => UpTo(Held', lastSeq') = UpTo(Held, lastSeq)
                             \cup (IF group.status = "ok" THEN group.entries ELSE {})
<1>1. LeftOK /\ EntriesOK
  BY DEF Sequences
<1>2. Held' = Held \cup (IF InsertInto THEN group.entries ELSE {})
  BY <1>1, HeldStep
<1>3. /\ ~FinishWrite => lastSeq' = lastSeq
      /\ FinishWrite => /\ group # None /\ group.phase = "finish" /\ ~InsertInto
                        /\ lastSeq' = lastSeq + Cardinality(group.entries)
  BY <1>1, LastSeqStep
<1>4. /\ lastSeq \in Nat /\ \A e \in Stored : e \in Entries /\ e[2] \in Nat
      /\ Held \subseteq Stored
  BY StoredEntries, HeldStored, MemtableFacts DEF Entries
<1>5. CASE ~FinishWrite /\ ~InsertInto
  BY <1>2, <1>3, <1>5
<1>6. CASE ~FinishWrite /\ InsertInto
  <2>1. group # None /\ group \in Groups
    BY <1>6 DEF InsertInto, Phase, FileInv, QueueOK
  <2>2. \A e \in group.entries : lastSeq < e[2] /\ e[2] \in Nat
    <3>1. group.entries \subseteq Entries /\ InFlight = group.entries
      BY <2>1 DEF Groups, InFlight
    <3> QED BY <1>1, <3>1 DEF EntriesOK, Entries
  <2>3. \A e \in group.entries : ~(e[2] <= lastSeq)
    BY <1>4, <2>2
  <2> QED BY <1>2, <1>3, <1>6, <2>3 DEF UpTo
<1>7. CASE FinishWrite
  <2>1. /\ group # None /\ group.phase = "finish" /\ Held' = Held
        /\ lastSeq' = lastSeq + Cardinality(group.entries) /\ InFlight = group.entries
    BY <1>2, <1>3, <1>7 DEF InFlight
  <2>2. group \in Groups /\ group.entries \subseteq Entries /\ Cardinality(group.entries) \in Nat
    BY <2>1, FS_CardinalityType DEF FileInv, QueueOK, Groups
  <2>3. /\ \A e \in group.entries : e[2] \in Nat /\ e[2] <= lastSeq'
        /\ \A e \in Held : e[2] \in Nat /\ (e[2] <= lastSeq \/ e \in group.entries)
    BY <1>1, <1>4, <2>1, <2>2 DEF EntriesOK, Entries
  <2>4. lastSeq <= lastSeq' /\ lastSeq' \in Nat
    BY <1>4, <2>1, <2>2
  <2>5. CASE group.status = "ok"
    <3>1. group.entries \subseteq Held
      BY <2>1, <2>5 DEF LogRight, Held
    <3> QED
      <4>1. ASSUME NEW e \in Held
            PROVE  e[2] <= lastSeq' <=> e[2] <= lastSeq \/ e \in group.entries
        BY <1>4, <2>3, <2>4
      <4> QED BY <1>7, <2>1, <2>5, <3>1, <4>1 DEF UpTo
  <2>6. CASE group.status # "ok"
    <3>1. \A e \in mems[mem] : e[2] <= lastSeq
      BY <2>1, <2>6 DEF LogRight
    <3>2. Held \subseteq mems[mem] \cup Settled
      <4>1. EntriesIn(tables, Files(version)) \subseteq Settled
        BY TableWithin DEF EntriesIn, FileInv, FilesOK, MemoryOK
      <4>2. imm # None => mems[imm] \subseteq Settled
        BY MemtableFacts DEF Settled
      <4> QED BY <4>1, <4>2, HeldParts
    <3>3. \A e \in Held : e[2] <= lastSeq /\ e[2] <= lastSeq'
      BY <1>1, <1>4, <2>3, <2>4, <3>1, <3>2 DEF EntriesOK
    <3> QED BY <1>7, <2>1, <2>6, <3>3 DEF UpTo
  <2> QED BY <2>5, <2>6
<1> QED BY <1>5, <1>6, <1>7

\* The bounds are those of the start, and a running database has not stopped.
LEMMA LimitsStay ==
  ASSUME [Next]_vars
  PROVE  limits' = limits /\ (up # "down" /\ up' # "down" => UNCHANGED <<kills, cuts>>)
<1> DEFINE Goal == limits' = limits /\ (up # "down" /\ up' # "down" => UNCHANGED <<kills, cuts>>)
<1>1. CASE UNCHANGED vars
  BY <1>1 DEF vars, bounds
<1>2. CASE Environment
  BY <1>2 DEF Environment, Enqueue, NewIterator, CloseIterator, BeginManual, BeginClose,
     Kill, PowerCut, Stop, OpenDies, bounds
<1>3. CASE \E c \in Calls : CallStep(c)
  BY <1>3 DEF CallStep, Refuse, SlowDown, WaitForRoom, WriteToMem, SwitchMemTable, SwitchFails,
     AwaitFlush, bounds
<1>4. CASE LogGroup
  BY <1>4 DEF LogGroup, AddRecord, AddRecordFails, SyncLog, SyncFails, InsertInto, FinishWrite,
     Phase, PhaseFails, bounds
<1>5. CASE Open \/ EndClose \/ \E m \in Manuals : EndManual(m) \/ AwaitManual(m)
  BY <1>5 DEF Open, EndClose, Stop, EndManual, AwaitManual, bounds
<1>6. CASE BackgroundWork
  <2>1. CASE \/ BackgroundCallIdle \/ StartFlush \/ BuildTableFails \/ FlushAborted \/ LogFlush(0)
             \/ LogFlush(1) \/ EndFlush \/ FlushEditFails \/ ManualHasNothing
    BY <2>1 DEF BackgroundCallIdle, StartFlush, BuildTableFails, FlushAborted, LogFlush, EndFlush,
       FlushEditFails, ManualHasNothing, bounds
  <2>2. ASSUME NEW part, FinishCompactionOutputFile(part) PROVE Goal
    BY <2>2 DEF FinishCompactionOutputFile, bounds
  <2>3. ASSUME NEW inputs, StartCompaction(inputs) PROVE Goal
    BY <2>3 DEF StartCompaction, bounds
  <2>4. CASE OpenCompactionOutputFile \/ LogCompaction \/ NullManual
    BY <2>4 DEF OpenCompactionOutputFile, LogCompaction, NullManual, Stop, bounds
  <2>5. CASE InstallCompaction \/ CompactionEditFails \/ CompactionFails
    BY <2>5 DEF InstallCompaction, CompactionEditFails, CompactionFails, EndCompaction, bounds
  <2> QED BY <1>6, <2>1, <2>2, <2>3, <2>4, <2>5 DEF BackgroundWork
<1> QED BY <1>1, <1>2, <1>3, <1>4, <1>5, <1>6 DEF Next, Work

(* The promise.                                                            *)

\* What is sure to last lasts.
LEMMA LastingKept ==
  ASSUME FileInv, FileInv', NothingTorn, LeftOK, FlushRight, CompRight,
         up # "down", up' # "down", [Next]_vars
  PROVE  Lasting \subseteq Lasting'
<1>1. LogsGrow
  BY LogStep
<1> DEFINE V == EntriesIn(tables, Files(version))
           W == EntriesIn(tables', Files(version'))
           sure(l, m, g) == m[l] \cap SyncedIn(g[l])
<1>2. V \subseteq W /\ (EndFlush => W = V \cup mems[imm])
  BY VersionEntries
<1>3. Lasting = V \cup sure(mem, mems, logs) \cup (IF imm = None THEN {} ELSE sure(imm, mems, logs))
  BY MemtableFacts DEF Lasting, Sure
<1>4. Lasting' = W \cup sure(mem', mems', logs') \cup (IF imm' = None THEN {} ELSE sure(imm', mems', logs'))
  BY NextFacts DEF Lasting, Sure
<1> HIDE DEF V, W
<1>5. ASSUME NEW l \in DOMAIN mems, l \in DOMAIN logs, l \in DOMAIN mems', l \in DOMAIN logs'
      PROVE  sure(l, mems, logs) \subseteq sure(l, mems', logs')
  <2>1. SyncedIn(logs[l]) \subseteq SyncedIn(logs'[l])
    BY <1>1, <1>5, LogsKept
  <2>2. mems[l] \subseteq mems'[l]
    <3>1. CASE mems'[l] = mems[l]
      BY <3>1
    <3>2. CASE InsertInto /\ l = mem
      <4>1. mems' = [mems EXCEPT ![mem] = @ \cup group.entries]
        BY <3>2 DEF InsertInto
      <4> QED BY <3>2, <4>1, <1>5
    <3> QED BY <1>5, <3>1, <3>2, MemsKept
  <2> QED BY <2>1, <2>2
<1> HIDE DEF sure
<1>6. CASE mem' = mem /\ imm' = imm
  <2>1. sure(mem, mems, logs) \subseteq sure(mem', mems', logs')
    BY <1>5, <1>6, MemtableFacts, NextFacts
  <2>2. imm # None => sure(imm, mems, logs) \subseteq sure(imm', mems', logs')
    BY <1>5, <1>6, MemtableFacts, NextFacts
  <2> QED BY <1>2, <1>3, <1>4, <1>6, <2>1, <2>2
<1>7. CASE EndFlush
  <2>1. mem' = mem /\ imm' = None /\ imm # None
    BY <1>7, EndFlushEffect
  <2>2. sure(mem, mems, logs) \subseteq sure(mem', mems', logs')
    BY <1>5, <2>1, MemtableFacts, NextFacts
  <2>3. sure(imm, mems, logs) \subseteq W
    BY <1>2, <1>7 DEF sure
  <2> QED BY <1>2, <1>3, <1>4, <2>1, <2>2, <2>3
<1>8. CASE \E c \in Calls : SwitchMemTable(c)
  <2>1. imm = None /\ imm' = mem /\ imm' # None
    BY <1>8, SwitchEffect, MemtableFacts
  <2>2. sure(mem, mems, logs) \subseteq sure(imm', mems', logs')
    BY <1>5, <2>1, MemtableFacts, NextFacts
  <2> QED BY <1>2, <1>3, <1>4, <2>1, <2>2
<1> QED BY <1>6, <1>7, <1>8, VersionStep, InstallEffect

\* A synchronous call that returns without an error has its write on the disk.
LEMMA PromiseStays ==
  ASSUME FileInv, FileInv', NothingTorn, Sequences, GroupRight, LogRight, FlushRight, CompRight,
         PromiseKept, up # "down", up' # "down", [Next]_vars
  PROVE  PromiseKept'
<1>1. Lasting \subseteq Lasting'
  BY LastingKept DEF Sequences
<1> SUFFICES ASSUME NEW c \in Calls, st'[c] = "ok", kind'[c] = "sync"
             PROVE  \E e \in Lasting' : e[1] = c
  BY DEF PromiseKept
<1>2. Moves(c)
  BY StatusStep
<1>3. CASE st[c] = "ok"
  <2>1. kind[c] = "sync"
    BY <1>2, <1>3 DEF Moves
  <2> QED BY <1>1, <1>3, <2>1 DEF PromiseKept
<1>4. CASE st[c] # "ok"
  <2>1. kind[c] = "flush" \/ (FinishWrite /\ group.status = "ok" /\ \E i \in 1..group.size : writers[i] = c)
    BY <1>2, <1>4 DEF Moves
  <2>2. st[c] # "idle" /\ kind[c] = "sync"
    <3>1. ASSUME st[c] = "idle" PROVE FALSE
      <4>1. \E k \in Kinds : Enqueue(c, k)
        BY <1>2, <3>1 DEF Moves
      <4>2. st'[c] = "queued"
        BY <4>1 DEF Enqueue, FileInv, CallsOK
      <4> QED BY <4>2
    <3> QED BY <1>2, <3>1 DEF Moves
  <2>3. FinishWrite /\ group.status = "ok" /\ \E i \in 1..group.size : writers[i] = c
    BY <2>1, <2>2
  <2>4. /\ group # None /\ group.phase = "finish" /\ UNCHANGED <<memory, logs>>
    BY <2>3, LastSeqStep DEF Sequences
  <2>5. c \in CallsOf(group.entries) /\ kind[writers[1]] = "sync"
    BY <2>2, <2>3, <2>4 DEF GroupRight
  <2>6. group.entries \subseteq mems[mem] /\ group.entries \subseteq SyncedIn(logs[mem])
    BY <2>3, <2>4, <2>5 DEF LogRight
  <2>7. group.entries \subseteq Lasting
    BY <2>6, MemtableFacts DEF Lasting, Sure
  <2> QED BY <1>1, <2>5, <2>7 DEF CallsOf
<1> QED BY <1>3, <1>4

\* Together: a step of a running database.
LEMMA UpStore ==
  ASSUME FileInv, FileInv', Sequences, StoreInv, up # "down", up' # "down", [Next]_vars
  PROVE  StoreInv'
<1>1. NothingTorn /\ Whole /\ GroupRight /\ LogRight /\ FlushRight /\ CompRight /\ ManifestRight
        /\ PromiseKept /\ CallsRight /\ LeftOK
  BY DEF StoreInv, Sequences
<1>2. NothingTorn'
  <2>1. limits' = limits
    BY LimitsStay
  <2> QED BY <1>1, <2>1 DEF NothingTorn
<1>3. Whole'
  BY <1>1, LogStep, WholeKept
<1>4. GroupRight' /\ LogRight'
  BY <1>1, GroupKeptRight, LogKept
<1>5. FlushRight' /\ CompRight' /\ ManifestRight'
  BY <1>1, FlushKept, CompKept, ManifestKept
<1>6. PromiseKept' /\ CallsRight'
  BY <1>1, PromiseStays, CallsStay
<1> QED BY <1>2, <1>3, <1>4, <1>5, <1>6 DEF StoreInv

(* Dying and opening again.                                                *)

LEMMA FoundEntries ==
  ASSUME FileInv, NEW m \in Candidates
  PROVE  Found(m) \subseteq Entries
<1>1. Contents(Files(m)) \subseteq Entries
  BY DEF Contents, FileInv, FilesOK, TablesOK, ManifestOK
<1>2. ASSUME NEW l \in DOMAIN logs PROVE RecsOf(l) \subseteq Entries
  <2>1. logs[l].recs \in Seq(Records)
    BY DEF FileInv, FilesOK, LogsOK
  <2>2. \A i \in DOMAIN logs[l].recs : logs[l].recs[i] \in Records
    BY <2>1
  <2> QED BY <2>2 DEF RecsOf, Records
<1> QED BY <1>1, <1>2 DEF Found, Logged, LogsFrom

\* Whatever the manifest is read back as, what is sure to last can be found.
LEMMA LastingSafe ==
  ASSUME FileInv, ManifestRight, LogRight, NEW m \in Candidates
  PROVE  Lasting \subseteq Safe(m)
<1>1. CASE up = "down"
  <2>1. m = manifest[1]
    BY <1>1 DEF Candidates, FileInv, FilesOK, DownOK, ManifestOK
  <2> QED BY <1>1, <2>1 DEF Lasting
<1>2. CASE up # "down"
  <2>1. EntriesIn(tables, Files(version)) \subseteq EntriesIn(tables, Files(m))
    BY <1>2 DEF ManifestRight
  <2>2. /\ m.log = logNumber \/ (imm # None /\ m.log = mem /\ mems[imm] \subseteq EntriesIn(tables, Files(m)))
        /\ m.log \in Nat
    BY <1>2, CandidateTypes DEF ManifestRight, FileInv, FilesOK
  <2>3. Sure(mem) \subseteq Safe(m)
    <3>1. mem \in LogsFrom(m.log)
      BY <1>2, <2>2, MemtableFacts DEF LogsFrom
    <3> QED BY <3>1, MemtableFacts, <1>2 DEF Safe, Sure
  <2>4. Sure(imm) \subseteq Safe(m)
    <3>1. CASE imm = None
      BY <3>1 DEF Sure
    <3>2. CASE imm # None /\ m.log = logNumber
      <4>1. imm \in LogsFrom(m.log)
        BY <1>2, <3>2, MemtableFacts DEF LogsFrom
      <4> QED BY <3>2, <4>1 DEF Safe, Sure
    <3>3. CASE imm # None /\ mems[imm] \subseteq EntriesIn(tables, Files(m))
      BY <3>3 DEF Safe, Sure
    <3> QED BY <2>2, <3>1, <3>2, <3>3
  <2> QED BY <1>2, <2>1, <2>3, <2>4 DEF Lasting, Safe
<1> QED BY <1>1, <1>2

\* The disk keeps what is sure to last when the process or the machine dies.
LEMMA SafeStays ==
  ASSUME FileInv, NEW m, tables' = tables, DOMAIN logs' = DOMAIN logs,
         \A l \in DOMAIN logs : logs[l].synced <= logs'[l].synced,
         \A l \in DOMAIN logs : \A i \in 1..logs'[l].synced : logs'[l].recs[i] = logs[l].recs[i],
         \A l \in DOMAIN logs : logs'[l].synced \in Nat
  PROVE  Safe(m) \subseteq Safe(m)'
<1>1. ASSUME NEW l \in DOMAIN logs PROVE SyncedIn(logs[l]) \subseteq SyncedIn(logs'[l])
  <2>1. logs[l].synced \in Nat
    BY DEF FileInv, FilesOK, LogsOK
  <2>2. \A i \in 1..logs[l].synced : i \in 1..logs'[l].synced /\ logs'[l].recs[i] = logs[l].recs[i]
    BY <2>1
  <2> QED BY <2>2 DEF SyncedIn
<1>2. LogsFrom(m.log)' = LogsFrom(m.log) /\ LogsFrom(m.log) \subseteq DOMAIN logs
  BY DEF LogsFrom
<1>3. Safe(m)' = EntriesIn(tables, Files(m)) \cup UNION {SyncedIn(logs'[l]) : l \in LogsFrom(m.log)}
  BY <1>2 DEF Safe
<1> QED BY <1>1, <1>2, <1>3 DEF Safe

LEMMA StopStore ==
  ASSUME FileInv, FileInv', StoreInv, EndClose \/ Kill \/ NullManual \/ PowerCut
  PROVE  StoreInv'
<1>1. PICK m \in Candidates : manifest' = <<m>> /\ manifest'[1] = m /\ Candidates' = {m}
  BY StopEffect
<1>2. /\ up' = "down" /\ comp' = None /\ group' = None /\ tables' = tables
      /\ DOMAIN logs' = DOMAIN logs /\ kind' = kind /\ limits' = limits
      /\ st' = [c \in Calls |-> IF st[c] \in {"idle", "ok", "error"} THEN st[c] ELSE "lost"]
  BY StopEffect
<1>3. \A l \in DOMAIN logs : \A i \in DOMAIN logs'[l].recs :
            i \in DOMAIN logs[l].recs /\ logs'[l].recs[i] = logs[l].recs[i]
  BY StopEffect
<1>4. /\ \A l \in DOMAIN logs : logs[l].synced <= logs'[l].synced
      /\ \A l \in DOMAIN logs : \A i \in 1..logs'[l].synced : logs'[l].recs[i] = logs[l].recs[i]
      /\ \A l \in DOMAIN logs : logs'[l].synced \in Nat
  <2>1. ASSUME NEW l \in DOMAIN logs
        PROVE  /\ logs[l].synced <= logs'[l].synced /\ logs'[l].synced \in Nat
               /\ \A i \in 1..logs'[l].synced : i \in DOMAIN logs'[l].recs
    <3>1. logs'[l].synced \in Nat /\ Len(logs'[l].recs) \in Nat
      BY <1>2 DEF FileInv, FilesOK, LogsOK
    <3> QED BY <3>1, StopEffect
  <2> QED BY <1>3, <2>1
<1>5. NothingTorn' /\ Whole'
  BY <1>2, <1>3 DEF StoreInv, NothingTorn, Whole
<1>6. GroupRight' /\ LogRight' /\ CompRight' /\ ManifestRight'
  BY <1>2 DEF GroupRight, LogRight, CompRight, ManifestRight
<1>7. FlushRight'
  BY <1>2 DEF FlushRight, Installing, FileInv, FilesOK, DownOK, Down
<1>8. PromiseKept'
  <2>1. Lasting \subseteq Safe(m)'
    BY <1>2, <1>4, LastingSafe, SafeStays DEF StoreInv
  <2>2. Lasting' = Safe(m)'
    BY <1>1, <1>2 DEF Lasting, Safe, LogsFrom
  <2>3. ASSUME NEW c \in Calls, st'[c] = "ok", kind'[c] = "sync" PROVE \E e \in Lasting' : e[1] = c
    <3>1. st[c] = "ok" /\ kind[c] = "sync"
      BY <1>2, <2>3
    <3> QED BY <2>1, <2>2, <3>1 DEF StoreInv, PromiseKept
  <2> QED BY <2>3 DEF PromiseKept
<1>9. CallsRight'
  <2>1. Found(m)' \subseteq Found(m)
    BY <1>2, <1>3, FoundLess
  <2>2. ASSUME NEW e \in Found(m) PROVE st'[e[1]] # "idle"
    <3>1. e[1] \in Calls
      BY FoundEntries DEF Entries
    <3>2. CASE up = "down"
      <4>1. m = manifest[1]
        BY <3>2 DEF Candidates, FileInv, FilesOK, DownOK, ManifestOK
      <4> QED BY <1>2, <3>1, <3>2, <4>1 DEF StoreInv, CallsRight
    <3>3. CASE up # "down"
      BY <1>2, <3>1, <3>3, FoundStored DEF StoreInv, CallsRight
    <3> QED BY <3>2, <3>3
  <2>3. Found(manifest[1])' = Found(m)'
    BY <1>1 DEF Found, Contents, Logged, LogsFrom, RecsOf
  <2> QED BY <1>2, <2>1, <2>2, <2>3 DEF CallsRight
<1> QED BY <1>5, <1>6, <1>7, <1>8, <1>9 DEF StoreInv

LEMMA OpenDiesStore ==
  ASSUME FileInv, StoreInv, OpenDies
  PROVE  StoreInv'
<1> DEFINE m == manifest[1]
<1>1. /\ up = "down" /\ up' = "down" /\ manifest' = manifest
      /\ \A n \in Files(m) : tables'[n] = tables[n]
      /\ \A l \in DOMAIN logs : l \in DOMAIN logs' /\ logs'[l] = logs[l]
      /\ \A l \in DOMAIN logs' : l \in DOMAIN logs \/ logs'[l] = EmptyLog
  BY OpenDiesEffect
<1>2. /\ UNCHANGED <<st, kind, group, comp, flush, limits>>
      /\ group = None /\ comp = None /\ flush = None
  BY <1>1 DEF OpenDies, clients, background, FileInv, FilesOK, DownOK, Down
<1>3. Whole'
  <2>1. DOMAIN EmptyLog.recs = {}
    BY DEF EmptyLog
  <2>2. ASSUME NEW l \in DOMAIN logs', NEW i \in DOMAIN logs'[l].recs PROVE logs'[l].recs[i].whole
    <3>1. l \in DOMAIN logs /\ logs'[l] = logs[l]
      BY <1>1, <2>1
    <3> QED BY <2>2, <3>1 DEF StoreInv, Whole
  <2> QED BY <2>2 DEF Whole
<1>4. NothingTorn' /\ GroupRight' /\ LogRight' /\ FlushRight' /\ CompRight' /\ ManifestRight'
  BY <1>1, <1>2 DEF StoreInv, NothingTorn, GroupRight, LogRight, FlushRight, Installing, CompRight,
     ManifestRight
<1>5. PromiseKept'
  <2>1. EntriesIn(tables', Files(m)) = EntriesIn(tables, Files(m))
    BY <1>1 DEF EntriesIn
  <2>2. Lasting = EntriesIn(tables, Files(m)) \cup UNION {SyncedIn(logs[l]) : l \in LogsFrom(m.log)}
    BY <1>1 DEF Lasting, Safe
  <2>3. Lasting' = EntriesIn(tables', Files(m)) \cup UNION {SyncedIn(logs'[l]) : l \in LogsFrom(m.log)'}
    BY <1>1 DEF Lasting, Safe, LogsFrom
  <2>4. \A l \in LogsFrom(m.log) : l \in LogsFrom(m.log)' /\ logs'[l] = logs[l]
    BY <1>1 DEF LogsFrom
  <2>5. Lasting \subseteq Lasting'
    <3> HIDE DEF m
    <3>1. UNION {SyncedIn(logs[l]) : l \in LogsFrom(m.log)} \subseteq
            UNION {SyncedIn(logs'[l]) : l \in LogsFrom(m.log)'}
      BY <2>4
    <3> QED BY <2>1, <2>2, <2>3, <3>1
  <2> QED BY <1>2, <2>5 DEF StoreInv, PromiseKept
<1>6. CallsRight'
  BY <1>1, <1>2, OpenDiesFound DEF StoreInv, CallsRight
<1> QED BY <1>3, <1>4, <1>5, <1>6 DEF StoreInv

\* A record that is whole is read, with those before it.
LEMMA WholeRead ==
  ASSUME Whole, NEW l \in DOMAIN logs, logs[l].recs \in Seq(Records)
  PROVE  ReadLog(logs[l].recs) = RecsIn(logs[l])
<1>1. DOMAIN logs[l].recs = 1..Len(logs[l].recs) /\ Len(logs[l].recs) \in Nat
  OBVIOUS
<1>2. \A j \in DOMAIN logs[l].recs : \A k \in 1..j : logs[l].recs[k].whole
  BY <1>1 DEF Whole
<1> QED BY <1>2 DEF ReadLog, RecsIn

\* A recovery finds what the disk is sure to keep.
LEMMA SafeRecoverable ==
  ASSUME FileInv, Whole, NEW m \in Candidates
  PROVE  Safe(m) \subseteq Recoverable(m)
<1>1. EntriesIn(tables, Files(m)) \subseteq Recoverable(m)
  BY DEF EntriesIn, Recoverable, FileInv, FilesOK, ManifestOK
<1>2. ASSUME NEW l \in LogsFrom(m.log) PROVE SyncedIn(logs[l]) \subseteq Recoverable(m)
  <2>1. l \in DOMAIN logs /\ logs[l].recs \in Seq(Records)
    BY DEF LogsFrom, FileInv, FilesOK, LogsOK
  <2>2. SyncedIn(logs[l]) \subseteq ReadLog(logs[l].recs)
    BY <2>1, SyncedWithin, WholeRead
  <2> QED BY <2>2 DEF Recoverable
<1> QED BY <1>1, <1>2 DEF Safe

\* The version of a database just opened holds what its recovery read.
LEMMA OpenedVersion ==
  ASSUME FileInv, Open
  PROVE  EntriesIn(tables', Files(version')) = Recoverable(manifest[1])
<1> DEFINE old == manifest[1]
           new == DOMAIN Recovered.tables
<1>1. /\ Files(version') = Files(old) \cup new
      /\ \A n \in new : tables'[n] = Recovered.tables[n]
      /\ \A n \in Files(old) : tables'[n] = tables[n] /\ n \in DOMAIN tables
  BY OpenEffect
<1>2. /\ \A t \in new : \E l \in FullLogs : Recovered.tables[t] = ReadLog(logs[l].recs)
      /\ \A l \in FullLogs : \E t \in new : Recovered.tables[t] = ReadLog(logs[l].recs)
  BY RecoveredEffect DEF FileInv, FilesOK
<1>3. \A l \in LogsFrom(old.log) : ReadLog(logs[l].recs) = {} \/ l \in FullLogs
  BY DEF FullLogs, OpenLogs
<1>4. FullLogs \subseteq LogsFrom(old.log)
  BY DEF FullLogs, OpenLogs
<1> HIDE DEF new
<1> DEFINE A == EntriesIn(tables', Files(version'))
           B == UNION {tables[n] : n \in Files(old) \cap DOMAIN tables}
           C == UNION {ReadLog(logs[l].recs) : l \in LogsFrom(old.log)}
<1>5. Recoverable(old) = B \cup C
  BY DEF Recoverable
<1>6. A \subseteq B \cup C
  <2> SUFFICES ASSUME NEW n \in Files(old) \cup new PROVE tables'[n] \subseteq B \cup C
    BY <1>1 DEF EntriesIn
  <2>1. CASE n \in Files(old)
    BY <1>1, <2>1
  <2>2. CASE n \in new
    <3>1. PICK l \in FullLogs : Recovered.tables[n] = ReadLog(logs[l].recs)
      BY <1>2, <2>2
    <3> QED BY <1>1, <1>4, <2>2, <3>1
  <2> QED BY <2>1, <2>2
<1>7. B \subseteq A
  BY <1>1 DEF EntriesIn
<1>8. C \subseteq A
  <2> SUFFICES ASSUME NEW l \in LogsFrom(old.log), ReadLog(logs[l].recs) # {}
               PROVE  ReadLog(logs[l].recs) \subseteq A
    OBVIOUS
  <2>1. PICK t \in new : Recovered.tables[t] = ReadLog(logs[l].recs)
    BY <1>2, <1>3
  <2> QED BY <1>1, <2>1 DEF EntriesIn
<1> HIDE DEF A, B, C
<1>9. A = Recoverable(old)
  BY <1>5, <1>6, <1>7, <1>8
<1> QED BY <1>9 DEF A

LEMMA OpenLogsWhole ==
  ASSUME FileInv, Whole, Open
  PROVE  Whole'
<1>1. \E n : \A l \in DOMAIN logs' : l \in DOMAIN Put(logs, n, EmptyLog) /\ logs'[l] = Put(logs, n, EmptyLog)[l]
  <2>1. \E n : \E f : DeleteObsoleteFiles(f, Put(logs, n, EmptyLog))
    BY DEF Open
  <2>2. PICK n, f : DeleteObsoleteFiles(f, Put(logs, n, EmptyLog))
    BY <2>1
  <2> DEFINE g == Put(logs, n, EmptyLog)
  <2> HIDE DEF g
  <2>3. logs' = g \/ logs' = Restrict(g, {k \in DOMAIN g : k >= logNumber'})
    BY <2>2 DEF DeleteObsoleteFiles, g
  <2>4. \A l \in DOMAIN logs' : l \in DOMAIN g /\ logs'[l] = g[l]
    BY <2>3 DEF Restrict
  <2> QED BY <2>4 DEF g
<1>2. PICK n : \A l \in DOMAIN logs' : l \in DOMAIN Put(logs, n, EmptyLog) /\ logs'[l] = Put(logs, n, EmptyLog)[l]
  BY <1>1
<1>3. DOMAIN EmptyLog.recs = {}
  BY DEF EmptyLog
<1>4. ASSUME NEW l \in DOMAIN logs' PROVE logs'[l] = EmptyLog \/ (l \in DOMAIN logs /\ logs'[l] = logs[l])
  BY <1>2 DEF Put
<1> QED BY <1>3, <1>4 DEF Whole

LEMMA OpenStore ==
  ASSUME FileInv, Sequences, StoreInv, Open
  PROVE  StoreInv'
<1> DEFINE old == manifest[1]
<1>1. /\ up = "down" /\ up' = "open" /\ mems'[mem'] = {} /\ imm' = None
      /\ group' = None /\ comp' = None /\ flush' = None
  BY OpenEffect
<1>2. UNCHANGED <<st, kind, limits, writers>> /\ writers = <<>>
  BY <1>1 DEF Open, clients, bounds, FileInv, FilesOK, DownOK, Down
<1>3. Whole' /\ NothingTorn'
  BY <1>2, OpenLogsWhole DEF StoreInv, NothingTorn
<1>4. GroupRight' /\ LogRight' /\ CompRight' /\ FlushRight'
  BY <1>1 DEF GroupRight, LogRight, CompRight, FlushRight, Installing
<1>5. ManifestRight'
  <2>1. PICK x : Candidates' = {x} /\ Files(x) = Files(version') /\ x.log = logNumber'
    BY OpenEffect
  <2> QED BY <1>1, <2>1 DEF ManifestRight
<1>6. PromiseKept'
  <2>1. Lasting = Safe(old)
    BY <1>1 DEF Lasting
  <2>2. Safe(old) \subseteq Recoverable(old)
    BY CandidateTypes, SafeRecoverable DEF StoreInv, FileInv, FilesOK
  <2>3. Recoverable(old) \subseteq Lasting'
    BY <1>1, OpenedVersion DEF Lasting
  <2> QED BY <1>2, <2>1, <2>2, <2>3 DEF StoreInv, PromiseKept
<1>7. CallsRight'
  <2>1. Stored' \subseteq Found(old)
    BY OpenedStored
  <2>2. \A e \in Found(old) : st[e[1]] # "idle"
    BY <1>1 DEF StoreInv, CallsRight
  <2>3. DOMAIN writers' = {}
    BY <1>2
  <2> QED BY <1>1, <1>2, <2>1, <2>2, <2>3 DEF CallsRight
<1> QED BY <1>3, <1>4, <1>5, <1>6, <1>7 DEF StoreInv

LEMMA InitStore ==
  ASSUME Init, NothingTorn
  PROVE  StoreInv
<1>1. /\ up = "down" /\ logs = <<>> /\ tables = <<>> /\ group = None /\ comp = None /\ flush = None
      /\ \A c \in Calls : st[c] = "idle"
      /\ manifest[1].l0 = {} /\ manifest[1].deep = {}
  BY DEF Init, Down
<1>2. DOMAIN logs = {} /\ Files(manifest[1]) = {}
  BY <1>1 DEF Files
<1>3. Found(manifest[1]) = {}
  BY <1>2 DEF Found, Contents, Logged, LogsFrom
<1> QED BY <1>1, <1>2, <1>3 DEF StoreInv, Whole, GroupRight, LogRight, FlushRight, Installing, CompRight,
     ManifestRight, PromiseKept, CallsRight

LEMMA StepStore ==
  ASSUME FileInv, Sequences, StoreInv, [Next]_vars
  PROVE  StoreInv'
<1>1. FileInv'
  BY StepFiles
<1>2. CASE UNCHANGED vars
  BY <1>2 DEF vars, clients, memory, numbers, background, bounds, disk, StoreInv, NothingTorn, Whole,
     GroupRight, LogRight, FlushRight, Installing, CompRight, ManifestRight, PromiseKept, CallsRight,
     Candidates, Lasting, Safe, LogsFrom, Sure, Stored, Settled, Contents, Logged, RecsOf, Found, InFlight
<1>3. CASE Next
  <2>1. CASE up = "down"
    <3>1. Open \/ OpenDies \/ PowerCut
      BY <1>3, <2>1, DownSteps
    <3> QED BY <1>1, <3>1, OpenStore, OpenDiesStore, StopStore
  <2>2. CASE up # "down" /\ up' = "down"
    BY <1>1, <1>3, <2>2, StopSteps, StopStore
  <2>3. CASE up # "down" /\ up' # "down"
    BY <1>1, <2>3, UpStore
  <2> QED BY <2>1, <2>2, <2>3
<1> QED BY <1>2, <1>3

LEMMA StoreInvariant == Spec /\ NothingTorn => [](FileInv /\ Sequences /\ StoreInv)
<1>1. Init /\ NothingTorn => FileInv /\ Sequences /\ StoreInv
  BY InitFiles, InitSequences, InitStore
<1>2. FileInv /\ Sequences /\ StoreInv /\ [Next]_vars => (FileInv /\ Sequences /\ StoreInv)'
  BY StepFiles, StepSequences, StepStore
<1> QED BY <1>1, <1>2, PTL DEF Spec

(* The store that DBImpl implements.                                       *)

Issued == {c \in Calls : st[c] # "idle"}
Promised == {c \in Calls : st[c] = "ok" /\ kind[c] = "sync"}

\* What was promised is found, and what is found was asked for.
VisibleRight == Promised \subseteq Visible /\ Visible \subseteq Issued

LEMMA VisibleIsRight ==
  ASSUME FileInv, Sequences, StoreInv
  PROVE  VisibleRight
<1>1. CASE up = "down"
  <2>1. /\ manifest[1] \in Candidates /\ Visible = CallsOf(Recoverable(manifest[1]))
        /\ Lasting = Safe(manifest[1])
    BY <1>1, CandidateTypes DEF Visible, Lasting, FileInv, FilesOK
  <2>2. Lasting \subseteq Recoverable(manifest[1])
    BY <2>1, SafeRecoverable DEF StoreInv
  <2>3. Promised \subseteq Visible
    BY <2>1, <2>2 DEF StoreInv, PromiseKept, Promised, CallsOf
  <2>4. \A e \in Recoverable(manifest[1]) : st[e[1]] # "idle" /\ e[1] \in Calls
    BY <1>1, <2>1, RecoverableFound, FoundEntries DEF StoreInv, CallsRight, Entries
  <2> QED BY <2>1, <2>3, <2>4 DEF VisibleRight, Issued, CallsOf
<1>2. CASE up # "down"
  <2>1. Visible = CallsOf(UpTo(Held, lastSeq)) /\ Held \subseteq Stored /\ EntriesOK
    BY <1>2, HeldStored DEF Visible, Sequences
  <2>2. Lasting \subseteq Held
    BY <1>2, HeldParts, MemtableFacts DEF Lasting, Sure
  <2>3. ASSUME NEW c \in Promised PROVE c \in Visible
    <3>1. PICK e \in Lasting : e[1] = c
      BY DEF StoreInv, PromiseKept, Promised
    <3>2. e \notin InFlight
      BY <3>1, MemberWaits DEF StoreInv, Promised, Waiting
    <3>3. e[2] <= lastSeq
      BY <2>1, <2>2, <3>2 DEF EntriesOK
    <3> QED BY <2>1, <2>2, <3>1, <3>3 DEF UpTo, CallsOf
  <2>4. ASSUME NEW c \in Visible PROVE c \in Issued
    <3>1. PICK e \in Held : e[1] = c
      BY <2>1 DEF UpTo, CallsOf
    <3>2. e \in Stored /\ e \in Entries
      BY <1>2, <2>1, StoredEntries
    <3> QED BY <1>2, <3>1, <3>2 DEF StoreInv, CallsRight, Issued, Entries
  <2> QED BY <2>3, <2>4 DEF VisibleRight
<1> QED BY <1>1, <1>2

\* A group that is done without an error appears as a whole, and its
\* synchronous calls have their promise.
LEMMA GroupCommits ==
  ASSUME FileInv, FileInv', Sequences, StoreInv, up # "down", up' # "down", FinishWrite, [Next]_vars
  PROVE  LET G == CallsOf(group.entries)
             S == {c \in G : kind[c] = "sync"}
         IN  IF group.status = "ok"
             THEN /\ G # {} /\ G \subseteq Issued \ Visible
                  /\ Visible' = Visible \cup G /\ Promised' = Promised \cup S
             ELSE Visible' = Visible /\ Promised' = Promised
<1> DEFINE G == CallsOf(group.entries)
           S == {c \in G : kind[c] = "sync"}
<1>1. /\ group # None /\ group.phase = "finish" /\ InFlight = group.entries
      /\ group \in Groups /\ group.size \in 1..Len(writers) /\ kind' = kind
  BY LastSeqStep DEF Sequences, InFlight, FinishWrite, FileInv, QueueOK
<1>2. /\ G = {writers[i] : i \in {j \in 1..group.size : kind[writers[j]] # "flush"}}
      /\ kind[writers[1]] # "flush"
  BY <1>1 DEF StoreInv, GroupRight
<1>3. \A c \in Calls : Moves(c)
  BY StatusStep
<1>4. UpTo(Held', lastSeq') = UpTo(Held, lastSeq) \cup (IF group.status = "ok" THEN group.entries ELSE {})
  BY FoundByReads DEF StoreInv
<1>5. Visible = CallsOf(UpTo(Held, lastSeq)) /\ Visible' = CallsOf(UpTo(Held', lastSeq'))
  BY DEF Visible, UpTo
<1>6. \A c \in G : c \in Calls /\ st[c] \in Waiting
  BY <1>1, MemberWaits DEF StoreInv, CallsOf
<1>7. ASSUME NEW c \in Calls, group.status # "ok" PROVE c \in Promised' <=> c \in Promised
  <2>1. st'[c] = "ok" /\ kind[c] = "sync" => st[c] = "ok"
    BY <1>3, <1>7 DEF Moves
  <2>2. st[c] = "ok" => st'[c] = "ok"
    BY <1>3 DEF Moves
  <2> QED BY <1>1, <2>1, <2>2 DEF Promised
<1>8. CASE group.status # "ok"
  <2>1. Visible' = Visible
    BY <1>4, <1>5, <1>8
  <2>2. Promised' = Promised
    BY <1>7, <1>8 DEF Promised
  <2> QED BY <1>8, <2>1, <2>2
<1>9. CASE group.status = "ok"
  <2>1. G # {}
    <3>1. Len(writers) \in Nat
      BY DEF FileInv, QueueOK
    <3>2. 1 \in 1..group.size
      BY <1>1, <3>1
    <3>3. writers[1] \in {writers[i] : i \in {j \in 1..group.size : kind[writers[j]] # "flush"}}
      BY <1>2, <3>2
    <3> QED BY <1>2, <3>3
  <2>2. G \subseteq Issued
    BY <1>6 DEF Issued, Waiting
  <2>3. ASSUME NEW c \in G, c \in Visible PROVE FALSE
    <3>1. PICK e \in Held : e[1] = c /\ e[2] <= lastSeq
      BY <1>5, <2>3 DEF UpTo, CallsOf
    <3>2. e \in Stored /\ e \in Entries
      BY <3>1, HeldStored, StoredEntries
    <3>3. e \notin InFlight
      <4>1. ASSUME e \in InFlight PROVE lastSeq < e[2] /\ e[2] \in Nat /\ lastSeq \in Nat
        BY <3>2, <4>1, MemtableFacts DEF Sequences, EntriesOK, Entries
      <4> QED BY <3>1, <4>1
    <3>4. \E i \in DOMAIN writers : writers[i] = c
      BY <1>6 DEF FileInv, QueueOK, Waiting
    <3> QED BY <3>1, <3>2, <3>3, <3>4 DEF StoreInv, CallsRight
  <2>4. Visible' = Visible \cup G
    <3>1. \A A, B : CallsOf(A \cup B) = CallsOf(A) \cup CallsOf(B)
      BY DEF CallsOf
    <3> QED BY <1>4, <1>5, <1>9, <3>1
  <2>5. ASSUME NEW c \in G, kind[c] = "sync" PROVE st'[c] = "ok"
    <3>1. \E i \in 1..group.size : writers[i] = c
      BY <1>2
    <3>2. Return(group.size, TRUE, st)
      BY <1>9 DEF FinishWrite
    <3> QED BY <1>1, <1>6, <2>5, <3>1, <3>2, ReturnStep
  <2>6. ASSUME NEW c \in Calls PROVE c \in Promised' <=> c \in Promised \/ (c \in G /\ kind[c] = "sync")
    <3>1. st'[c] = "ok" /\ kind[c] = "sync" => st[c] = "ok" \/ c \in G
      BY <1>2, <1>3 DEF Moves
    <3>2. st[c] = "ok" => st'[c] = "ok"
      BY <1>3 DEF Moves
    <3> QED BY <1>1, <2>5, <3>1, <3>2 DEF Promised
  <2>7. Promised' = Promised \cup S
    <3>1. S \subseteq Calls /\ Promised \subseteq Calls /\ Promised' \subseteq Calls
      BY <1>6 DEF Promised
    <3> QED BY <2>6, <3>1
  <2> QED BY <1>9, <2>1, <2>2, <2>3, <2>4, <2>7
<1> QED BY <1>8, <1>9

\* A running database issues calls and commits groups; nothing else it does can
\* be seen from outside.
LEMMA UpImplements ==
  ASSUME FileInv, FileInv', Sequences, StoreInv, up # "down", up' # "down", [Next]_vars
  PROVE  [Store!Next]_(Store!store)
<1> DEFINE n == kills + cuts
<1>1. n' = n
  BY LimitsStay
<1>2. \A c \in Calls : Moves(c)
  BY StatusStep
<1>3. ASSUME ~FinishWrite PROVE Visible' = Visible
  <2>1. UpTo(Held', lastSeq') = UpTo(Held, lastSeq)
    BY <1>3, FoundByReads DEF StoreInv
  <2> QED BY <2>1 DEF Visible, UpTo
<1>4. CASE \E c \in Calls, k \in Kinds : Enqueue(c, k)
  <2>1. PICK c \in Calls, k \in Kinds : Enqueue(c, k)
    BY <1>4
  <2>2. /\ st[c] = "idle" /\ st' = [st EXCEPT ![c] = "queued"] /\ kind' = [kind EXCEPT ![c] = k]
        /\ group' = group
    BY <2>1 DEF Enqueue
  <2>3. st \in [Calls -> CallStates] /\ kind \in [Calls -> Kinds]
    BY DEF FileInv, CallsOK
  <2>4. ~FinishWrite
    BY <2>2 DEF FinishWrite
  <2>5. c \notin Issued /\ Issued' = Issued \cup {c}
    BY <2>2, <2>3 DEF Issued
  <2>6. ASSUME NEW d \in Calls PROVE d \in Promised' <=> d \in Promised
    BY <2>2, <2>3 DEF Promised
  <2>7. Promised' = Promised
    BY <2>6 DEF Promised
  <2>8. Store!Issue(c)
    BY <1>1, <1>3, <2>4, <2>5, <2>7 DEF Store!Issue, Issued, Promised
  <2> QED BY <2>8 DEF Store!Next
<1>5. CASE \A c \in Calls, k \in Kinds : ~Enqueue(c, k)
  <2>1. Issued' = Issued
    BY <1>2, <1>5 DEF Moves, Issued
  <2>2. CASE FinishWrite
    <3> DEFINE G == CallsOf(group.entries)
               S == {c \in G : kind[c] = "sync"}
    <3>1. IF group.status = "ok"
          THEN /\ G # {} /\ G \subseteq Issued \ Visible
               /\ Visible' = Visible \cup G /\ Promised' = Promised \cup S
          ELSE Visible' = Visible /\ Promised' = Promised
      BY <2>2, GroupCommits
    <3>2. CASE group.status = "ok"
      <4>1. S \subseteq G /\ G \in SUBSET Calls /\ S \in SUBSET Calls
        BY <3>1, <3>2 DEF Issued
      <4> HIDE DEF G, S
      <4>2. PICK g \in SUBSET Calls, s \in SUBSET Calls : g = G /\ s = S
        BY <4>1
      <4>3. /\ g # {} /\ g \subseteq Issued \ Visible /\ s \subseteq g
            /\ Visible' = Visible \cup g /\ Promised' = Promised \cup s
        BY <3>1, <3>2, <4>1, <4>2
      <4>4. Store!Commit(g, s)
        BY <1>1, <2>1, <4>3 DEF Store!Commit, Issued, Promised
      <4> QED BY <4>4 DEF Store!Next
    <3>3. CASE group.status # "ok"
      BY <1>1, <2>1, <3>1, <3>3 DEF Store!store, Issued, Promised
    <3> QED BY <3>2, <3>3
  <2>3. CASE ~FinishWrite
    <3>1. ASSUME NEW c \in Calls PROVE c \in Promised' <=> c \in Promised
      <4>1. st[c] # "idle" => kind'[c] = kind[c]
        BY <1>2 DEF Moves
      <4>2. st[c] = "idle" <=> st'[c] = "idle"
        BY <2>1 DEF Issued
      <4>3. st[c] = "ok" => st'[c] = "ok"
        BY <1>2 DEF Moves
      <4>4. st'[c] = "ok" => st[c] = "ok" \/ kind[c] = "flush"
        BY <1>2, <2>3 DEF Moves
      <4> QED BY <4>1, <4>2, <4>3, <4>4 DEF Promised
    <3>2. Promised' = Promised
      BY <3>1 DEF Promised
    <3> QED BY <1>1, <1>3, <2>1, <2>3, <3>2 DEF Store!store, Issued, Promised
  <2> QED BY <2>2, <2>3
<1> QED BY <1>4, <1>5

\* A process that dies takes nothing promised along.
LEMMA DeathImplements ==
  ASSUME FileInv, VisibleRight', \/ EndClose \/ Kill \/ NullManual \/ PowerCut \/ OpenDies
  PROVE  Store!Next
<1> DEFINE n == kills + cuts
<1>1. n' = n + 1 /\ Issued' = Issued /\ Promised' = Promised
  <2>1. CASE OpenDies
    <3>1. UNCHANGED <<st, kind>>
      BY <2>1 DEF OpenDies, clients
    <3>2. kills' = kills + 1 /\ cuts' = cuts /\ kills \in Nat /\ cuts \in Nat
      BY <2>1 DEF OpenDies, FileInv, NumbersOK
    <3> QED BY <3>1, <3>2 DEF Issued, Promised
  <2>2. CASE EndClose \/ Kill \/ NullManual \/ PowerCut
    <3>1. /\ kind' = kind /\ n' = n + 1
          /\ st' = [c \in Calls |-> IF st[c] \in {"idle", "ok", "error"} THEN st[c] ELSE "lost"]
      BY <2>2, StopEffect
    <3> QED BY <3>1 DEF Issued, Promised
  <2> QED BY <2>1, <2>2
<1>2. Promised' \subseteq Visible' /\ Visible' \subseteq Issued'
  BY DEF VisibleRight
<1>3. Visible' \in SUBSET Calls
  BY <1>2 DEF Issued
<1>4. Store!Crash(Visible')
  BY <1>1, <1>2 DEF Store!Crash, Issued, Promised
<1> QED BY <1>3, <1>4 DEF Store!Next

\* Recovery finds what there was to find.
LEMMA OpenUnseen ==
  ASSUME FileInv, FileInv', Sequences, Open
  PROVE  Visible' = Visible /\ UNCHANGED <<st, kind, kills, cuts>>
<1>1. /\ up = "down" /\ up' = "open" /\ mems'[mem'] = {} /\ imm' = None
      /\ \A n \in DOMAIN tables' : \A e \in tables'[n] : e[2] <= lastSeq'
  BY OpenEffect, OpenedTables
<1>2. EntriesIn(tables', Files(version')) = Recoverable(manifest[1])
  BY OpenedVersion
<1>3. Files(version') \subseteq DOMAIN tables'
  BY <1>1, NextFacts
<1>4. Held' = EntriesIn(tables', Files(version'))
  BY <1>1, <1>3 DEF Held, EntriesIn, Files
<1>5. UpTo(Held', lastSeq') = Held'
  BY <1>1, <1>3, <1>4 DEF UpTo, EntriesIn
<1>6. Visible' = CallsOf(UpTo(Held', lastSeq')) /\ Visible = CallsOf(Recoverable(manifest[1]))
  BY <1>1 DEF Visible, UpTo
<1> QED BY <1>2, <1>4, <1>5, <1>6 DEF Open, clients, bounds

LEMMA StepImplements ==
  ASSUME FileInv, Sequences, StoreInv, VisibleRight', [Next]_vars
  PROVE  [Store!Next]_(Store!store)
<1>1. FileInv'
  BY StepFiles
<1>2. CASE UNCHANGED vars
  BY <1>2 DEF vars, clients, memory, numbers, bounds, disk, Store!store, Visible, UpTo, CallsOf, Held,
     Recoverable, LogsFrom
<1>3. CASE Next
  <2>1. CASE up = "down"
    <3>1. CASE Open
      BY <1>1, <3>1, OpenUnseen DEF Store!store
    <3> QED BY <1>3, <2>1, <3>1, DownSteps, DeathImplements
  <2>2. CASE up # "down" /\ up' = "down"
    BY <1>3, <2>2, StopSteps, DeathImplements
  <2>3. CASE up # "down" /\ up' # "down"
    BY <1>1, <2>3, UpImplements
  <2> QED BY <2>1, <2>2, <2>3
<1> QED BY <1>2, <1>3

(* As long as no record is cut short, the engine is the store its          *)
(* documentation promises: flushes, compactions, deletions and recoveries  *)
(* change nothing that a read finds, a group of writes appears as a whole, *)
(* and a synchronous write that returned without an error survives every   *)
(* crash, whatever else fails.                                             *)
THEOREM StoreImplemented == Spec /\ NothingTorn => StoreSpec
<1>1. Init => Store!Init
  <2> SUFFICES ASSUME Init PROVE Store!Init
    OBVIOUS
  <2>1. /\ up = "down" /\ logs = <<>> /\ tables = <<>> /\ kills = 0 /\ cuts = 0
        /\ \A c \in Calls : st[c] = "idle"
    BY DEF Init, Down
  <2>2. Recoverable(manifest[1]) = {}
    BY <2>1 DEF Recoverable, LogsFrom
  <2>3. Visible = {}
    BY <2>1, <2>2 DEF Visible, CallsOf
  <2> QED BY <2>1, <2>3 DEF Store!Init
<1>2. FileInv /\ Sequences /\ StoreInv => VisibleRight
  BY VisibleIsRight
<1>3. FileInv /\ Sequences /\ StoreInv /\ VisibleRight' /\ [Next]_vars => [Store!Next]_(Store!store)
  BY StepImplements
<1> QED BY <1>1, <1>2, <1>3, StoreInvariant, PTL DEF Spec, StoreSpec, Store!Spec

\* Each state the manifest may be read back in leads to all that reads find.
LEMMA HeldRecoverable ==
  ASSUME FileInv, Whole, LogRight, ManifestRight, up # "down", NEW m \in Candidates
  PROVE  Held \subseteq Recoverable(m)
<1>1. EntriesIn(tables, Files(m)) \subseteq Recoverable(m)
  BY DEF EntriesIn, Recoverable, FileInv, FilesOK, ManifestOK
<1>2. EntriesIn(tables, Files(version)) \subseteq Recoverable(m)
  BY <1>1 DEF ManifestRight
<1>3. ASSUME NEW l \in LogsFrom(m.log) PROVE RecsIn(logs[l]) \subseteq Recoverable(m)
  <2>1. l \in DOMAIN logs /\ logs[l].recs \in Seq(Records)
    BY DEF LogsFrom, FileInv, FilesOK, LogsOK
  <2> QED BY <2>1, WholeRead DEF Recoverable
<1>4. /\ m.log = logNumber \/ (imm # None /\ m.log = mem /\ mems[imm] \subseteq EntriesIn(tables, Files(m)))
      /\ m.log \in Nat
  BY CandidateTypes DEF ManifestRight, FileInv, FilesOK
<1>5. mems[mem] \subseteq Recoverable(m)
  <2>1. mem \in LogsFrom(m.log)
    BY <1>4, MemtableFacts DEF LogsFrom
  <2> QED BY <1>3, <2>1 DEF LogRight
<1>6. ASSUME imm # None PROVE mems[imm] \subseteq Recoverable(m)
  <2>1. CASE m.log = logNumber
    <3>1. imm \in LogsFrom(m.log)
      BY <1>4, <1>6, <2>1, MemtableFacts DEF LogsFrom
    <3> QED BY <1>3, <1>6, <3>1 DEF LogRight
  <2>2. CASE mems[imm] \subseteq EntriesIn(tables, Files(m))
    BY <1>1, <2>2
  <2> QED BY <1>4, <2>1, <2>2
<1> QED BY <1>2, <1>5, <1>6, HeldParts

\* While the machine stays up, reads lose nothing.
LEMMA NothingLost ==
  ASSUME FileInv, Sequences, StoreInv, [Next]_vars, cuts' = cuts
  PROVE  Visible \subseteq Visible'
<1>1. FileInv'
  BY StepFiles
<1>2. CASE UNCHANGED vars
  BY <1>2 DEF vars, memory, numbers, disk, Visible, UpTo, CallsOf, Held, Recoverable, LogsFrom
<1>3. CASE EndClose \/ Kill \/ NullManual \/ PowerCut
  <2>1. PICK m \in Candidates : manifest'[1] = m
    BY <1>3, StopEffect
  <2>2. up' = "down" /\ tables' = tables /\ logs' = logs
    BY <1>3, StopEffect
  <2>3. Visible' = CallsOf(Recoverable(m))
    BY <2>1, <2>2 DEF Visible, Recoverable, LogsFrom, CallsOf
  <2>4. CASE up = "down"
    <3>1. m = manifest[1]
      BY <2>4 DEF Candidates, FileInv, FilesOK, DownOK, ManifestOK
    <3> QED BY <2>3, <2>4, <3>1 DEF Visible
  <2>5. CASE up # "down"
    BY <2>3, <2>5, HeldRecoverable DEF StoreInv, Visible, UpTo, CallsOf
  <2> QED BY <2>4, <2>5
<1>4. CASE OpenDies
  <2>1. /\ up = "down" /\ up' = "down" /\ manifest' = manifest
        /\ \A n \in Files(manifest[1]) : n \in DOMAIN tables /\ n \in DOMAIN tables' /\ tables'[n] = tables[n]
        /\ \A l \in DOMAIN logs : l \in DOMAIN logs' /\ logs'[l] = logs[l]
    BY <1>4, OpenDiesEffect
  <2> DEFINE m == manifest[1]
             T == UNION {tables[n] : n \in Files(m) \cap DOMAIN tables}
             U == UNION {tables'[n] : n \in Files(m) \cap DOMAIN tables'}
             L == UNION {ReadLog(logs[l].recs) : l \in LogsFrom(m.log)}
             K == UNION {ReadLog(logs'[l].recs) : l \in LogsFrom(m.log)'}
  <2>2. Recoverable(m) = T \cup L
    BY DEF Recoverable
  <2>3. Recoverable(manifest[1])' = U \cup K
    BY <2>1 DEF Recoverable, LogsFrom, Files
  <2>4. T \subseteq U
    BY <2>1
  <2>5. \A l \in LogsFrom(m.log) : l \in LogsFrom(m.log)' /\ logs'[l] = logs[l]
    BY <2>1 DEF LogsFrom
  <2>6. L \subseteq K
    BY <2>5
  <2> QED BY <2>1, <2>2, <2>3, <2>4, <2>6 DEF Visible, CallsOf
<1>5. CASE Open
  BY <1>1, <1>5, OpenUnseen
<1>6. CASE up # "down" /\ up' # "down"
  <2>1. UpTo(Held, lastSeq) \subseteq UpTo(Held', lastSeq')
    BY <1>1, <1>6, FoundByReads DEF StoreInv
  <2>2. Visible = CallsOf(UpTo(Held, lastSeq)) /\ Visible' = CallsOf(UpTo(Held', lastSeq'))
    BY <1>6 DEF Visible, UpTo
  <2> QED BY <2>1, <2>2 DEF CallsOf
<1> QED BY <1>2, <1>3, <1>4, <1>5, <1>6, DownSteps, StopSteps

(* If it is just the process that dies, and no record was cut short, no    *)
(* write is lost that returned without an error, a synchronous one or not: *)
(* a recovery reads the logs of all memtables, flushed or not, whatever of *)
(* an edit is in the manifest.                                             *)
THEOREM ProcessDeathLosesNothing == Spec /\ NothingTorn => KillKeepsAcknowledged
<1>1. FileInv /\ Sequences /\ StoreInv /\ [Next]_vars
        => [cuts' = cuts => {c \in Visible : st[c] = "ok"} \subseteq Visible']_vars
  BY NothingLost
<1> QED BY <1>1, StoreInvariant, PTL DEF Spec, KillKeepsAcknowledged

=============================================================================

------------------------------ MODULE CellsProofs ------------------------------
(***************************************************************************)
(* A row shows its own partner unless it was hurried, with any number of   *)
(* cells, partners, answers out of order and failed downloads.             *)
(***************************************************************************)
EXTENDS Cells, SequenceTheorems, TLAPS

-----------------------------------------------------------------------------
(* The inductive invariant.                                                *)

DownloadSet == [n: Nat, view: Cells, url: WithProfile, state: {"running", "none", "picture", "bytes"}]

Types ==
  /\ {message, name, image} \subseteq [Cells -> Partners \cup {Nobody}]
  /\ reads \in Seq([cell: Cells, of: Partners])
  /\ downloads \subseteq DownloadSet /\ dataTask \in Nat
  /\ \A d \in downloads: d.n \in 1..dataTask
  /\ cache \subseteq Pictures /\ hurried \subseteq Cells
  /\ dataTrap \in BOOLEAN /\ failures \in Nat

\* The session answers with a picture where there is one.
DataRight ==
  \A d \in downloads: /\ d.state = "picture" => d.url \in Pictures
                      /\ d.state = "bytes" => d.url \notin Pictures

\* A cell that was never given a message shows nobody and has asked nothing.
Fresh == \A c \in Cells: message[c] = Nobody => ~UnderWay(c) /\ name[c] = Nobody /\ image[c] = Nobody

\* What is under way for a cell that was not hurried is for its present message.
OwnUnderWay ==
  /\ \A i \in DOMAIN reads: reads[i].cell \notin hurried => reads[i].of = message[reads[i].cell]
  /\ \A d \in downloads: d.view \notin hurried => d.url = message[d.view]

\* Data is missing only where a download failed or was cancelled.
NoneExplained ==
  failures = 0 /\ hurried = {} => ~dataTrap /\ \A d \in downloads: d.state # "none"

\* NeverAnothers in two: the name, and what both places may show.
NameSettles ==
  \A c \in Cells \ hurried: message[c] \in WithProfile /\ ReadsOf(c) = {} => name[c] = message[c]
ShowsOwn ==
  \A c \in Cells \ hurried:
    /\ {name[c], image[c]} \subseteq {message[c], Nobody}
    /\ message[c] \in WithProfile \cap Pictures /\ ~UnderWay(c) /\ ~dataTrap
         => image[c] = message[c]

CellsInv ==
  /\ Types /\ DataRight /\ Fresh /\ OwnUnderWay /\ NoneExplained
  /\ NameSettles /\ ShowsOwn

-----------------------------------------------------------------------------
(* What is under way.                                                      *)

LEMMA UnderWayMember ==
  ASSUME NEW c
  PROVE  UnderWay(c) <=> \/ \E i \in DOMAIN reads: reads[i].cell = c
                         \/ \E d \in downloads: d.view = c
<1> QED BY DEF UnderWay, ReadsOf

LEMMA TypesOfReads ==
  ASSUME Types
  PROVE  /\ Len(reads) \in Nat /\ DOMAIN reads = 1..Len(reads)
         /\ \A i \in DOMAIN reads: reads[i].cell \in Cells /\ reads[i].of \in Partners
         /\ \A i \in DOMAIN reads: reads[i] \in [cell: Cells, of: Partners]
<1> DEFINE R == [cell: Cells, of: Partners]
<1>1. reads \in Seq(R)
  BY DEF Types
<1> HIDE DEF R
<1>2. /\ Len(reads) \in Nat /\ DOMAIN reads = 1..Len(reads)
      /\ \A i \in DOMAIN reads: reads[i] \in R
  BY <1>1
<1> QED BY <1>2 DEF R

-----------------------------------------------------------------------------
(* The session and the table.                                              *)

LEMMA RespondKeeps ==
  ASSUME CellsInv, NEW d \in downloads, NEW data \in {"none", "picture", "bytes"}, Respond(d, data)
  PROVE  CellsInv'
<1> USE DEF CellsInv
<1>1. /\ downloads' = (downloads \ {d}) \cup {[d EXCEPT !.state = data]}
      /\ data = "none" => failures' = failures + 1
      /\ data # "none" => failures' = failures /\ data = (IF d.url \in Pictures THEN "picture" ELSE "bytes")
      /\ message' = message /\ name' = name /\ image' = image /\ reads' = reads
      /\ dataTask' = dataTask /\ cache' = cache /\ dataTrap' = dataTrap
      /\ hurried' = hurried
  BY DEF Respond
<1> DEFINE e == [d EXCEPT !.state = data]
<1>2. d \in DownloadSet /\ d.n \in 1..dataTask
  BY DEF Types
<1>3. e \in DownloadSet /\ e.n = d.n /\ e.view = d.view /\ e.url = d.url /\ e.state = data
  BY <1>2 DEF DownloadSet
<1>4. downloads' = (downloads \ {d}) \cup {e}
  BY <1>1
<1> HIDE DEF e
<1>5. \A f \in downloads': f \in downloads \/ f = e
  BY <1>4
<1>6. failures' \in Nat /\ (failures' = 0 => failures = 0 /\ data # "none")
  BY <1>1 DEF Types
<1>7. Types'
  BY <1>1, <1>2, <1>3, <1>5, <1>6 DEF Types
<1>8. DataRight'
  BY <1>1, <1>3, <1>5 DEF DataRight
<1>9. \A c: (\E f \in downloads: f.view = c) <=> (\E f \in downloads': f.view = c)
  BY <1>3, <1>4
<1>10. Fresh' /\ NameSettles' /\ ShowsOwn'
  <2>1. \A c: (UnderWay(c)' <=> UnderWay(c)) /\ ReadsOf(c)' = ReadsOf(c)
    BY <1>1, <1>9 DEF UnderWay, ReadsOf
  <2>2. Fresh'
    BY <1>1, <2>1 DEF Fresh
  <2>3. NameSettles'
    BY <1>1, <2>1 DEF NameSettles
  <2>4. ShowsOwn'
    BY <1>1, <2>1 DEF ShowsOwn
  <2> QED BY <2>2, <2>3, <2>4
<1>12. OwnUnderWay'
  BY <1>1, <1>3, <1>5 DEF OwnUnderWay
<1>13. NoneExplained'
  BY <1>1, <1>3, <1>5, <1>6 DEF NoneExplained
<1> QED BY <1>7, <1>8, <1>10, <1>12, <1>13

LEMMA ShowRowKeeps ==
  ASSUME CellsInv, NEW c \in Cells, NEW p \in Partners, ShowRow(c, p)
  PROVE  CellsInv'
<1> USE DEF CellsInv
<1>1. /\ message' = [message EXCEPT ![c] = p] /\ reads' = Append(reads, [cell |-> c, of |-> p])
      /\ dataTask' = dataTask /\ cache' = cache /\ dataTrap' = dataTrap
      /\ failures' = failures
  BY DEF ShowRow
<1>2. \/ /\ message[c] = Nobody
         /\ name' = name /\ image' = image /\ downloads' = downloads /\ hurried' = hurried
      \/ /\ message[c] # Nobody
         /\ name' = [name EXCEPT ![c] = Nobody] /\ image' = [image EXCEPT ![c] = Nobody]
         /\ CancelImageRequest
         /\ hurried' = hurried \cup {d.view : d \in {x \in downloads: Cancelled(x)}}
                       \cup IF UnderWay(c) THEN {c} ELSE {}
  BY DEF ShowRow
<1>3. /\ message \in [Cells -> Partners \cup {Nobody}] /\ name \in [Cells -> Partners \cup {Nobody}]
      /\ image \in [Cells -> Partners \cup {Nobody}]
      /\ \A d \in downloads: d \in DownloadSet /\ d.n \in 1..dataTask
  BY DEF Types
<1>4. /\ \A b \in Cells: message'[b] = IF b = c THEN p ELSE message[b]
      /\ message' \in [Cells -> Partners \cup {Nobody}]
      /\ name' \in [Cells -> Partners \cup {Nobody}] /\ image' \in [Cells -> Partners \cup {Nobody}]
      /\ name'[c] = Nobody /\ image'[c] = Nobody
      /\ \A b \in Cells: b # c => name'[b] = name[b] /\ image'[b] = image[b]
  BY <1>1, <1>2, <1>3 DEF Fresh
<1> DEFINE n == Len(reads)
           r == [cell |-> c, of |-> p]
<1>5. /\ n \in Nat /\ DOMAIN reads = 1..n
      /\ \A i \in 1..n: reads[i].cell \in Cells /\ reads[i].of \in Partners
  BY TypesOfReads
<1>6. /\ reads' \in Seq([cell: Cells, of: Partners]) /\ DOMAIN reads' = 1..(n + 1)
      /\ \A i \in 1..n: reads'[i] = reads[i]
      /\ reads'[n + 1].cell = c /\ reads'[n + 1].of = p
  <2>1. r \in [cell: Cells, of: Partners] /\ reads \in Seq([cell: Cells, of: Partners])
    BY DEF Types
  <2> HIDE DEF r
  <2>2. /\ reads' \in Seq([cell: Cells, of: Partners]) /\ DOMAIN reads' = 1..(n + 1)
        /\ \A i \in 1..n: reads'[i] = reads[i]
        /\ reads'[n + 1] = r
    BY <1>1, <2>1 DEF r
  <2> QED BY <2>2 DEF r
<1> HIDE DEF n, r
\* Downloads are cancelled or left alone, and of a cell's own only in a hurry.
<1>7. /\ \A e \in downloads': \E d \in downloads:
           /\ e \in DownloadSet /\ e.n = d.n /\ e.view = d.view /\ e.url = d.url
           /\ e.state = d.state \/ (e.state = "none" /\ d.view \in hurried')
      /\ \A d \in downloads: \E e \in downloads': e.view = d.view
  <2>1. CASE downloads' = downloads
    BY <1>3, <2>1
  <2>2. CASE message[c] # Nobody
    <3> DEFINE f(d) == IF Cancelled(d) THEN [d EXCEPT !.state = "none"] ELSE d
    <3>1. downloads' = {f(d) : d \in downloads}
      BY <1>2, <2>2 DEF CancelImageRequest
    <3>2. ASSUME NEW d \in downloads
          PROVE  /\ f(d) \in DownloadSet /\ f(d).n = d.n /\ f(d).view = d.view /\ f(d).url = d.url
                 /\ f(d).state = d.state \/ (f(d).state = "none" /\ d.view \in hurried')
      <4>1. d \in DownloadSet
        BY <1>3
      <4>2. CASE Cancelled(d)
        <5>1. d.view \in hurried'
          BY <1>2, <2>2, <4>2
        <5>2. f(d) = [d EXCEPT !.state = "none"]
          BY <4>2
        <5> HIDE DEF f
        <5> QED BY <4>1, <5>1, <5>2 DEF DownloadSet
      <4>3. CASE ~Cancelled(d)
        BY <4>1, <4>3
      <4> QED BY <4>2, <4>3
    <3> HIDE DEF f
    <3> QED BY <3>1, <3>2
  <2> QED BY <1>2, <2>1, <2>2
<1>8. hurried \subseteq hurried' /\ hurried' \subseteq Cells
  BY <1>2, <1>3 DEF Types, DownloadSet
<1>9. c \notin hurried' => ~UnderWay(c)
  BY <1>2 DEF Fresh
<1>10. Types'
  BY <1>1, <1>3, <1>4, <1>6, <1>7, <1>8 DEF Types
<1>11. DataRight'
  BY <1>7 DEF DataRight
<1>12. ASSUME NEW b \in Cells, b # c
       PROVE  /\ (\E i \in DOMAIN reads: reads[i].cell = b) <=> (\E i \in DOMAIN reads': reads'[i].cell = b)
              /\ (\E d \in downloads: d.view = b) <=> (\E d \in downloads': d.view = b)
              /\ UnderWay(b) <=> UnderWay(b)'
  <2>1. (\E i \in DOMAIN reads: reads[i].cell = b) <=> (\E i \in DOMAIN reads': reads'[i].cell = b)
    BY <1>5, <1>6, <1>12
  <2>2. (\E d \in downloads: d.view = b) <=> (\E d \in downloads': d.view = b)
    BY <1>7
  <2> QED BY <2>1, <2>2 DEF UnderWay, ReadsOf
<1>13. (\E i \in DOMAIN reads': reads'[i].cell = c) /\ p # Nobody
  BY <1>5, <1>6, CellsAssumption
<1>14. Fresh'
  BY <1>4, <1>12, <1>13 DEF Fresh
<1>16. OwnUnderWay'
  <2>1. ASSUME NEW i \in DOMAIN reads', reads'[i].cell \notin hurried'
        PROVE  reads'[i].of = message'[reads'[i].cell]
    <3>1. CASE i = n + 1
      BY <1>4, <1>6, <3>1
    <3>2. CASE i # n + 1
      <4>1. i \in 1..n /\ reads'[i] = reads[i] /\ i \in DOMAIN reads
        BY <1>5, <1>6, <3>2
      <4>2. reads[i].cell # c
        BY <1>9, <2>1, <4>1, UnderWayMember
      <4> QED BY <1>4, <1>5, <1>8, <2>1, <4>1, <4>2 DEF OwnUnderWay
    <3> QED BY <3>1, <3>2
  <2>2. ASSUME NEW e \in downloads', e.view \notin hurried'
        PROVE  e.url = message'[e.view]
    <3>1. PICK d \in downloads: e.view = d.view /\ e.url = d.url /\ d.view \in Cells
      BY <1>3, <1>7 DEF DownloadSet
    <3>2. d.view # c
      BY <1>9, <2>2, <3>1, UnderWayMember
    <3> QED BY <1>4, <1>8, <2>2, <3>1, <3>2 DEF OwnUnderWay
  <2> QED BY <2>1, <2>2 DEF OwnUnderWay
<1>17. NoneExplained'
  BY <1>1, <1>7, <1>8 DEF NoneExplained
<1>18. NameSettles'
  <2> SUFFICES ASSUME NEW b \in Cells \ hurried', message'[b] \in WithProfile, ReadsOf(b)' = {}
               PROVE  name'[b] = message'[b]
    BY DEF NameSettles
  <2>1. b # c
    BY <1>13 DEF ReadsOf
  <2>2. ReadsOf(b) = {}
    BY <1>12, <2>1 DEF ReadsOf
  <2> QED BY <1>1, <1>4, <1>8, <2>1, <2>2 DEF NameSettles
<1>19. ShowsOwn'
  <2> SUFFICES ASSUME NEW b \in Cells \ hurried'
               PROVE  /\ {name'[b], image'[b]} \subseteq {message'[b], Nobody}
                      /\ message'[b] \in WithProfile \cap Pictures /\ ~UnderWay(b)' /\ ~dataTrap'
                           => image'[b] = message'[b]
    BY DEF ShowsOwn
  <2>1. CASE b = c
    <3>1. UnderWay(b)'
      BY <1>13, <2>1 DEF UnderWay, ReadsOf
    <3> QED BY <1>4, <2>1, <3>1
  <2>2. CASE b # c
    BY <1>1, <1>4, <1>8, <1>12, <2>2 DEF ShowsOwn
  <2> QED BY <2>1, <2>2
<1> QED BY <1>10, <1>11, <1>14, <1>16, <1>17, <1>18, <1>19

-----------------------------------------------------------------------------
(* The profiles.                                                           *)

LEMMA Removed ==
  ASSUME NEW S, NEW s \in Seq(S), NEW k \in 1..Len(s)
  PROVE  /\ RemoveAt(s, k) \in Seq(S) /\ Len(RemoveAt(s, k)) = Len(s) - 1
         /\ \A i \in 1..(k - 1): RemoveAt(s, k)[i] = s[i]
         /\ \A i \in k..(Len(s) - 1): RemoveAt(s, k)[i] = s[i + 1]
<1> DEFINE a == SubSeq(s, 1, k - 1)
           b == SubSeq(s, k + 1, Len(s))
           r == a \o b
<1>1. Len(s) \in Nat /\ k \in Nat /\ \A i \in 1..Len(s): s[i] \in S
  OBVIOUS
<1>2. a \in Seq(S) /\ Len(a) = k - 1 /\ \A i \in 1..(k - 1): a[i] = s[i]
  BY <1>1, SubSeqProperties
<1>3. b \in Seq(S) /\ Len(b) = Len(s) - k /\ \A i \in 1..(Len(s) - k): b[i] = s[i + k]
  <2>1. CASE k = Len(s)
    BY <1>1, <2>1
  <2>2. CASE k < Len(s)
    BY <1>1, <2>2, SubSeqProperties
  <2> QED BY <1>1, <2>1, <2>2
<1> HIDE DEF a, b
<1>4. /\ r \in Seq(S) /\ Len(r) = Len(a) + Len(b)
      /\ \A i \in 1..(Len(a) + Len(b)): r[i] = IF i <= Len(a) THEN a[i] ELSE b[i - Len(a)]
  BY ONLY <1>2, <1>3, ConcatProperties
<1> HIDE DEF r
<1>5. Len(a) + Len(b) = Len(s) - 1
  BY <1>1, <1>2, <1>3
<1>6. ASSUME NEW i \in 1..(k - 1) PROVE r[i] = s[i]
  <2>1. i \in 1..(Len(s) - 1) /\ i <= k - 1
    BY <1>1
  <2>2. r[i] = IF i <= Len(a) THEN a[i] ELSE b[i - Len(a)]
    BY <1>4, <1>5, <2>1
  <2> QED BY <1>2, <2>1, <2>2
<1>7. ASSUME NEW i \in k..(Len(s) - 1) PROVE r[i] = s[i + 1]
  <2>1. i \in 1..(Len(s) - 1) /\ ~(i <= k - 1)
    BY <1>1
  <2>2. r[i] = IF i <= Len(a) THEN a[i] ELSE b[i - Len(a)]
    BY <1>4, <1>5, <2>1
  <2>3. r[i] = b[i - (k - 1)]
    BY <1>2, <2>1, <2>2
  <2>4. i - (k - 1) \in 1..(Len(s) - k) /\ i - (k - 1) + k = i + 1
    BY <1>1
  <2> QED BY <1>3, <2>3, <2>4
<1>8. RemoveAt(s, k) = r
  BY DEF RemoveAt, r, a, b
<1> QED BY <1>4, <1>5, <1>6, <1>7, <1>8

LEMMA RemovedReads ==
  ASSUME Types, NEW k \in DOMAIN reads, reads' = RemoveAt(reads, k)
  PROVE  /\ reads' \in Seq([cell: Cells, of: Partners])
         /\ \A i \in DOMAIN reads': \E j \in DOMAIN reads: reads'[i] = reads[j]
         /\ \A j \in DOMAIN reads: j # k => \E i \in DOMAIN reads': reads'[i] = reads[j]
<1> DEFINE R == [cell: Cells, of: Partners]
           n == Len(reads)
<1>1. reads \in Seq(R)
  BY DEF Types
<1> HIDE DEF R
<1>2. n \in Nat /\ DOMAIN reads = 1..n /\ k \in 1..n
  BY <1>1
<1>3. /\ reads' \in Seq(R) /\ Len(reads') = n - 1
      /\ \A i \in 1..(k - 1): reads'[i] = reads[i]
      /\ \A i \in k..(n - 1): reads'[i] = reads[i + 1]
  BY <1>1, <1>2, Removed
<1>4. DOMAIN reads' = 1..(n - 1)
  BY <1>3
<1> HIDE DEF n
<1>5. ASSUME NEW i \in DOMAIN reads' PROVE \E j \in DOMAIN reads: reads'[i] = reads[j]
  <2>1. CASE i < k
    <3>1. i \in DOMAIN reads /\ i \in 1..(k - 1)
      BY <1>2, <1>4, <2>1
    <3> QED BY <1>3, <3>1
  <2>2. CASE ~(i < k)
    <3>1. i + 1 \in DOMAIN reads /\ i \in k..(n - 1)
      BY <1>2, <1>4, <2>2
    <3> QED BY <1>3, <3>1
  <2> QED BY <2>1, <2>2
<1>6. ASSUME NEW j \in DOMAIN reads, j # k PROVE \E i \in DOMAIN reads': reads'[i] = reads[j]
  <2>1. CASE j < k
    <3>1. j \in DOMAIN reads' /\ j \in 1..(k - 1)
      BY <1>2, <1>4, <2>1
    <3> QED BY <1>3, <3>1
  <2>2. CASE j > k
    <3>1. j - 1 \in DOMAIN reads' /\ j - 1 \in k..(n - 1) /\ (j - 1) + 1 = j
      BY <1>2, <1>4, <2>2
    <3> QED BY <1>3, <3>1
  <2> QED BY <1>2, <1>6, <2>1, <2>2
<1> QED BY <1>3, <1>5, <1>6 DEF R

\* The read at k is answered.
AnswersRead(k) ==
  /\ ~dataTrap /\ reads' = RemoveAt(reads, k)
  /\ IF reads[k].of \in WithProfile
     THEN /\ name' = [name EXCEPT ![reads[k].cell] = reads[k].of]
          /\ LoadImageUsingCache(reads[k].cell, reads[k].of)
     ELSE UNCHANGED <<name, image, downloads, dataTask>>
  /\ UNCHANGED <<message, cache, dataTrap, shows, failures, hurried>>

LEMMA AnswerProfileKeeps ==
  ASSUME CellsInv, AnswerProfile
  PROVE  CellsInv'
<1> USE DEF CellsInv
<1>0. PICK k \in DOMAIN reads: AnswersRead(k)
  BY DEF AnswerProfile, AnswersRead
<1> DEFINE c == reads[k].cell
           p == reads[k].of
<1>1. /\ reads' = RemoveAt(reads, k) /\ ~dataTrap
      /\ message' = message /\ cache' = cache /\ dataTrap' = dataTrap
      /\ failures' = failures /\ hurried' = hurried
  BY <1>0 DEF AnswersRead
<1>2. \/ /\ p \notin WithProfile
         /\ name' = name /\ image' = image /\ downloads' = downloads /\ dataTask' = dataTask
      \/ /\ p \in WithProfile /\ name' = [name EXCEPT ![c] = p]
         /\ \/ /\ p \in cache /\ image' = [image EXCEPT ![c] = p]
               /\ downloads' = downloads /\ dataTask' = dataTask
            \/ /\ image' = [image EXCEPT ![c] = Nobody] /\ dataTask' = dataTask + 1
               /\ downloads' = downloads \cup
                    {[n |-> dataTask + 1, view |-> c, url |-> p, state |-> "running"]}
  BY <1>0 DEF AnswersRead, LoadImageUsingCache
<1>3. /\ reads' \in Seq([cell: Cells, of: Partners])
      /\ \A i \in DOMAIN reads': \E j \in DOMAIN reads: reads'[i] = reads[j]
      /\ \A j \in DOMAIN reads: j # k => \E i \in DOMAIN reads': reads'[i] = reads[j]
  BY <1>1, RemovedReads DEF Types
<1>4. c \in Cells /\ p \in Partners
  BY TypesOfReads
<1>5. /\ message \in [Cells -> Partners \cup {Nobody}] /\ name \in [Cells -> Partners \cup {Nobody}]
      /\ image \in [Cells -> Partners \cup {Nobody}] /\ dataTask \in Nat
      /\ \A d \in downloads: d \in DownloadSet /\ d.n \in 1..dataTask
  BY DEF Types
<1>6. /\ message[c] # Nobody
      /\ c \notin hurried => p = message[c]
  BY <1>4, UnderWayMember DEF Fresh, OwnUnderWay
<1>7. /\ name' \in [Cells -> Partners \cup {Nobody}] /\ image' \in [Cells -> Partners \cup {Nobody}]
      /\ \A b \in Cells: b # c => name'[b] = name[b] /\ image'[b] = image[b]
      /\ p \in WithProfile => name'[c] = p
      /\ name'[c] \in {name[c], p} /\ image'[c] \in {image[c], p, Nobody}
  BY <1>2, <1>4, <1>5
<1>8. /\ \A e \in downloads': \/ e \in downloads
                              \/ /\ e \in DownloadSet /\ e.n \in 1..dataTask' /\ e.view = c
                                 /\ e.url = p /\ e.state = "running"
      /\ downloads \subseteq downloads' /\ dataTask' \in Nat /\ dataTask <= dataTask'
  <2>1. CASE downloads' = downloads /\ dataTask' = dataTask
    BY <1>5, <2>1
  <2>2. CASE /\ p \in WithProfile /\ dataTask' = dataTask + 1
             /\ downloads' = downloads \cup
                  {[n |-> dataTask + 1, view |-> c, url |-> p, state |-> "running"]}
    <3> DEFINE e == [n |-> dataTask + 1, view |-> c, url |-> p, state |-> "running"]
    <3>1. /\ e \in DownloadSet /\ e.n = dataTask + 1 /\ e.view = c /\ e.url = p /\ e.state = "running"
      BY <1>4, <1>5, <2>2 DEF DownloadSet
    <3>2. downloads' = downloads \cup {e}
      BY <2>2
    <3> HIDE DEF e
    <3> QED BY <1>5, <2>2, <3>1, <3>2
  <2> QED BY <1>2, <2>1, <2>2
<1> HIDE DEF c, p
<1>9. c = reads[k].cell /\ p = reads[k].of
  BY DEF c, p
<1>10. Types'
  BY <1>1, <1>3, <1>5, <1>7, <1>8 DEF Types
<1>11. DataRight'
  BY <1>8 DEF DataRight
<1>12. NoneExplained'
  BY <1>1, <1>8 DEF NoneExplained
<1>14. ASSUME NEW b \in Cells, b # c
       PROVE  (UnderWay(b)' <=> UnderWay(b)) /\ (ReadsOf(b)' = {} => ReadsOf(b) = {})
  <2>1. (\E i \in DOMAIN reads: reads[i].cell = b) <=> (\E i \in DOMAIN reads': reads'[i].cell = b)
    BY <1>3, <1>9, <1>14
  <2>2. (\E d \in downloads: d.view = b) <=> (\E d \in downloads': d.view = b)
    BY <1>8, <1>14
  <2> QED BY <2>1, <2>2 DEF UnderWay, ReadsOf
<1>15. Fresh'
  <2> SUFFICES ASSUME NEW b \in Cells, message'[b] = Nobody
               PROVE  ~UnderWay(b)' /\ name'[b] = Nobody /\ image'[b] = Nobody
    BY DEF Fresh
  <2>1. b # c
    BY <1>1, <1>6
  <2> QED BY <1>1, <1>7, <1>14, <2>1 DEF Fresh
<1>17. OwnUnderWay'
  <2>1. ASSUME NEW i \in DOMAIN reads', reads'[i].cell \notin hurried'
        PROVE  reads'[i].of = message'[reads'[i].cell]
    <3>1. PICK j \in DOMAIN reads: reads'[i] = reads[j]
      BY <1>3
    <3> QED BY <1>1, <2>1, <3>1 DEF OwnUnderWay
  <2>2. ASSUME NEW e \in downloads', e.view \notin hurried'
        PROVE  e.url = message'[e.view]
    BY <1>1, <1>6, <1>8, <2>2 DEF OwnUnderWay
  <2> QED BY <2>1, <2>2 DEF OwnUnderWay
<1>18. NameSettles'
  <2> SUFFICES ASSUME NEW b \in Cells \ hurried', message'[b] \in WithProfile, ReadsOf(b)' = {}
               PROVE  name'[b] = message'[b]
    BY DEF NameSettles
  <2>1. CASE b # c
    BY <1>1, <1>7, <1>14, <2>1 DEF NameSettles
  <2>2. CASE b = c
    BY <1>1, <1>6, <1>7, <2>2
  <2> QED BY <2>1, <2>2
<1>19. ShowsOwn'
  <2> SUFFICES ASSUME NEW b \in Cells \ hurried'
               PROVE  /\ {name'[b], image'[b]} \subseteq {message'[b], Nobody}
                      /\ message'[b] \in WithProfile \cap Pictures /\ ~UnderWay(b)' /\ ~dataTrap'
                           => image'[b] = message'[b]
    BY DEF ShowsOwn
  <2>1. CASE b # c
    BY <1>1, <1>7, <1>14, <2>1 DEF ShowsOwn
  <2>2. CASE b = c
    <3>1. p = message[c] /\ {name[c], image[c]} \subseteq {message[c], Nobody}
      BY <1>1, <1>6, <2>2 DEF ShowsOwn
    <3>2. {name'[c], image'[c]} \subseteq {message'[c], Nobody}
      BY <1>1, <1>7, <3>1
    <3>3. ASSUME p \in WithProfile, \A d \in downloads': d.view # b PROVE image'[b] = p
      <4>1. CASE image' = [image EXCEPT ![c] = p]
        BY <1>4, <1>5, <2>2, <4>1
      <4>2. CASE downloads' = downloads \cup
                   {[n |-> dataTask + 1, view |-> c, url |-> p, state |-> "running"]}
        <5> DEFINE e == [n |-> dataTask + 1, view |-> c, url |-> p, state |-> "running"]
        <5>1. e.view = c
          OBVIOUS
        <5> HIDE DEF e
        <5>2. e \in downloads'
          BY <4>2 DEF e
        <5> QED BY <2>2, <3>3, <5>1, <5>2
      <4> QED BY <1>2, <3>3, <4>1, <4>2
    <3>4. ~UnderWay(b)' => \A d \in downloads': d.view # b
      BY DEF UnderWay
    <3> QED BY <1>1, <2>2, <3>1, <3>2, <3>3, <3>4
  <2> QED BY <2>1, <2>2
<1> QED BY <1>10, <1>11, <1>12, <1>15, <1>17, <1>18, <1>19

-----------------------------------------------------------------------------
(* The pictures.                                                           *)

LEMMA ImageBlockKeeps ==
  ASSUME CellsInv, NEW d \in downloads, ImageBlock(d)
  PROVE  CellsInv'
<1> USE DEF CellsInv
<1>1. /\ downloads' = downloads \ {d} /\ dataTrap' = (d.state = "none")
      /\ d.state = "picture" => cache' = cache \cup {d.url} /\ image' = [image EXCEPT ![d.view] = d.url]
      /\ d.state # "picture" => cache' = cache /\ image' = image
      /\ d.state # "running"
      /\ message' = message /\ name' = name /\ reads' = reads /\ dataTask' = dataTask
      /\ failures' = failures /\ hurried' = hurried
  BY DEF ImageBlock
<1>2. /\ message \in [Cells -> Partners \cup {Nobody}] /\ image \in [Cells -> Partners \cup {Nobody}]
      /\ d.view \in Cells /\ d.url \in WithProfile /\ d.url \in Partners
      /\ d.state \in {"running", "none", "picture", "bytes"}
  BY CellsAssumption DEF Types, DownloadSet
<1>3. /\ image' \in [Cells -> Partners \cup {Nobody}]
      /\ \A b \in Cells: b # d.view => image'[b] = image[b]
      /\ image'[d.view] = IF d.state = "picture" THEN d.url ELSE image[d.view]
  BY <1>1, <1>2
<1>4. cache' \subseteq Pictures
  BY <1>1 DEF Types, DataRight
<1>5. Types'
  <2>1. dataTrap' \in BOOLEAN
    BY <1>1
  <2> QED BY <1>1, <1>3, <1>4, <2>1 DEF Types
<1>6. DataRight' /\ OwnUnderWay' /\ NoneExplained'
  BY <1>1 DEF DataRight, OwnUnderWay, NoneExplained
<1>7. \A b \in Cells: /\ UnderWay(b)' => UnderWay(b)
                      /\ b # d.view => (UnderWay(b)' <=> UnderWay(b))
  BY <1>1 DEF UnderWay, ReadsOf
<1>8. UnderWay(d.view) /\ message[d.view] # Nobody
  BY <1>2 DEF UnderWay, Fresh
<1>9. Fresh'
  BY <1>1, <1>3, <1>7, <1>8 DEF Fresh
<1>10. NameSettles'
  BY <1>1 DEF NameSettles, ReadsOf
<1>11. ShowsOwn'
  <2> SUFFICES ASSUME NEW b \in Cells \ hurried'
               PROVE  /\ {name'[b], image'[b]} \subseteq {message'[b], Nobody}
                      /\ message'[b] \in WithProfile \cap Pictures /\ ~UnderWay(b)' /\ ~dataTrap'
                           => image'[b] = message'[b]
    BY DEF ShowsOwn
  <2>1. CASE b # d.view
    <3>1. ~dataTrap' => ~dataTrap
      BY DEF ImageBlock
    <3> QED BY <1>1, <1>3, <1>7, <2>1, <3>1 DEF ShowsOwn
  <2>2. CASE b = d.view
    <3>1. d.url = message[b]
      BY <1>1, <2>2 DEF OwnUnderWay
    <3>2. ~dataTrap' => d.state \in {"picture", "bytes"}
      BY <1>1, <1>2
    <3> QED BY <1>1, <1>3, <2>2, <3>1, <3>2 DEF ShowsOwn, DataRight
  <2> QED BY <2>1, <2>2
<1> QED BY <1>5, <1>6, <1>9, <1>10, <1>11

-----------------------------------------------------------------------------
\* What is under way for a cell is for its present message, unless it was reused
\* meanwhile or another one's reuse cancelled it (RecentMessageCell.swift:49-72).
THEOREM CellsInvariant == CellsSpec => []CellsInv
<1>1. CellsInit => CellsInv
  <2> SUFFICES ASSUME CellsInit PROVE CellsInv
    OBVIOUS
  <2>1. /\ message = [c \in Cells |-> Nobody] /\ name = message /\ image = message
        /\ reads = <<>> /\ downloads = {} /\ dataTask = 0 /\ cache = {} /\ dataTrap = FALSE
        /\ failures = 0 /\ hurried = {} /\ DOMAIN reads = {}
    BY DEF CellsInit
  <2>2. Types
    <3> DEFINE R == [cell: Cells, of: Partners]
    <3> HIDE DEF R
    <3>1. reads \in Seq(R)
      BY <2>1
    <3>2. {message, name, image} \subseteq [Cells -> Partners \cup {Nobody}]
      BY <2>1
    <3> QED BY <2>1, <3>1, <3>2 DEF Types, R
  <2>3. DataRight /\ OwnUnderWay /\ NoneExplained
    BY <2>1 DEF DataRight, OwnUnderWay, NoneExplained
  <2>4. Fresh
    BY <2>1 DEF Fresh, UnderWay, ReadsOf
  <2>5. NameSettles /\ ShowsOwn
    BY <2>1, CellsAssumption DEF NameSettles, ShowsOwn
  <2> QED BY <2>2, <2>3, <2>4, <2>5 DEF CellsInv
<1>2. CellsInv /\ [CellsNext]_cellVars => CellsInv'
  <2> SUFFICES ASSUME CellsInv, [CellsNext]_cellVars PROVE CellsInv'
    OBVIOUS
  <2>1. CASE UNCHANGED cellVars
    BY <2>1 DEF cellVars, CellsInv, Types, DataRight, Fresh, OwnUnderWay, NoneExplained,
                NameSettles, ShowsOwn, UnderWay, ReadsOf
  <2> QED
    BY <2>1, ShowRowKeeps, AnswerProfileKeeps, ImageBlockKeeps, RespondKeeps
       DEF CellsNext
<1> QED BY <1>1, <1>2, PTL DEF CellsSpec

\* A row shows its own partner or nobody unless it was hurried, its partner's
\* name once no read of it is under way, and data is there to unwrap as
\* long as no download failed and no cell was hurried, with any number of cells
\* (RecentMessageCell.swift:49-72, 113-129, Ext+UIImageView.swift:13-41).
THEOREM RowsShowTheirOwn == CellsSpec => []CellsRight
<1>1. CellsInv => CellsRight
  <2> SUFFICES ASSUME CellsInv PROVE CellsRight
    OBVIOUS
  <2>1. CellsTypeOK
    BY DEF CellsInv, Types, DownloadSet, CellsTypeOK
  <2>2. UnwrapHolds
    BY DEF CellsInv, NoneExplained, UnwrapHolds
  <2>3. NeverAnothers
    BY DEF CellsInv, NameSettles, ShowsOwn, NeverAnothers
  <2> QED BY <2>1, <2>2, <2>3 DEF CellsRight
<1> QED BY <1>1, CellsInvariant, PTL

=============================================================================

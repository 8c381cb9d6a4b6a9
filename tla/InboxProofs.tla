------------------------------ MODULE InboxProofs ------------------------------
(***************************************************************************)
(* A conversation holds each message of its branch once, in whatever order *)
(* its reads are answered, and in the order of the events where nobody     *)
(* else reads them and the connection holds, for any number of contacts,   *)
(* texts and openings.                                                     *)
(***************************************************************************)
EXTENDS Inbox, FiniteSetTheorems, SequenceTheorems, WellFoundedInduction, TLAPS

-----------------------------------------------------------------------------
(* The inductive invariant.                                                *)

Requests ==
  {Task("users", Me)} \cup [kind: {"index"}, of: Contacts] \cup [kind: {"message"}, of: Texts]
Tasks ==
  [kind: {"user"}, of: Contacts \cup {Me}] \cup [kind: {"dismissed"}, of: Contacts]
  \cup [kind: {"childAdded", "message"}, of: Texts] \cup {Task("reload", Me)}

Types ==
  /\ sheet \in BOOLEAN /\ user \in Contacts \cup {NoPartner} /\ (sheet => user = NoPartner)
  /\ contacts \in Seq(Contacts \cup {Me})
  /\ inboxMessages \in Seq(Texts) /\ rows \in Seq(Texts) /\ raised \in Seq(Texts)
  /\ inboxAsked \in Seq(Requests) /\ inboxQueue \in Seq(Tasks)
  /\ loaded \subseteq Contacts \cup {"users"}
  /\ joined \subseteq Contacts \cup {Me} /\ inboxFiled \subseteq Texts
  /\ straight \in BOOLEAN

\* The sheet's blocks wait while no inbox is pushed, an inbox's while one is,
\* and the completion of a dismissal alone.
ByScreen ==
  /\ \A j \in ToSet(inboxQueue):
       /\ j.kind \in IF user = NoPartner THEN {"user", "dismissed"} ELSE {"childAdded", "message", "reload"}
       /\ j.kind = "dismissed" => ~sheet /\ Len(inboxQueue) = 1
  /\ user = NoPartner =>
       /\ inboxMessages = <<>> /\ rows = <<>> /\ raised = <<>>
       /\ \A j \in ToSet(inboxAsked): j.kind # "message"

\* No request is sent twice, and no listen that the process holds.
AskedOnce ==
  /\ IsInjective(inboxAsked)
  /\ \A j \in ToSet(inboxAsked):
       /\ j.kind = "users" => "users" \notin loaded
       /\ j.kind = "index" => j.of \notin loaded

\* Nobody is on the list or on the way to it twice, or before he joined.
Listing == contacts \o Of(inboxQueue, "user")
ListingOnce ==
  /\ IsInjective(Listing) /\ ToSet(Listing) \subseteq joined
  /\ "users" \notin loaded => Listing = <<>>
  /\ \A i \in DOMAIN contacts: contacts[i] # Me

InboxInv ==
  /\ Types /\ ByScreen /\ AskedOnce /\ EachOnce /\ InOrder /\ ListingOnce
  /\ RowsFollow

-----------------------------------------------------------------------------
(* Induction over numbers and over sequences, stated with sets.            *)

LEMMA LeastNat ==
  ASSUME NEW T \in SUBSET Nat, T # {}
  PROVE  \E x \in T : \A y \in T : x <= y
<1>1. IsWellFoundedOn(OpToRel(<, Nat), Nat)
  BY NatLessThanWellFounded
<1> DEFINE R == OpToRel(<, Nat)
<1>2. \A x, y \in Nat : <<x, y>> \in R <=> x < y
  BY DEF OpToRel
<1> HIDE DEF R
<1>3. \E x \in T : \A y \in T : ~(<<y, x>> \in R)
  BY <1>1, WFMin DEF R
<1>4. PICK x \in T : \A y \in T : <<y, x>> \notin R
  BY <1>3
<1>5. \A y \in T : ~(y < x)
  BY <1>2, <1>4
<1> QED BY <1>5

LEMMA Induction ==
  ASSUME NEW S \in SUBSET Nat, 0 \in S, \A n \in S : n + 1 \in S
  PROVE  S = Nat
<1> DEFINE T == Nat \ S
<1> SUFFICES ASSUME T # {} PROVE FALSE
  OBVIOUS
<1>1. PICK x \in T : \A y \in T : x <= y
  BY LeastNat
<1>2. x - 1 \in Nat /\ x - 1 \notin T
  BY <1>1
<1> QED BY <1>1, <1>2

LEMMA SequenceInduction ==
  ASSUME NEW J, NEW T \in SUBSET Seq(J), <<>> \in T, \A s \in T: \A j \in J: Append(s, j) \in T
  PROVE  T = Seq(J)
<1> DEFINE N == {n \in Nat: \A s \in Seq(J): Len(s) = n => s \in T}
<1>1. 0 \in N
  OBVIOUS
<1>2. ASSUME NEW n \in N PROVE n + 1 \in N
  <2> SUFFICES ASSUME NEW s \in Seq(J), Len(s) = n + 1 PROVE s \in T
    OBVIOUS
  <2> DEFINE r == SubSeq(s, 1, n)
  <2>1. r \in Seq(J) /\ Len(r) = n /\ s[n + 1] \in J
    OBVIOUS
  <2>2. s = Append(r, s[n + 1])
    <3>1. Append(r, s[n + 1]) \in Seq(J) /\ Len(Append(r, s[n + 1])) = n + 1
      BY <2>1
    <3>2. \A i \in 1..(n + 1): Append(r, s[n + 1])[i] = s[i]
      BY <2>1
    <3> HIDE DEF r
    <3> QED BY <3>1, <3>2, SeqEqual
  <2>3. r \in T
    BY <2>1
  <2> QED BY <2>1, <2>2, <2>3
<1>3. N = Nat
  <2> HIDE DEF N
  <2> QED BY <1>1, <1>2, Induction DEF N
<1>4. \A s \in Seq(J): s \in T
  <2> SUFFICES ASSUME NEW s \in Seq(J) PROVE s \in T
    OBVIOUS
  <2>1. Len(s) \in N
    BY <1>3
  <2> QED BY <2>1
<1> QED BY <1>4

-----------------------------------------------------------------------------
(* Sequences without repetition.                                           *)

LEMMA ConcatElements ==
  ASSUME NEW S, NEW s \in Seq(S), NEW t \in Seq(S)
  PROVE  ToSet(s \o t) = ToSet(s) \cup ToSet(t)
<1>1. ASSUME NEW i \in DOMAIN s PROVE i \in DOMAIN (s \o t) /\ (s \o t)[i] = s[i]
  OBVIOUS
<1>2. ASSUME NEW i \in DOMAIN t PROVE Len(s) + i \in DOMAIN (s \o t) /\ (s \o t)[Len(s) + i] = t[i]
  OBVIOUS
<1>3. ASSUME NEW i \in DOMAIN (s \o t)
      PROVE  (s \o t)[i] \in ToSet(s) \cup ToSet(t)
  <2>1. CASE i <= Len(s)
    BY <1>1, <2>1 DEF ToSet
  <2>2. CASE i > Len(s)
    <3>1. i - Len(s) \in DOMAIN t /\ (s \o t)[i] = t[i - Len(s)]
      BY <2>2
    <3> QED BY <3>1 DEF ToSet
  <2> QED BY <2>1, <2>2
<1>4. ToSet(s) \subseteq ToSet(s \o t)
  BY <1>1 DEF ToSet
<1>5. ToSet(t) \subseteq ToSet(s \o t)
  BY <1>2 DEF ToSet
<1>6. ToSet(s \o t) \subseteq ToSet(s) \cup ToSet(t)
  BY <1>3 DEF ToSet
<1> QED BY <1>4, <1>5, <1>6

LEMMA ConcatOnce ==
  ASSUME NEW S, NEW s \in Seq(S), NEW t \in Seq(S)
  PROVE  IsInjective(s \o t) <=>
           IsInjective(s) /\ IsInjective(t) /\ ToSet(s) \cap ToSet(t) = {}
<1>1. \A i \in DOMAIN s: i \in DOMAIN (s \o t) /\ (s \o t)[i] = s[i] /\ i \in Nat /\ i <= Len(s)
  OBVIOUS
<1>2. \A i \in DOMAIN t: Len(s) + i \in DOMAIN (s \o t) /\ (s \o t)[Len(s) + i] = t[i] /\ i \in Nat /\ i >= 1
  OBVIOUS
<1>3. \A i \in DOMAIN (s \o t): i \in DOMAIN s \/ (i - Len(s) \in DOMAIN t /\ i = Len(s) + (i - Len(s)))
  OBVIOUS
<1>4. Len(s) \in Nat
  OBVIOUS
<1>5. ASSUME IsInjective(s \o t)
      PROVE  IsInjective(s) /\ IsInjective(t) /\ ToSet(s) \cap ToSet(t) = {}
  <2>1. IsInjective(s)
    BY <1>1, <1>5 DEF IsInjective
  <2>2. IsInjective(t)
    <3> SUFFICES ASSUME NEW i \in DOMAIN t, NEW j \in DOMAIN t, t[i] = t[j] PROVE i = j
      BY DEF IsInjective
    <3>1. Len(s) + i = Len(s) + j
      BY <1>2, <1>5 DEF IsInjective
    <3> QED BY <1>2, <1>4, <3>1
  <2>3. ASSUME NEW i \in DOMAIN s, NEW j \in DOMAIN t, s[i] = t[j] PROVE FALSE
    <3>1. i = Len(s) + j
      BY <1>1, <1>2, <1>5, <2>3 DEF IsInjective
    <3> QED BY <1>1, <1>2, <1>4, <3>1
  <2> QED BY <2>1, <2>2, <2>3 DEF ToSet
<1>6. ASSUME IsInjective(s), IsInjective(t), ToSet(s) \cap ToSet(t) = {}
      PROVE  IsInjective(s \o t)
  <2> SUFFICES ASSUME NEW i \in DOMAIN (s \o t), NEW j \in DOMAIN (s \o t), (s \o t)[i] = (s \o t)[j]
               PROVE  i = j
    BY DEF IsInjective
  <2>1. \A a \in DOMAIN s, b \in DOMAIN t: s[a] # t[b]
    BY <1>6 DEF ToSet
  <2>2. CASE i \in DOMAIN s /\ j \in DOMAIN s
    BY <1>1, <1>6, <2>2 DEF IsInjective
  <2>3. CASE i \in DOMAIN s /\ j \notin DOMAIN s
    BY <1>1, <1>2, <1>3, <2>1, <2>3
  <2>4. CASE i \notin DOMAIN s /\ j \in DOMAIN s
    BY <1>1, <1>2, <1>3, <2>1, <2>4
  <2>5. CASE i \notin DOMAIN s /\ j \notin DOMAIN s
    <3>1. i - Len(s) = j - Len(s)
      BY <1>2, <1>3, <1>6, <2>5 DEF IsInjective
    <3> QED BY <1>3, <1>4, <2>5, <3>1
  <2> QED BY <2>2, <2>3, <2>4, <2>5
<1> QED BY <1>5, <1>6

LEMMA AppendOnce ==
  ASSUME NEW S, NEW s \in Seq(S), NEW x \in S
  PROVE  /\ ToSet(Append(s, x)) = ToSet(s) \cup {x}
         /\ IsInjective(Append(s, x)) <=> IsInjective(s) /\ x \notin ToSet(s)
<1>1. /\ DOMAIN s = 1..Len(s) /\ Len(s) \in Nat /\ DOMAIN Append(s, x) = 1..(Len(s) + 1)
      /\ Append(s, x)[Len(s) + 1] = x /\ \A i \in DOMAIN s: Append(s, x)[i] = s[i]
  <2>1. DOMAIN s = 1..Len(s) /\ Len(s) \in Nat
    BY LenProperties
  <2>2. /\ Append(s, x) \in Seq(S) /\ Len(Append(s, x)) = Len(s) + 1
        /\ \A i \in 1..Len(s): Append(s, x)[i] = s[i]
        /\ Append(s, x)[Len(s) + 1] = x
    BY AppendProperties
  <2>3. DOMAIN Append(s, x) = 1..Len(Append(s, x))
    BY <2>2, LenProperties
  <2> QED BY <2>1, <2>2, <2>3
<1>2. ToSet(Append(s, x)) = ToSet(s) \cup {x}
  BY <1>1 DEF ToSet
<1>3. ASSUME IsInjective(Append(s, x)) PROVE IsInjective(s) /\ x \notin ToSet(s)
  BY <1>1, <1>3 DEF IsInjective, ToSet
<1>4. ASSUME IsInjective(s), x \notin ToSet(s) PROVE IsInjective(Append(s, x))
  BY <1>1, <1>4 DEF IsInjective, ToSet
<1> QED BY <1>2, <1>3, <1>4

LEMMA AppendOfConcat ==
  ASSUME NEW S, NEW s \in Seq(S), NEW t \in Seq(S), NEW x \in S
  PROVE  s \o Append(t, x) = Append(s \o t, x)
<1>1. <<x>> \in Seq(S) /\ s \o t \in Seq(S)
  BY ConcatProperties
<1>2. Append(t, x) = t \o <<x>> /\ Append(s \o t, x) = (s \o t) \o <<x>>
  BY <1>1, AppendIsConcat
<1> QED BY <1>1, <1>2, ConcatAssociative

-----------------------------------------------------------------------------
(* Sequences in the order of another one.                                  *)

Precedes(r, x, y) == \E k, l \in DOMAIN r: k < l /\ r[k] = x /\ r[l] = y

LEMMA FollowsConcat ==
  ASSUME NEW S, NEW s \in Seq(S), NEW t \in Seq(S), NEW r
  PROVE  Follows(s \o t, r) <=>
           /\ Follows(s, r) /\ Follows(t, r)
           /\ \A x \in ToSet(s), y \in ToSet(t): Precedes(r, x, y)
<1> DEFINE n == Len(s)
           m == Len(t)
           c == s \o t
<1>1. /\ n \in Nat /\ m \in Nat /\ DOMAIN s = 1..n /\ DOMAIN t = 1..m
      /\ DOMAIN c = 1..(n + m) /\ \A i \in 1..(n + m): c[i] = IF i <= n THEN s[i] ELSE t[i - n]
  OBVIOUS
<1> HIDE DEF n, m, c
<1>2. ASSUME Follows(c, r) PROVE Follows(s, r)
  <2>1. \A i \in DOMAIN s: i \in DOMAIN c /\ c[i] = s[i]
    BY <1>1
  <2> QED
    BY <1>2, <2>1 DEF Follows
<1>3. ASSUME Follows(c, r) PROVE Follows(t, r)
  <2> SUFFICES ASSUME NEW i \in DOMAIN t, NEW j \in DOMAIN t, i < j PROVE Precedes(r, t[i], t[j])
    BY DEF Follows, Precedes
  <2>1. n + i \in DOMAIN c /\ n + j \in DOMAIN c /\ n + i < n + j /\ c[n + i] = t[i] /\ c[n + j] = t[j]
    <3>1. i \in 1..m /\ j \in 1..m /\ ~(n + i <= n) /\ ~(n + j <= n) /\ (n + i) - n = i /\ (n + j) - n = j
      BY <1>1
    <3> QED
      BY <1>1, <3>1
  <2> QED
    BY <1>3, <2>1 DEF Follows, Precedes
<1>4. ASSUME Follows(c, r), NEW x \in ToSet(s), NEW y \in ToSet(t) PROVE Precedes(r, x, y)
  <2>1. PICK i \in DOMAIN s: s[i] = x
    BY DEF ToSet
  <2>2. PICK j \in DOMAIN t: t[j] = y
    BY DEF ToSet
  <2>3. i \in DOMAIN c /\ n + j \in DOMAIN c /\ i < n + j /\ c[i] = x
    BY <1>1, <2>1
  <2>4. c[n + j] = y
    <3>1. j \in 1..m /\ ~(n + j <= n) /\ (n + j) - n = j
      BY <1>1
    <3> QED
      BY <1>1, <2>2, <3>1
  <2> QED
    BY <1>4, <2>3, <2>4 DEF Follows, Precedes
<1>5. ASSUME Follows(s, r), Follows(t, r), \A x \in ToSet(s), y \in ToSet(t): Precedes(r, x, y)
      PROVE  Follows(c, r)
  <2> SUFFICES ASSUME NEW i \in DOMAIN c, NEW j \in DOMAIN c, i < j PROVE Precedes(r, c[i], c[j])
    BY DEF Follows, Precedes
  <2>1. CASE j <= n
    <3>1. i \in DOMAIN s /\ j \in DOMAIN s /\ c[i] = s[i] /\ c[j] = s[j]
      BY <1>1, <2>1
    <3> QED
      BY <1>5, <3>1 DEF Follows, Precedes
  <2>2. CASE i <= n /\ ~(j <= n)
    <3>1. i \in DOMAIN s /\ j - n \in DOMAIN t /\ c[i] = s[i] /\ c[j] = t[j - n]
      BY <1>1, <2>2
    <3>2. c[i] \in ToSet(s) /\ c[j] \in ToSet(t)
      BY <3>1 DEF ToSet
    <3> QED
      BY <1>5, <3>2
  <2>3. CASE ~(i <= n) /\ ~(j <= n)
    <3>1. i - n \in DOMAIN t /\ j - n \in DOMAIN t /\ i - n < j - n /\ c[i] = t[i - n] /\ c[j] = t[j - n]
      BY <1>1, <2>3
    <3> QED
      BY <1>5, <3>1 DEF Follows, Precedes
  <2> QED
    BY <1>1, <2>1, <2>2, <2>3
<1> QED
  BY <1>2, <1>3, <1>4, <1>5 DEF c

\* A sequence follows itself, and goes on as what it follows does.
LEMMA FollowsGrows ==
  ASSUME NEW S, NEW s \in Seq(S), NEW r \in Seq(S), NEW x \in S,
         Follows(s, r), ToSet(s) \subseteq ToSet(r)
  PROVE  Follows(Append(s, x), Append(r, x))
<1> DEFINE n == Len(s)
           m == Len(r)
           c == Append(s, x)
           d == Append(r, x)
<1>1. /\ n \in Nat /\ DOMAIN s = 1..n /\ DOMAIN c = 1..(n + 1) /\ c[n + 1] = x
      /\ \A i \in 1..n: c[i] = s[i]
      /\ m \in Nat /\ DOMAIN r = 1..m /\ DOMAIN d = 1..(m + 1) /\ d[m + 1] = x
      /\ \A i \in 1..m: d[i] = r[i]
  BY AppendProperties, LenProperties
<1> HIDE DEF n, m, c, d
<1> SUFFICES ASSUME NEW i \in DOMAIN c, NEW j \in DOMAIN c, i < j PROVE Precedes(d, c[i], c[j])
  BY DEF Follows, Precedes, c, d
<1>2. i \in DOMAIN s /\ c[i] = s[i]
  BY <1>1
<1>3. CASE j = n + 1
  <2>1. s[i] \in ToSet(r)
    BY <1>2 DEF ToSet
  <2>2. PICK k \in DOMAIN r: r[k] = s[i]
    BY <2>1 DEF ToSet
  <2>3. k \in DOMAIN d /\ m + 1 \in DOMAIN d /\ k < m + 1 /\ d[k] = s[i]
    BY <1>1, <2>2
  <2> QED
    BY <1>1, <1>2, <1>3, <2>3 DEF Precedes
<1>4. CASE j # n + 1
  <2>1. j \in DOMAIN s /\ c[j] = s[j]
    BY <1>1, <1>4
  <2>2. PICK k \in DOMAIN r, l \in DOMAIN r: k < l /\ r[k] = s[i] /\ r[l] = s[j]
    BY <1>2, <2>1 DEF Follows
  <2>3. k \in DOMAIN d /\ l \in DOMAIN d /\ d[k] = r[k] /\ d[l] = r[l]
    BY <1>1
  <2> QED
    BY <1>2, <2>1, <2>2, <2>3 DEF Precedes
<1> QED
  BY <1>3, <1>4

LEMMA FollowsItself == ASSUME NEW s PROVE Follows(s, s)
BY DEF Follows

-----------------------------------------------------------------------------
(* The tasks of some kinds.                                                *)

\* What the recursion of Those says of its function.
Among(f, s, kinds) ==
  /\ DOMAIN f = 0..Len(s)
  /\ \A n \in 0..Len(s):
       f[n] = IF n = 0 THEN <<>> ELSE IF s[n].kind \in kinds THEN Append(f[n - 1], s[n]) ELSE f[n - 1]

\* f starts with a and goes on with G.
Iterates(f, T, a, m, G) ==
  f \in [0..m -> T] /\ \A n \in 0..m: f[n] = IF n = 0 THEN a ELSE G[n][f[n - 1]]

LEMMA Recursion ==
  ASSUME NEW T, NEW a \in T, NEW m \in Nat, NEW G \in [1..m -> [T -> T]]
  PROVE  \E f: Iterates(f, T, a, m, G)
<1> DEFINE Upto(g, k) ==
      /\ g \in [0..k -> T]
      /\ \A n \in 0..k: g[n] = IF n = 0 THEN a ELSE G[n][g[n - 1]]
    N == {k \in Nat: k <= m => \E g: Upto(g, k)}
<1>1. 0 \in N
  <2>1. Upto([n \in 0..0 |-> a], 0)
    OBVIOUS
  <2> HIDE DEF Upto
  <2> QED BY <2>1
<1>2. ASSUME NEW k \in N PROVE k + 1 \in N
  <2> SUFFICES ASSUME k + 1 <= m PROVE \E g: Upto(g, k + 1)
    OBVIOUS
  <2>1. PICK g: Upto(g, k)
    <3> HIDE DEF Upto
    <3> QED OBVIOUS
  <2>2. k \in Nat /\ k + 1 \in 1..m /\ g[k] \in T /\ G[k + 1] \in [T -> T] /\ G[k + 1][g[k]] \in T
    BY <2>1
  <2> DEFINE h == [n \in 0..(k + 1) |-> IF n = k + 1 THEN G[k + 1][g[k]] ELSE g[n]]
  <2>3. h \in [0..(k + 1) -> T]
    BY <2>1, <2>2
  <2>4. \A n \in 0..(k + 1): h[n] = IF n = 0 THEN a ELSE G[n][h[n - 1]]
    BY <2>1, <2>2
  <2>5. Upto(h, k + 1)
    BY <2>3, <2>4
  <2> HIDE DEF Upto
  <2> QED BY <2>5
<1>3. m \in N
  <2> HIDE DEF N
  <2>1. N = Nat
    BY <1>1, <1>2, Induction DEF N
  <2> QED BY <2>1
<1> QED BY <1>3 DEF Iterates

LEMMA ThoseDefined ==
  ASSUME NEW J, NEW s \in Seq(J), NEW kinds
  PROVE  \E f: Among(f, s, kinds) /\ f \in [0..Len(s) -> Seq(J)] /\ Those(s, kinds) = f[Len(s)]
<1> DEFINE Q == Seq(J)
    Step(n, r) == IF s[n].kind \in kinds THEN Append(r, s[n]) ELSE r
    Value(g, n) == IF n = 0 THEN <<>> ELSE Step(n, g[n - 1])
<1>1. Len(s) \in Nat /\ <<>> \in Q /\ \A n \in 1..Len(s), r \in Q: Step(n, r) \in Q
  BY AppendProperties, ElementOfSeq, LenProperties
<1>2. PICK g \in [0..Len(s) -> Q]: \A n \in 0..Len(s): g[n] = Value(g, n)
  <2> DEFINE G == [n \in 1..Len(s) |-> [r \in Q |-> Step(n, r)]]
  <2> HIDE DEF Q, Step
  <2>1. G \in [1..Len(s) -> [Q -> Q]] /\ \A n \in 1..Len(s), r \in Q: G[n][r] = Step(n, r)
    BY <1>1
  <2> HIDE DEF G
  <2>2. PICK g: Iterates(g, Q, <<>>, Len(s), G)
    <3>1. <<>> \in Q /\ Len(s) \in Nat /\ G \in [1..Len(s) -> [Q -> Q]]
      BY <1>1, <2>1
    <3> DEFINE m == Len(s)
               nil == <<>>
    <3> HIDE DEF m, nil
    <3>2. nil \in Q /\ m \in Nat /\ G \in [1..m -> [Q -> Q]]
      BY <3>1 DEF m, nil
    <3>3. \E g: Iterates(g, Q, nil, m, G)
      BY <3>2, Recursion
    <3> QED BY <3>3 DEF m, nil
  <2>3. ASSUME NEW n \in 0..Len(s), n # 0 PROVE G[n][g[n - 1]] = Step(n, g[n - 1])
    <3>1. n \in 1..Len(s) /\ g[n - 1] \in Q
      BY <1>1, <2>2, <2>3 DEF Iterates
    <3> QED BY <2>1, <3>1
  <2>4. \A n \in 0..Len(s): g[n] = Value(g, n)
    BY <2>2, <2>3 DEF Iterates
  <2> QED BY <2>2, <2>4 DEF Iterates
<1>3. g = [n \in 0..Len(s) |-> Value(g, n)]
  <2> HIDE DEF Value, Q
  <2> QED BY <1>2
<1> DEFINE f == CHOOSE f: f = [n \in 0..Len(s) |-> Value(f, n)]
<1>4. f = [n \in 0..Len(s) |-> Value(f, n)]
  <2> HIDE DEF Value
  <2> QED BY <1>3
<1>5. Those(s, kinds) = f[Len(s)]
  BY DEF Those
<1> HIDE DEF f
<1>6. DOMAIN f = 0..Len(s) /\ \A n \in 0..Len(s): f[n] = Value(f, n)
  <2> HIDE DEF Value
  <2> QED BY <1>4
<1>7. Among(f, s, kinds)
  BY <1>6 DEF Among
<1>8. f \in [0..Len(s) -> Q]
  <2> HIDE DEF Q, Step
  <2> DEFINE M == {m \in Nat: m <= Len(s) => f[m] = g[m]}
  <2>1. 0 \in M
    <3>1. 0 \in 0..Len(s)
      BY <1>1
    <3> QED BY <1>2, <1>6, <3>1
  <2>2. ASSUME NEW m \in M PROVE m + 1 \in M
    <3> SUFFICES ASSUME m + 1 <= Len(s) PROVE f[m + 1] = g[m + 1]
      OBVIOUS
    <3>1. m \in Nat /\ m + 1 \in 0..Len(s) /\ m + 1 # 0 /\ (m + 1) - 1 = m /\ f[m] = g[m]
      BY <1>1
    <3> QED BY <1>2, <1>6, <3>1
  <2>3. M = Nat
    <3> HIDE DEF M
    <3> QED BY <2>1, <2>2, Induction DEF M
  <2>4. \A m \in 0..Len(s): f[m] = g[m]
    <3>1. \A m \in 0..Len(s): m \in M /\ m <= Len(s)
      BY <1>1, <2>3
    <3> QED BY <3>1
  <2> HIDE DEF M, Value
  <2>5. g \in [0..Len(s) -> Q]
    BY <1>2
  <2> QED BY <1>6, <2>4, <2>5
<1> QED BY <1>5, <1>7, <1>8

LEMMA ThoseType ==
  ASSUME NEW J, NEW s \in Seq(J), NEW kinds
  PROVE  Those(s, kinds) \in Seq(J) /\ Those(<<>>, kinds) = <<>>
<1>1. Those(s, kinds) \in Seq(J)
  BY ThoseDefined, LenProperties
<1>2. Those(<<>>, kinds) = <<>>
  <2>1. <<>> \in Seq(J) /\ Len(<<>>) = 0
    OBVIOUS
  <2>2. PICK f: Among(f, <<>>, kinds) /\ Those(<<>>, kinds) = f[Len(<<>>)]
    BY <2>1, ThoseDefined
  <2> QED BY <2>1, <2>2 DEF Among
<1> QED BY <1>1, <1>2

LEMMA ThoseAppend ==
  ASSUME NEW J, NEW s \in Seq(J), NEW j \in J, NEW kinds
  PROVE  Those(Append(s, j), kinds) =
           IF j.kind \in kinds THEN Append(Those(s, kinds), j) ELSE Those(s, kinds)
<1> DEFINE t == Append(s, j)
<1>1. /\ t \in Seq(J) /\ Len(t) = Len(s) + 1 /\ Len(s) \in Nat /\ t[Len(s) + 1] = j
      /\ \A i \in 1..Len(s): t[i] = s[i]
  BY AppendProperties, LenProperties
<1> HIDE DEF t
<1>2. PICK f: Among(f, s, kinds) /\ Those(s, kinds) = f[Len(s)]
  BY ThoseDefined
<1>3. PICK g: Among(g, t, kinds) /\ Those(t, kinds) = g[Len(t)]
  BY <1>1, ThoseDefined
<1> DEFINE N == {n \in Nat: n <= Len(s) => g[n] = f[n]}
<1>4. 0 \in N
  BY <1>1, <1>2, <1>3 DEF Among
<1>5. ASSUME NEW n \in N PROVE n + 1 \in N
  <2> SUFFICES ASSUME n + 1 <= Len(s) PROVE g[n + 1] = f[n + 1]
    OBVIOUS
  <2>1. n + 1 \in 0..Len(s) /\ n + 1 \in 0..Len(t) /\ n + 1 # 0 /\ (n + 1) - 1 = n /\ g[n] = f[n] /\ t[n + 1] = s[n + 1]
    BY <1>1
  <2>2. f[n + 1] = IF s[n + 1].kind \in kinds THEN Append(f[n], s[n + 1]) ELSE f[n]
    BY <1>2, <2>1 DEF Among
  <2>3. g[n + 1] = IF t[n + 1].kind \in kinds THEN Append(g[n], t[n + 1]) ELSE g[n]
    BY <1>3, <2>1 DEF Among
  <2> QED BY <2>1, <2>2, <2>3
<1>6. g[Len(s)] = f[Len(s)]
  <2> HIDE DEF N
  <2>1. N = Nat
    BY <1>4, <1>5, Induction DEF N
  <2> QED BY <1>1, <2>1 DEF N
<1>7. g[Len(t)] = IF j.kind \in kinds THEN Append(g[Len(s)], j) ELSE g[Len(s)]
  <2>1. Len(t) \in 0..Len(t) /\ Len(t) # 0 /\ Len(t) - 1 = Len(s) /\ t[Len(t)] = j
    BY <1>1
  <2> QED BY <1>3, <2>1 DEF Among
<1> QED BY <1>2, <1>3, <1>6, <1>7 DEF t

LEMMA ThoseConcat ==
  ASSUME NEW J, NEW s \in Seq(J), NEW t \in Seq(J), NEW kinds
  PROVE  Those(s \o t, kinds) = Those(s, kinds) \o Those(t, kinds)
<1> DEFINE T == {u \in Seq(J): Those(s \o u, kinds) = Those(s, kinds) \o Those(u, kinds)}
<1>1. <<>> \in T
  <2>1. s \o <<>> = s /\ Those(<<>>, kinds) = <<>> /\ Those(s, kinds) \in Seq(J)
    BY ThoseType, ConcatEmptySeq
  <2>2. Those(s, kinds) \o <<>> = Those(s, kinds)
    BY <2>1, ConcatEmptySeq
  <2> QED BY <2>1, <2>2
<1>2. ASSUME NEW u \in T, NEW j \in J PROVE Append(u, j) \in T
  <2>1. /\ u \in Seq(J) /\ s \o u \in Seq(J) /\ Append(u, j) \in Seq(J)
        /\ Those(s, kinds) \in Seq(J) /\ Those(u, kinds) \in Seq(J)
    BY ThoseType, ConcatProperties, AppendProperties
  <2>2. s \o Append(u, j) = Append(s \o u, j)
    BY <2>1, AppendOfConcat
  <2>3. Those(s, kinds) \o Append(Those(u, kinds), j) = Append(Those(s, kinds) \o Those(u, kinds), j)
    BY <2>1, AppendOfConcat
  <2>4. Those(s \o u, kinds) = Those(s, kinds) \o Those(u, kinds)
    OBVIOUS
  <2> HIDE DEF T
  <2>5. Those(Append(s \o u, j), kinds) =
          IF j.kind \in kinds THEN Append(Those(s \o u, kinds), j) ELSE Those(s \o u, kinds)
    BY <2>1, ThoseAppend
  <2>6. Those(Append(u, j), kinds) = IF j.kind \in kinds THEN Append(Those(u, kinds), j) ELSE Those(u, kinds)
    BY <2>1, ThoseAppend
  <2>7. Those(s \o Append(u, j), kinds) = Those(s, kinds) \o Those(Append(u, j), kinds)
    BY <2>2, <2>3, <2>4, <2>5, <2>6
  <2> QED BY <2>1, <2>7 DEF T
<1>3. T = Seq(J)
  <2>1. T \in SUBSET Seq(J)
    OBVIOUS
  <2> HIDE DEF T
  <2> QED BY <1>1, <1>2, <2>1, SequenceInduction
<1> QED BY <1>3

\* They are those elements, and as different as they were.
LEMMA ThoseElements ==
  ASSUME NEW J, NEW s \in Seq(J), NEW kinds
  PROVE  /\ ToSet(Those(s, kinds)) = {j \in ToSet(s): j.kind \in kinds}
         /\ IsInjective(s) => IsInjective(Those(s, kinds))
<1> DEFINE T == {u \in Seq(J): /\ ToSet(Those(u, kinds)) = {j \in ToSet(u): j.kind \in kinds}
                               /\ IsInjective(u) => IsInjective(Those(u, kinds))}
<1>1. <<>> \in T
  <2>1. Those(<<>>, kinds) = <<>> /\ <<>> \in Seq(J)
    BY ThoseType
  <2>2. ToSet(<<>>) = {} /\ IsInjective(<<>>)
    BY DEF ToSet, IsInjective
  <2> QED BY <2>1, <2>2
<1>2. ASSUME NEW u \in T, NEW j \in J PROVE Append(u, j) \in T
  <2>1. u \in Seq(J) /\ Append(u, j) \in Seq(J) /\ Those(u, kinds) \in Seq(J)
    BY ThoseType, AppendProperties
  <2>2. /\ ToSet(Append(u, j)) = ToSet(u) \cup {j}
        /\ IsInjective(Append(u, j)) <=> IsInjective(u) /\ j \notin ToSet(u)
    BY <2>1, AppendOnce
  <2>3. /\ ToSet(Append(Those(u, kinds), j)) = ToSet(Those(u, kinds)) \cup {j}
        /\ IsInjective(Append(Those(u, kinds), j)) <=>
             IsInjective(Those(u, kinds)) /\ j \notin ToSet(Those(u, kinds))
    BY <2>1, AppendOnce
  <2>4. Those(Append(u, j), kinds) = IF j.kind \in kinds THEN Append(Those(u, kinds), j) ELSE Those(u, kinds)
    BY <2>1, ThoseAppend
  <2>5. /\ ToSet(Those(u, kinds)) = {k \in ToSet(u): k.kind \in kinds}
        /\ IsInjective(u) => IsInjective(Those(u, kinds))
    OBVIOUS
  <2> HIDE DEF T
  <2>6. ToSet(Those(Append(u, j), kinds)) = {k \in ToSet(Append(u, j)): k.kind \in kinds}
    BY <2>2, <2>3, <2>4, <2>5
  <2>7. IsInjective(Append(u, j)) => IsInjective(Those(Append(u, j), kinds))
    BY <2>2, <2>3, <2>4, <2>5
  <2> QED BY <2>1, <2>6, <2>7 DEF T
<1>3. T = Seq(J)
  <2>1. T \in SUBSET Seq(J)
    OBVIOUS
  <2> HIDE DEF T
  <2> QED BY <1>1, <1>2, <2>1, SequenceInduction
<1> QED BY <1>3

-----------------------------------------------------------------------------
(* What the tasks of one kind are about.                                   *)

\* The field "of" of each, in order.
About(s) == [i \in DOMAIN s |-> s[i].of]
AboutIn(s, K) == \A j \in ToSet(s): j.of \in K
\* A list of tasks, those of a kind about members of K.
Lists(s, J, kind, K) == s \in Seq(J) /\ \A j \in J: j.kind = kind => j.of \in K

LEMMA AboutType ==
  ASSUME NEW J, NEW K, NEW s \in Seq(J), AboutIn(s, K)
  PROVE  About(s) \in Seq(K) /\ Len(About(s)) = Len(s)
<1>1. DOMAIN s = 1..Len(s) /\ Len(s) \in Nat
  BY LenProperties
<1>2. About(s) \in [1..Len(s) -> K]
  BY <1>1 DEF About, AboutIn, ToSet
<1> QED BY <1>1, <1>2

LEMMA AboutConcat ==
  ASSUME NEW J, NEW K, NEW s \in Seq(J), NEW t \in Seq(J), AboutIn(s, K), AboutIn(t, K)
  PROVE  About(s \o t) = About(s) \o About(t)
<1>1. s \o t \in Seq(J) /\ Len(s \o t) = Len(s) + Len(t) /\ Len(s) \in Nat /\ Len(t) \in Nat
  BY ConcatProperties, LenProperties
<1>2. AboutIn(s \o t, K)
  BY ConcatElements DEF AboutIn
<1>3. /\ About(s \o t) \in Seq(K) /\ Len(About(s \o t)) = Len(s) + Len(t)
      /\ About(s) \in Seq(K) /\ Len(About(s)) = Len(s) /\ About(t) \in Seq(K) /\ Len(About(t)) = Len(t)
  BY <1>1, <1>2, AboutType
<1>4. About(s) \o About(t) \in Seq(K) /\ Len(About(s) \o About(t)) = Len(s) + Len(t)
  <2> DEFINE a == About(s)
             b == About(t)
  <2>1. a \in Seq(K) /\ b \in Seq(K)
    BY <1>3
  <2> HIDE DEF a, b
  <2>2. a \o b \in Seq(K) /\ Len(a \o b) = Len(a) + Len(b)
    BY ONLY <2>1, ConcatProperties
  <2> QED BY <1>3, <2>2 DEF a, b
<1>5. ASSUME NEW i \in 1..(Len(s) + Len(t)) PROVE About(s \o t)[i] = (About(s) \o About(t))[i]
  <2>1. /\ About(s \o t)[i] = (s \o t)[i].of
        /\ (s \o t)[i] = IF i <= Len(s) THEN s[i] ELSE t[i - Len(s)]
        /\ (About(s) \o About(t))[i] =
             IF i <= Len(s) THEN About(s)[i] ELSE About(t)[i - Len(s)]
    <3>1. DOMAIN (s \o t) = 1..(Len(s) + Len(t))
      BY <1>1, LenProperties
    <3>2. (s \o t)[i] = IF i <= Len(s) THEN s[i] ELSE t[i - Len(s)]
      BY <1>1, ConcatProperties
    <3>3. (About(s) \o About(t))[i] = IF i <= Len(About(s)) THEN About(s)[i] ELSE About(t)[i - Len(About(s))]
      <4> DEFINE a == About(s)
                 b == About(t)
      <4> HIDE DEF a, b
      <4>1. a \in Seq(K) /\ b \in Seq(K) /\ Len(a) = Len(s) /\ Len(b) = Len(t)
        BY <1>3 DEF a, b
      <4>2. \A n \in 1..(Len(a) + Len(b)): (a \o b)[n] = IF n <= Len(a) THEN a[n] ELSE b[n - Len(a)]
        <5>1. a \in Seq(K) /\ b \in Seq(K)
          BY <4>1
        <5> QED BY <5>1, ConcatProperties
      <4>3. i \in 1..(Len(a) + Len(b))
        BY <4>1
      <4>4. (a \o b)[i] = IF i <= Len(a) THEN a[i] ELSE b[i - Len(a)]
        BY <4>2, <4>3
      <4> QED BY <4>4 DEF a, b
    <3> QED BY <1>3, <3>1, <3>2, <3>3 DEF About
  <2>2. DOMAIN s = 1..Len(s) /\ DOMAIN t = 1..Len(t)
    BY LenProperties
  <2> QED BY <1>1, <2>1, <2>2 DEF About
<1> QED BY <1>1, <1>3, <1>4, <1>5, SeqEqual

LEMMA AboutElements ==
  ASSUME NEW s
  PROVE  /\ ToSet(About(s)) = {j.of: j \in ToSet(s)}
         /\ IsInjective(s) /\ (\A i, j \in ToSet(s): i.of = j.of => i = j) => IsInjective(About(s))
BY DEF About, ToSet, IsInjective

LEMMA OfType ==
  ASSUME NEW J, NEW K, NEW s, NEW kind, Lists(s, J, kind, K)
  PROVE  /\ Of(s, kind) = About(Those(s, {kind}))
         /\ Those(s, {kind}) \in Seq(J) /\ AboutIn(Those(s, {kind}), K)
         /\ Of(s, kind) \in Seq(K)
<1>0. s \in Seq(J)
  BY DEF Lists
<1>1. Of(s, kind) = About(Those(s, {kind}))
  BY DEF Of, About
<1>2. Those(s, {kind}) \in Seq(J)
  BY <1>0, ThoseType
<1>3. ToSet(s) \subseteq J
  BY <1>0, ElementOfSeq, LenProperties DEF ToSet
<1>4. AboutIn(Those(s, {kind}), K)
  BY <1>0, <1>3, ThoseElements DEF AboutIn, Lists
<1>5. About(Those(s, {kind})) \in Seq(K)
  BY <1>2, <1>4, AboutType
<1> QED BY <1>1, <1>2, <1>4, <1>5

LEMMA OfNothing ==
  ASSUME NEW kind PROVE Of(<<>>, kind) = <<>>
<1>1. <<>> \in Seq({})
  OBVIOUS
<1>2. Those(<<>>, {kind}) = <<>>
  BY <1>1, ThoseType
<1> QED BY <1>2, EmptySeq, LenProperties DEF Of

LEMMA OfConcat ==
  ASSUME NEW J, NEW K, NEW s, NEW t, NEW kind, Lists(s, J, kind, K), Lists(t, J, kind, K)
  PROVE  Of(s \o t, kind) = Of(s, kind) \o Of(t, kind)
<1> DEFINE a == Those(s, {kind})
           b == Those(t, {kind})
<1>1. /\ a \in Seq(J) /\ AboutIn(a, K) /\ Of(s, kind) = About(a)
      /\ b \in Seq(J) /\ AboutIn(b, K) /\ Of(t, kind) = About(b)
  <2>1. a \in Seq(J) /\ AboutIn(a, K) /\ Of(s, kind) = About(a)
    BY OfType
  <2>2. b \in Seq(J) /\ AboutIn(b, K) /\ Of(t, kind) = About(b)
    BY OfType
  <2> QED BY <2>1, <2>2
<1>2. Those(s \o t, {kind}) = a \o b
  BY ThoseConcat DEF Lists
<1>3. Of(s \o t, kind) = About(Those(s \o t, {kind}))
  BY DEF Of, About
<1> HIDE DEF a, b
<1>4. About(a \o b) = About(a) \o About(b)
  BY <1>1, AboutConcat
<1> QED BY <1>1, <1>2, <1>3, <1>4

\* What a task that is added, or taken, does to the list of a kind.
Added(s, j, kind) ==
  /\ j.kind = kind => Of(Append(s, j), kind) = Append(Of(s, kind), j.of)
  /\ j.kind # kind => Of(Append(s, j), kind) = Of(s, kind)
Taken(s, kind) ==
  /\ Head(s).kind = kind => Of(s, kind) = <<Head(s).of>> \o Of(Tail(s), kind)
  /\ Head(s).kind # kind => Of(s, kind) = Of(Tail(s), kind)

LEMMA OfAppend ==
  ASSUME NEW J, NEW K, NEW s, NEW j \in J, NEW kind, Lists(s, J, kind, K)
  PROVE  Added(s, j, kind)
<1>1. Those(Append(s, j), {kind}) = IF j.kind = kind THEN Append(Those(s, {kind}), j) ELSE Those(s, {kind})
  <2>1. s \in Seq(J)
    BY DEF Lists
  <2> QED BY <2>1, ThoseAppend
<1> DEFINE r == Those(s, {kind})
<1>2. /\ r \in Seq(J) /\ AboutIn(r, K)
      /\ Of(s, kind) = About(r) /\ Of(Append(s, j), kind) = About(Those(Append(s, j), {kind}))
  BY OfType DEF Of, About
<1> HIDE DEF r
<1>3. ASSUME j.kind = kind PROVE About(Append(r, j)) = Append(About(r), j.of)
  <2>1. <<j>> \in Seq(J) /\ ToSet(<<j>>) = {j} /\ Append(r, j) = r \o <<j>> /\ About(<<j>>) = <<j.of>>
    BY <1>2, AppendIsConcat DEF ToSet, About
  <2>2. AboutIn(<<j>>, K) /\ j.of \in K
    BY <1>3, <2>1 DEF AboutIn, Lists
  <2>3. About(r \o <<j>>) = About(r) \o About(<<j>>)
    BY <1>2, <2>1, <2>2, AboutConcat
  <2>4. About(r) \in Seq(K) /\ j.of \in K
    BY <1>2, <2>2, AboutType
  <2> QED BY <2>1, <2>3, <2>4, AppendIsConcat
<1> QED BY <1>1, <1>2, <1>3 DEF r, Added

\* The first task out of a queue.
LEMMA OfHead ==
  ASSUME NEW J, NEW K, NEW s, s # <<>>, NEW kind, Lists(s, J, kind, K)
  PROVE  Taken(s, kind)
<1>1. Head(s) \in J /\ Tail(s) \in Seq(J) /\ s = <<Head(s)>> \o Tail(s) /\ <<Head(s)>> \in Seq(J)
  <2>1. s \in Seq(J)
    BY DEF Lists
  <2> QED BY <2>1, HeadTailProperties
<1> DEFINE h == Head(s)
           t == Tail(s)
           g == <<Head(s)>>
           nil == <<>>
<1> HIDE DEF h, t, g, nil
<1>2. h \in J /\ t \in Seq(J) /\ g \in Seq(J) /\ s = g \o t
  BY <1>1 DEF h, t, g
<1>3. /\ Lists(g, J, kind, K) /\ Lists(t, J, kind, K) /\ Lists(nil, J, kind, K)
  BY <1>2, EmptySeq DEF Lists, nil
<1>7. Of(s, kind) = Of(g, kind) \o Of(t, kind)
  BY <1>2, <1>3, OfConcat
<1>4. Of(g, kind) = IF h.kind = kind THEN <<h.of>> ELSE <<>>
  <2>1. Append(nil, h) = g /\ Append(nil, h.of) = <<h.of>>
    BY DEF nil, h, g
  <2>2. Added(nil, h, kind)
    <3>1. h \in J /\ Lists(nil, J, kind, K)
      BY <1>2, <1>3
    <3> HIDE DEF h
    <3> QED BY ONLY <3>1, OfAppend
  <2>3. Of(nil, kind) = nil
    BY OfNothing DEF nil
  <2> QED BY <2>1, <2>2, <2>3 DEF nil, Added
<1>5. Of(t, kind) \in Seq(K)
  BY <1>3, OfType
<1>6. <<>> \o Of(t, kind) = Of(t, kind)
  BY <1>5, ConcatEmptySeq
<1> QED BY <1>7, <1>4, <1>6 DEF h, t, Taken

LEMMA OfElements ==
  ASSUME NEW J, NEW s \in Seq(J), NEW kind
  PROVE  /\ ToSet(Of(s, kind)) = {j.of: j \in {i \in ToSet(s): i.kind = kind}}
         /\ Of(s, kind) = <<>> <=> \A j \in ToSet(s): j.kind # kind
         /\ IsInjective(s) /\ (\A i, j \in J: i.kind = j.kind /\ i.of = j.of => i = j) => IsInjective(Of(s, kind))
<1>1. Of(s, kind) = About(Those(s, {kind}))
  BY DEF Of, About
<1>2. ToSet(Those(s, {kind})) = {j \in ToSet(s): j.kind = kind} /\ (IsInjective(s) => IsInjective(Those(s, {kind})))
  BY ThoseElements
<1>3. ToSet(s) \subseteq J
  BY ElementOfSeq, LenProperties DEF ToSet
<1>4. ToSet(Of(s, kind)) = {j.of: j \in {i \in ToSet(s): i.kind = kind}}
  BY <1>1, <1>2, AboutElements
<1>5. IsInjective(s) /\ (\A i, j \in J: i.kind = j.kind /\ i.of = j.of => i = j) => IsInjective(Of(s, kind))
  BY <1>1, <1>2, <1>3, AboutElements
<1>6. Of(s, kind) = <<>> <=> Those(s, {kind}) = <<>>
  <2>1. Those(s, {kind}) \in Seq(J)
    BY ThoseType
  <2>2. DOMAIN Of(s, kind) = DOMAIN Those(s, {kind})
    BY <1>1 DEF About
  <2>3. Of(s, kind) \in Seq({j.of: j \in J})
    <3>1. Lists(s, J, kind, {j.of: j \in J})
      BY DEF Lists
    <3> QED BY <3>1, OfType
  <2> QED BY <2>1, <2>2, <2>3, EmptySeq, LenProperties
<1>7. Those(s, {kind}) = <<>> <=> ToSet(Those(s, {kind})) = {}
  <2>1. Those(s, {kind}) \in Seq(J)
    BY ThoseType
  <2> DEFINE r == Those(s, {kind})
  <2>2. r \in Seq(J)
    BY <2>1
  <2> HIDE DEF r
  <2>3. r = <<>> <=> ToSet(r) = {}
    <3>1. DOMAIN r = 1..Len(r) /\ Len(r) \in Nat /\ (r # <<>> => Len(r) \in Nat \ {0}) /\ Len(<<>>) = 0
      BY <2>2, EmptySeq, LenProperties
    <3>2. ASSUME r = <<>> PROVE ToSet(r) = {}
      <4>1. DOMAIN r = {}
        BY <3>1, <3>2
      <4> QED BY <4>1 DEF ToSet
    <3>3. ASSUME r # <<>> PROVE ToSet(r) # {}
      <4>1. 1 \in DOMAIN r
        BY <3>1, <3>3
      <4> QED BY <4>1 DEF ToSet
    <3> QED BY <3>2, <3>3
  <2> QED BY <2>3 DEF r
<1>8. ToSet(Those(s, {kind})) = {} <=> \A j \in ToSet(s): j.kind # kind
  BY <1>2
<1> QED BY <1>4, <1>5, <1>6, <1>7, <1>8

-----------------------------------------------------------------------------
(* What the helpers raise.                                                 *)

\* A sequence without repetition as long as a finite set of its elements has
\* members has them all.
LEMMA Enumerates ==
  ASSUME NEW S, IsFiniteSet(S), NEW f \in [1..Cardinality(S) -> S], IsInjective(f)
  PROVE  f \in Seq(S) /\ ToSet(f) = S
<1>1. Cardinality(S) \in Nat
  BY FS_CardinalityType
<1> DEFINE n == Cardinality(S)
           R == ToSet(f)
<1>2. n \in Nat /\ R \subseteq S /\ DOMAIN f = 1..n
  BY <1>1 DEF ToSet
<1>3. f \in Bijection(1..n, R)
  <2>1. f \in [1..n -> R]
    BY <1>2 DEF ToSet
  <2>2. \A r \in R: \E i \in 1..n: f[i] = r
    BY <1>2 DEF ToSet
  <2> HIDE DEF n, R
  <2> QED BY <1>2, <2>1, <2>2 DEF Bijection, Injection, Surjection, IsInjective
<1>4. ExistsBijection(1..n, R)
  BY <1>3 DEF ExistsBijection
<1> HIDE DEF n, R
<1>5. IsFiniteSet(1..n) /\ Cardinality(1..n) = n
  BY <1>2, FS_Interval
<1>6. Cardinality(R) = n
  BY <1>4, <1>5, FS_Bijection
<1>7. R = S
  BY <1>2, <1>6, FS_Subset DEF n
<1>8. f \in Seq(S)
  BY <1>1
<1> QED BY <1>7, <1>8 DEF R

LEMMA SetToSeqRight ==
  ASSUME NEW S, IsFiniteSet(S)
  PROVE  SetToSeq(S) \in Seq(S) /\ IsInjective(SetToSeq(S)) /\ ToSet(SetToSeq(S)) = S
<1>1. ExistsBijection(1..Cardinality(S), S)
  BY FS_CardinalityType
<1>2. \E f \in [1..Cardinality(S) -> S]: IsInjective(f)
  BY <1>1 DEF ExistsBijection, Bijection, Injection, IsInjective
<1>3. SetToSeq(S) \in [1..Cardinality(S) -> S] /\ IsInjective(SetToSeq(S))
  BY <1>2 DEF SetToSeq
<1> QED BY <1>3, Enumerates

\* The members of S have keys, and different ones.
Keyed(S) == \A s \in S: s.key \in Nat /\ \A t \in S: s.key = t.key => s = t
Sorted(s) == \A i, j \in DOMAIN s: i < j => s[i].key < s[j].key

LEMMA SortedExists ==
  ASSUME NEW U, IsFiniteSet(U), Keyed(U)
  PROVE  \A S \in SUBSET U: \E s \in [1..Cardinality(S) -> S]: Sorted(s)
<1> DEFINE Has(S) == \E s \in [1..Cardinality(S) -> S]: Sorted(s)
           N == {n \in Nat: \A S \in SUBSET U: Cardinality(S) = n => Has(S)}
<1>1. \A S \in SUBSET U: IsFiniteSet(S) /\ Cardinality(S) \in Nat
  BY FS_Subset, FS_CardinalityType
<1>2. 0 \in N
  <2> SUFFICES ASSUME NEW S \in SUBSET U, Cardinality(S) = 0 PROVE Has(S)
    OBVIOUS
  <2>1. [i \in 1..0 |-> i] \in [1..Cardinality(S) -> S] /\ Sorted([i \in 1..0 |-> i])
    BY DEF Sorted
  <2> QED BY <2>1
<1>3. ASSUME NEW n \in N PROVE n + 1 \in N
  <2> SUFFICES ASSUME NEW S \in SUBSET U, Cardinality(S) = n + 1 PROVE Has(S)
    OBVIOUS
  <2>1. n \in Nat /\ S # {}
    <3>1. n \in Nat /\ n + 1 # 0 /\ Cardinality({}) = 0
      BY FS_EmptySet
    <3> QED BY <3>1
  <2> DEFINE Keys == {t.key: t \in S}
  <2>2. Keys \in SUBSET Nat /\ Keys # {}
    BY <2>1 DEF Keyed
  <2>3. PICK k \in Keys: \A l \in Keys: k <= l
    BY <2>2, LeastNat
  <2>4. PICK m \in S: m.key = k
    OBVIOUS
  <2>5. ASSUME NEW t \in S \ {m} PROVE m.key \in Nat /\ t.key \in Nat /\ m.key < t.key
    <3>1. m.key \in Nat /\ t.key \in Nat /\ m.key # t.key
      BY DEF Keyed
    <3>2. m.key <= t.key
      BY <2>3, <2>4
    <3> QED BY <3>1, <3>2
  <2>6. S \ {m} \in SUBSET U /\ Cardinality(S \ {m}) = n
    BY <1>1, <2>1, FS_RemoveElement
  <2> DEFINE V == S \ {m}
  <2>7. Has(V)
    BY <2>6
  <2>8. PICK r \in [1..n -> V]: Sorted(r)
    BY <2>6, <2>7
  <2> DEFINE s == [i \in 1..(n + 1) |-> IF i = 1 THEN m ELSE r[i - 1]]
  <2>9. s \in [1..(n + 1) -> S]
    BY <2>1, <2>8
  <2>10. Sorted(s)
    <3> SUFFICES ASSUME NEW i \in 1..(n + 1), NEW j \in 1..(n + 1), i < j PROVE s[i].key < s[j].key
      BY DEF Sorted
    <3>1. j # 1 /\ s[j] = r[j - 1] /\ j - 1 \in 1..n /\ r[j - 1] \in V
      BY <2>1, <2>8
    <3>2. CASE i = 1
      BY <2>5, <3>1, <3>2
    <3>3. CASE i # 1
      <4>1. s[i] = r[i - 1] /\ i - 1 \in 1..n /\ i - 1 < j - 1 /\ DOMAIN r = 1..n
        BY <2>1, <2>8, <3>3
      <4> QED BY <2>8, <3>1, <4>1 DEF Sorted
    <3> QED BY <3>2, <3>3
  <2> HIDE DEF s
  <2> QED BY <2>9, <2>10
<1>4. N = Nat
  <2> HIDE DEF N
  <2> QED BY <1>2, <1>3, Induction DEF N
<1> QED BY <1>1, <1>4

LEMMA ByKeyRight ==
  ASSUME NEW S, IsFiniteSet(S), Keyed(S)
  PROVE  ByKey(S) \in Seq(S) /\ IsInjective(ByKey(S)) /\ ToSet(ByKey(S)) = S
<1>1. \E s \in [1..Cardinality(S) -> S]: Sorted(s)
  BY SortedExists
<1>2. ByKey(S) \in [1..Cardinality(S) -> S] /\ Sorted(ByKey(S))
  BY <1>1 DEF ByKey, Sorted
<1> DEFINE f == ByKey(S)
<1>3. f \in [1..Cardinality(S) -> S] /\ Sorted(f) /\ DOMAIN f = 1..Cardinality(S) /\ Cardinality(S) \in Nat
  BY <1>2, FS_CardinalityType
<1> HIDE DEF f
<1>4. ASSUME NEW i \in DOMAIN f, NEW j \in DOMAIN f, i < j PROVE f[i] # f[j]
  <2>1. f[i].key < f[j].key /\ f[i] \in S /\ f[i].key \in Nat
    BY <1>3, <1>4 DEF Sorted, Keyed
  <2> QED BY <2>1
<1>5. IsInjective(f)
  <2> SUFFICES ASSUME NEW i \in DOMAIN f, NEW j \in DOMAIN f, f[i] = f[j] PROVE i = j
    BY DEF IsInjective
  <2>1. i \in Nat /\ j \in Nat
    BY <1>3
  <2>2. ~(i < j) /\ ~(j < i)
    BY <1>4
  <2> QED BY <2>1, <2>2
<1>6. f \in Seq(S) /\ ToSet(f) = S
  BY <1>3, <1>5, Enumerates
<1> QED BY <1>5, <1>6 DEF f

LEMMA ThoseAll ==
  ASSUME NEW J, NEW kinds, \A j \in J: j.kind \in kinds
  PROVE  \A s \in Seq(J): Those(s, kinds) = s
<1> DEFINE T == {s \in Seq(J): Those(s, kinds) = s}
<1>1. <<>> \in T
  <2>1. <<>> \in Seq(J)
    OBVIOUS
  <2> QED BY <2>1, ThoseType
<1>2. ASSUME NEW s \in T, NEW j \in J PROVE Append(s, j) \in T
  <2>1. s \in Seq(J) /\ Those(s, kinds) = s /\ j.kind \in kinds
    OBVIOUS
  <2>2. Append(s, j) \in Seq(J)
    BY <2>1
  <2>3. Those(Append(s, j), kinds) = Append(Those(s, kinds), j)
    BY <2>1, ThoseAppend
  <2> QED BY <2>1, <2>2, <2>3
<1>3. T = Seq(J)
  <2>1. T \in SUBSET Seq(J)
    OBVIOUS
  <2> HIDE DEF T
  <2> QED BY <1>1, <1>2, <2>1, SequenceInduction
<1> QED BY <1>3

LEMMA RaiseOf ==
  ASSUME NEW K, NEW list \in Seq(K), NEW kind
  PROVE  /\ Raise(kind, list) \in Seq([kind: {kind}, of: K])
         /\ Len(Raise(kind, list)) = Len(list)
         /\ Of(Raise(kind, list), kind) = list
         /\ \A other: other # kind => Of(Raise(kind, list), other) = <<>>
<1> DEFINE J == [kind: {kind}, of: K]
           r == Raise(kind, list)
<1>1. DOMAIN list = 1..Len(list) /\ Len(list) \in Nat /\ \A i \in 1..Len(list): list[i] \in K
  BY LenProperties, ElementOfSeq
<1>2. DOMAIN r = 1..Len(list) /\ \A i \in 1..Len(list): r[i] = Task(kind, list[i])
  BY <1>1 DEF Raise
<1>3. r \in [1..Len(list) -> J]
  BY <1>1 DEF Raise, Task
<1>4. \A j \in J: j.kind = kind
  OBVIOUS
<1>5. \A i \in 1..Len(list): r[i].of = list[i]
  BY <1>2 DEF Task
<1> HIDE DEF r, J
<1>6. r \in Seq(J) /\ Len(r) = Len(list)
  BY <1>1, <1>3
<1>7. Those(r, {kind}) = r
  <2>1. \A j \in J: j.kind \in {kind}
    BY <1>4
  <2> QED BY <1>6, <2>1, ThoseAll
<1>8. Of(r, kind) = list
  <2>1. Of(r, kind) = [i \in DOMAIN r |-> r[i].of]
    BY <1>7 DEF Of
  <2> QED BY <1>1, <1>2, <1>5, <2>1
<1>9. ASSUME NEW other, other # kind PROVE Of(r, other) = <<>>
  <2>1. \A j \in ToSet(r): j.kind # other
    BY <1>2, <1>9 DEF Task, ToSet
  <2> QED BY <1>6, <2>1, OfElements
<1> QED BY <1>6, <1>8, <1>9 DEF r, J

-----------------------------------------------------------------------------
(* A conversation, the answers and the requests behind it.                 *)

\* What they hold together, and that it is all different, from what each holds.
Together(M, A, B, C) ==
  /\ ToSet(M \o ((A \o B) \o C)) = ToSet(M) \cup ToSet(A) \cup ToSet(B) \cup ToSet(C)
  /\ IsInjective(M \o ((A \o B) \o C)) <=>
       /\ IsInjective(M) /\ IsInjective(A) /\ IsInjective(B) /\ IsInjective(C)
       /\ ToSet(M) \cap (ToSet(A) \cup ToSet(B) \cup ToSet(C)) = {}
       /\ ToSet(A) \cap (ToSet(B) \cup ToSet(C)) = {} /\ ToSet(B) \cap ToSet(C) = {}

LEMMA FourOnce ==
  ASSUME NEW S, NEW M \in Seq(S), NEW A \in Seq(S), NEW B \in Seq(S), NEW C \in Seq(S)
  PROVE  Together(M, A, B, C)
<1> DEFINE D == A \o B
           E == D \o C
<1>1. D \in Seq(S)
  BY ConcatProperties
<1>2. ToSet(D) = ToSet(A) \cup ToSet(B)
  BY ConcatElements
<1>3. IsInjective(D) <=> IsInjective(A) /\ IsInjective(B) /\ ToSet(A) \cap ToSet(B) = {}
  BY ConcatOnce
<1> HIDE DEF D
<1>4. E \in Seq(S)
  BY ONLY <1>1, C \in Seq(S), ConcatProperties
<1>5. ToSet(E) = ToSet(D) \cup ToSet(C)
  BY ONLY <1>1, C \in Seq(S), ConcatElements
<1>6. IsInjective(E) <=> IsInjective(D) /\ IsInjective(C) /\ ToSet(D) \cap ToSet(C) = {}
  BY ONLY <1>1, C \in Seq(S), ConcatOnce
<1> HIDE DEF E
<1>7. ToSet(M \o E) = ToSet(M) \cup ToSet(E)
  BY ONLY <1>4, M \in Seq(S), ConcatElements
<1>8. IsInjective(M \o E) <=> IsInjective(M) /\ IsInjective(E) /\ ToSet(M) \cap ToSet(E) = {}
  BY ONLY <1>4, M \in Seq(S), ConcatOnce
<1>9. ToSet(M \o E) = ToSet(M) \cup ToSet(A) \cup ToSet(B) \cup ToSet(C)
  BY <1>2, <1>5, <1>7
<1>10. IsInjective(M \o E) <=>
         /\ IsInjective(M) /\ IsInjective(A) /\ IsInjective(B) /\ IsInjective(C)
         /\ ToSet(M) \cap (ToSet(A) \cup ToSet(B) \cup ToSet(C)) = {}
         /\ ToSet(A) \cap (ToSet(B) \cup ToSet(C)) = {} /\ ToSet(B) \cap ToSet(C) = {}
  BY <1>2, <1>3, <1>5, <1>6, <1>8
<1> QED BY <1>9, <1>10 DEF D, E, Together

Regroups(a, b, c) == (a \o b) \o c = a \o (b \o c)

LEMMA Regrouping ==
  ASSUME NEW S, NEW a \in Seq(S), NEW b \in Seq(S), NEW c \in Seq(S) PROVE Regroups(a, b, c)
BY ConcatAssociative DEF Regroups

\* A text that goes from one list to the next stays where it is among them all.
Passes(M, A, B, C, x) ==
  /\ (A \o Append(B, x)) \o C = (A \o B) \o (<<x>> \o C)
  /\ Append(A, x) \o B = A \o (<<x>> \o B)
  /\ Append(M, x) \o ((A \o B) \o C) = M \o (((<<x>> \o A) \o B) \o C)
  /\ M \o ((A \o B) \o Append(C, x)) = Append(M \o ((A \o B) \o C), x)

LEMMA Advances ==
  ASSUME NEW S, NEW M \in Seq(S), NEW A \in Seq(S), NEW B \in Seq(S), NEW C \in Seq(S), NEW x \in S
  PROVE  Passes(M, A, B, C, x)
<1> DEFINE X == <<x>>
           D == A \o B
           E == D \o C
           F == X \o A
<1>1. /\ Append(A, x) = A \o X /\ Append(B, x) = B \o X /\ Append(M, x) = M \o X
  <2>1. Append(A, x) = A \o X
    BY AppendIsConcat
  <2>2. Append(B, x) = B \o X
    BY AppendIsConcat
  <2>3. Append(M, x) = M \o X
    BY AppendIsConcat
  <2> QED BY <2>1, <2>2, <2>3
<1>2. X \in Seq(S)
  OBVIOUS
<1> HIDE DEF X
<1>3. D \in Seq(S)
  BY ONLY A \in Seq(S), B \in Seq(S), ConcatProperties
<1>4. A \o (B \o X) = D \o X
  <2>1. Regroups(A, B, X)
    BY ONLY <1>2, A \in Seq(S), B \in Seq(S), Regrouping
  <2> QED BY <2>1 DEF Regroups
<1>5. Regroups(A, X, B)
  BY ONLY <1>2, A \in Seq(S), B \in Seq(S), Regrouping
<1>6. F \o B = X \o D
  <2>1. Regroups(X, A, B)
    BY ONLY <1>2, A \in Seq(S), B \in Seq(S), Regrouping
  <2> QED BY <2>1 DEF Regroups
<1> HIDE DEF D, F
<1>7. E \in Seq(S)
  BY ONLY <1>3, C \in Seq(S), ConcatProperties
<1>8. Regroups(D, X, C)
  BY ONLY <1>2, <1>3, C \in Seq(S), Regrouping
<1>9. Regroups(X, D, C)
  BY ONLY <1>2, <1>3, C \in Seq(S), Regrouping
<1>10. D \o Append(C, x) = Append(E, x)
  BY ONLY <1>3, C \in Seq(S), x \in S, AppendOfConcat
<1> HIDE DEF E
<1>11. Regroups(M, X, E)
  BY ONLY <1>2, <1>7, M \in Seq(S), Regrouping
<1>12. M \o Append(E, x) = Append(M \o E, x)
  BY ONLY <1>7, M \in Seq(S), x \in S, AppendOfConcat
<1>13. (A \o Append(B, x)) \o C = (A \o B) \o (<<x>> \o C)
  BY <1>1, <1>4, <1>8 DEF D, X, Regroups
<1>14. Append(A, x) \o B = A \o (<<x>> \o B)
  BY <1>1, <1>5 DEF X, Regroups
<1>15. Append(M, x) \o ((A \o B) \o C) = M \o (((<<x>> \o A) \o B) \o C)
  BY <1>1, <1>6, <1>9, <1>11 DEF D, E, F, X, Regroups
<1>16. M \o ((A \o B) \o Append(C, x)) = Append(M \o ((A \o B) \o C), x)
  BY <1>10, <1>12 DEF D, E
<1> QED BY <1>13, <1>14, <1>15, <1>16 DEF Passes

LEMMA Prefix ==
  ASSUME NEW S, NEW s \in Seq(S), NEW t \in Seq(S)
  PROVE  IsPrefix(s, t) <=> Len(s) <= Len(t) /\ \A i \in 1..Len(s): s[i] = t[i]
<1>1. Len(s) \in Nat /\ Len(t) \in Nat
  BY LenProperties
<1>2. SubSeq(s, 1, Len(s)) = s
  BY SubSeqFull
<1>3. ASSUME Len(s) <= Len(t)
      PROVE  SubSeq(s, 1, Len(s)) = SubSeq(t, 1, Len(s)) <=> \A i \in 1..Len(s): s[i] = t[i]
  <2> DEFINE r == SubSeq(t, 1, Len(s))
  <2>1. \A i \in 1..Len(s): t[i] \in S
    BY <1>1, <1>3, ElementOfSeq
  <2>2. r \in Seq(S) /\ Len(r) = Len(s) /\ \A i \in 1..Len(s): r[i] = t[i]
    BY <1>1, <1>3
  <2> HIDE DEF r
  <2>3. s = r <=> \A i \in 1..Len(s): s[i] = r[i]
    BY <2>2, SeqEqual
  <2> QED BY <1>2, <2>2, <2>3 DEF r
<1> QED BY <1>1, <1>3 DEF IsPrefix

-----------------------------------------------------------------------------
(* The lists of a queue and of the requests.                               *)

Kinds == {"message", "childAdded", "user", "reload"}
Subjects(kind) == IF kind \in {"message", "childAdded"} THEN Texts ELSE Contacts \cup {Me}

LEMMA QueueLists ==
  ASSUME NEW s \in Seq(Tasks), NEW kind \in Kinds
  PROVE  Lists(s, Tasks, kind, Subjects(kind)) /\ Of(s, kind) \in Seq(Subjects(kind))
<1>1. ASSUME NEW j \in Tasks, j.kind = kind PROVE j.of \in Subjects(kind)
  <2>1. CASE j \in [kind: {"user"}, of: Contacts \cup {Me}]
    BY <1>1, <2>1 DEF Subjects
  <2>2. CASE j \in [kind: {"dismissed"}, of: Contacts]
    BY <1>1, <2>2 DEF Kinds
  <2>3. CASE j \in [kind: {"childAdded", "message"}, of: Texts]
    BY <1>1, <2>3 DEF Subjects
  <2>4. CASE j = Task("reload", Me)
    BY <1>1, <2>4 DEF Subjects, Task
  <2> QED BY <2>1, <2>2, <2>3, <2>4 DEF Tasks
<1>2. Lists(s, Tasks, kind, Subjects(kind))
  BY <1>1 DEF Lists
<1> QED BY <1>2, OfType

LEMMA QueueGrows ==
  ASSUME NEW s \in Seq(Tasks), NEW t \in Seq(Tasks), NEW kind \in Kinds
  PROVE  Of(s \o t, kind) = Of(s, kind) \o Of(t, kind)
<1>1. Lists(s, Tasks, kind, Subjects(kind)) /\ Lists(t, Tasks, kind, Subjects(kind))
  BY QueueLists
<1> QED BY <1>1, OfConcat

LEMMA QueueTurns ==
  ASSUME NEW s \in Seq(Tasks), s # <<>>, NEW kind \in Kinds
  PROVE  Taken(s, kind)
<1>1. Lists(s, Tasks, kind, Subjects(kind))
  BY QueueLists
<1> QED BY <1>1, OfHead

LEMMA AskedLists ==
  ASSUME NEW s \in Seq(Requests)
  PROVE  Lists(s, Requests, "message", Texts) /\ Of(s, "message") \in Seq(Texts)
<1>1. ASSUME NEW j \in Requests, j.kind = "message" PROVE j.of \in Texts
  BY <1>1 DEF Requests, Task
<1>2. Lists(s, Requests, "message", Texts)
  BY <1>1 DEF Lists
<1> QED BY <1>2, OfType

LEMMA AskedGrows ==
  ASSUME NEW s \in Seq(Requests), NEW r \in Requests
  PROVE  Append(s, r) \in Seq(Requests) /\ Added(s, r, "message")
<1>1. Lists(s, Requests, "message", Texts)
  BY AskedLists
<1>2. Added(s, r, "message")
  BY <1>1, OfAppend
<1> QED BY <1>2, AppendProperties

LEMMA Members ==
  ASSUME NEW S, NEW s \in Seq(S) PROVE ToSet(s) \subseteq S
BY ElementOfSeq, LenProperties DEF ToSet

LEMMA HeadTailOnce ==
  ASSUME NEW S, NEW s \in Seq(S), s # <<>>
  PROVE  /\ Head(s) \in S /\ Tail(s) \in Seq(S) /\ Len(s) = Len(Tail(s)) + 1
         /\ ToSet(s) = {Head(s)} \cup ToSet(Tail(s))
         /\ IsInjective(s) => IsInjective(Tail(s)) /\ Head(s) \notin ToSet(Tail(s))
<1> DEFINE h == Head(s)
           t == Tail(s)
           g == <<h>>
<1>1. h \in S /\ t \in Seq(S) /\ Len(t) = Len(s) - 1 /\ Len(s) \in Nat
  BY HeadTailProperties, LenProperties
<1>2. s = g \o t
  OBVIOUS
<1>3. g \in Seq(S) /\ ToSet(g) = {h}
  BY <1>1 DEF ToSet
<1> HIDE DEF h, t, g
<1>4. ToSet(g \o t) = ToSet(g) \cup ToSet(t)
  BY ONLY <1>1, <1>3, ConcatElements
<1>5. IsInjective(g \o t) <=> IsInjective(g) /\ IsInjective(t) /\ ToSet(g) \cap ToSet(t) = {}
  BY ONLY <1>1, <1>3, ConcatOnce
<1>6. Len(s) = Len(t) + 1
  BY <1>1
<1> QED BY <1>1, <1>2, <1>3, <1>4, <1>5, <1>6 DEF h, t

\* The requests that stay when the one at i is answered, and the reads among them.
Remaining(s, i, r, rest) ==
  /\ r \in Requests /\ rest \in Seq(Requests) /\ ToSet(s) = {r} \cup ToSet(rest)
  /\ IsInjective(s) => IsInjective(rest) /\ r \notin ToSet(rest)
  /\ r.kind # "message" => Of(rest, "message") = Of(s, "message")
  /\ r.kind = "message" => \E a, b \in Seq(Texts):
       /\ Of(s, "message") = a \o (<<r.of>> \o b) /\ Of(rest, "message") = a \o b
       /\ (\A j \in 1..(i - 1): s[j].kind # "message") => a = <<>>

LEMMA RequestGoes ==
  ASSUME NEW s \in Seq(Requests), NEW i \in DOMAIN s
  PROVE  Remaining(s, i, s[i], RemoveAt(s, i))
<1> DEFINE r == s[i]
           rest == RemoveAt(s, i)
           f == SubSeq(s, 1, i - 1)
           l == SubSeq(s, i + 1, Len(s))
           g == <<r>>
           x == g \o l
<1>1. i \in 1..Len(s) /\ Len(s) \in Nat /\ r \in Requests
  BY LenProperties, ElementOfSeq
<1>2. /\ f \in Seq(Requests) /\ Len(f) = i - 1 /\ \A k \in 1..(i - 1): f[k] = s[k]
      /\ l \in Seq(Requests) /\ Len(l) = Len(s) - i /\ \A k \in 1..(Len(s) - i): l[k] = s[i + k]
  BY <1>1
<1>3. g \in Seq(Requests) /\ Len(g) = 1 /\ g[1] = r /\ ToSet(g) = {r}
  BY <1>1 DEF ToSet
<1>4. rest = f \o l
  BY DEF RemoveAt
<1> HIDE DEF f, l, g, r, rest
<1>5. x \in Seq(Requests) /\ Len(x) = 1 + (Len(s) - i) /\ x[1] = r
      /\ \A k \in 2..(1 + (Len(s) - i)): x[k] = l[k - 1]
  <2>1. /\ x \in Seq(Requests) /\ Len(x) = Len(g) + Len(l)
        /\ \A k \in 1..(Len(g) + Len(l)): x[k] = IF k <= Len(g) THEN g[k] ELSE l[k - Len(g)]
    BY <1>2, <1>3, ConcatProperties
  <2> HIDE DEF x
  <2>2. Len(l) \in Nat /\ Len(s) - i = Len(l)
    BY <1>1, <1>2
  <2>3. x[1] = r
    BY <1>3, <2>1, <2>2
  <2> QED BY <1>3, <2>1, <2>2, <2>3
<1> DEFINE w == f \o x
<1>6. s = w
  <2>1. w \in Seq(Requests) /\ Len(w) = Len(s)
    BY <1>1, <1>2, <1>5
  <2>2. ASSUME NEW k \in 1..Len(s) PROVE w[k] = s[k]
    <3>1. w[k] = IF k <= i - 1 THEN f[k] ELSE x[k - (i - 1)]
      <4>1. k \in 1..(Len(f) + Len(x))
        BY <1>1, <1>2, <1>5
      <4> HIDE DEF x
      <4>2. w[k] = IF k <= Len(f) THEN f[k] ELSE x[k - Len(f)]
        BY <1>2, <1>5, <4>1, ConcatProperties
      <4> QED BY <1>2, <4>2
    <3> HIDE DEF w, x
    <3>2. CASE k <= i - 1
      BY <1>1, <1>2, <3>1, <3>2
    <3>3. CASE k = i
      <4>1. k - (i - 1) = 1 /\ ~(k <= i - 1)
        BY <1>1, <3>3
      <4> QED BY <1>5, <3>1, <3>3, <4>1 DEF r
    <3>4. CASE k > i
      <4>1. k - (i - 1) \in 2..(1 + (Len(s) - i)) /\ ~(k <= i - 1)
        BY <1>1, <3>4
      <4>2. (k - (i - 1)) - 1 \in 1..(Len(s) - i) /\ i + ((k - (i - 1)) - 1) = k
        BY <1>1, <3>4
      <4> QED BY <1>2, <1>5, <3>1, <4>1, <4>2
    <3> QED BY <1>1, <3>2, <3>3, <3>4
  <2> HIDE DEF w
  <2> QED BY <2>1, <2>2, SeqEqual
<1>7. rest \in Seq(Requests)
  BY <1>2, <1>4, ConcatProperties
<1> HIDE DEF x
<1>8. /\ ToSet(s) = ToSet(f) \cup ToSet(x) /\ ToSet(x) = ToSet(g) \cup ToSet(l)
      /\ ToSet(rest) = ToSet(f) \cup ToSet(l)
  <2>1. ToSet(f \o x) = ToSet(f) \cup ToSet(x)
    BY <1>2, <1>5, ConcatElements
  <2>2. ToSet(f \o l) = ToSet(f) \cup ToSet(l)
    BY <1>2, ConcatElements
  <2>3. ToSet(g \o l) = ToSet(g) \cup ToSet(l)
    BY <1>2, <1>3, ConcatElements
  <2> QED BY <1>4, <1>6, <2>1, <2>2, <2>3 DEF x
<1>9. ASSUME IsInjective(s) PROVE IsInjective(rest) /\ r \notin ToSet(rest)
  <2>1. IsInjective(f) /\ IsInjective(x) /\ ToSet(f) \cap ToSet(x) = {}
    BY <1>2, <1>5, <1>6, <1>9, ConcatOnce
  <2>2. IsInjective(l) /\ ToSet(g) \cap ToSet(l) = {}
    <3>1. IsInjective(g \o l)
      BY <2>1 DEF x
    <3> QED BY <1>2, <1>3, <3>1, ConcatOnce
  <2>3. IsInjective(f \o l)
    BY <1>2, <1>8, <2>1, <2>2, ConcatOnce
  <2> QED BY <1>3, <1>4, <1>8, <2>1, <2>2, <2>3
<1> DEFINE a == Of(f, "message")
           b == Of(l, "message")
           h == Of(g, "message")
<1>10. a \in Seq(Texts) /\ b \in Seq(Texts) /\ h \in Seq(Texts)
  BY <1>2, <1>3, AskedLists
<1>11. Of(s, "message") = a \o (h \o b) /\ Of(rest, "message") = a \o b
  <2>1. /\ Lists(f, Requests, "message", Texts) /\ Lists(g, Requests, "message", Texts)
        /\ Lists(l, Requests, "message", Texts) /\ Lists(x, Requests, "message", Texts)
    BY <1>2, <1>3, <1>5, AskedLists
  <2>2. Of(f \o l, "message") = Of(f, "message") \o Of(l, "message")
    BY <2>1, OfConcat
  <2>3. Of(f \o x, "message") = Of(f, "message") \o Of(x, "message")
    BY <2>1, OfConcat
  <2>4. Of(g \o l, "message") = Of(g, "message") \o Of(l, "message")
    BY <2>1, OfConcat
  <2> QED BY <1>4, <1>6, <2>2, <2>3, <2>4 DEF x
<1>12. h = IF r.kind = "message" THEN <<r.of>> ELSE <<>>
  <2> DEFINE nil == <<>>
  <2>1. nil \in Seq(Requests) /\ Append(nil, r) = g
    BY DEF g
  <2>2. Append(nil, r.of) = <<r.of>> /\ Of(nil, "message") = <<>>
    BY OfNothing
  <2>3. Added(nil, r, "message")
    <3> HIDE DEF nil
    <3> QED BY <1>1, <2>1, AskedGrows
  <2> QED BY <2>1, <2>2, <2>3 DEF Added
<1>13. (\A j \in 1..(i - 1): s[j].kind # "message") => a = <<>>
  <2> SUFFICES ASSUME \A j \in 1..(i - 1): s[j].kind # "message" PROVE a = <<>>
    OBVIOUS
  <2>1. \A j \in ToSet(f): j.kind # "message"
    <3>1. DOMAIN f = 1..(i - 1)
      BY <1>2, LenProperties
    <3> QED BY <1>2, <3>1 DEF ToSet
  <2> QED BY <1>2, <2>1, OfElements
<1> HIDE DEF a, b, h
<1>14. r.kind # "message" => Of(rest, "message") = Of(s, "message")
  <2>1. <<>> \o b = b
    BY <1>10, ConcatEmptySeq
  <2> QED BY <1>11, <1>12, <2>1
<1>15. ASSUME r.kind = "message"
       PROVE  /\ Of(s, "message") = a \o (<<r.of>> \o b) /\ Of(rest, "message") = a \o b
  BY <1>11, <1>12, <1>15
<1>16. r.kind = "message" => \E c, d \in Seq(Texts):
         /\ Of(s, "message") = c \o (<<r.of>> \o d) /\ Of(rest, "message") = c \o d
         /\ (\A j \in 1..(i - 1): s[j].kind # "message") => c = <<>>
  BY <1>10, <1>13, <1>15
<1>17. Remaining(s, i, r, rest)
  BY <1>1, <1>3, <1>7, <1>8, <1>9, <1>14, <1>16 DEF Remaining
<1> QED BY <1>17 DEF r, rest

LEMMA QueueAppends ==
  ASSUME NEW s \in Seq(Tasks), NEW j \in Tasks
  PROVE  /\ Append(s, j) \in Seq(Tasks) /\ ToSet(Append(s, j)) = ToSet(s) \cup {j}
         /\ \A kind \in Kinds: Added(s, j, kind)
<1>1. Append(s, j) \in Seq(Tasks) /\ ToSet(Append(s, j)) = ToSet(s) \cup {j}
  BY AppendProperties, AppendOnce
<1>2. ASSUME NEW kind \in Kinds PROVE Added(s, j, kind)
  <2>1. Lists(s, Tasks, kind, Subjects(kind))
    BY QueueLists
  <2> QED BY <2>1, OfAppend
<1> QED BY <1>1, <1>2

\* A raise of the users, and of the entries of a branch.
LEMMA UsersRaised ==
  ASSUME joined \subseteq Contacts \cup {Me}
  PROVE  /\ SetToSeq(joined) \in Seq(Contacts \cup {Me})
         /\ IsInjective(SetToSeq(joined)) /\ ToSet(SetToSeq(joined)) = joined
         /\ Raise("user", SetToSeq(joined)) \in Seq(Tasks)
         /\ \A j \in ToSet(Raise("user", SetToSeq(joined))): j.kind = "user"
         /\ Of(Raise("user", SetToSeq(joined)), "user") = SetToSeq(joined)
         /\ \A kind \in Kinds \ {"user"}: Of(Raise("user", SetToSeq(joined)), kind) = <<>>
<1> DEFINE l == SetToSeq(joined)
           r == Raise("user", l)
           P == Contacts \cup {Me}
<1>1. IsFiniteSet(joined)
  <2>1. IsFiniteSet(P)
    BY InboxAssumption, FS_AddElement
  <2> QED BY <2>1, FS_Subset
<1>2. l \in Seq(joined) /\ IsInjective(l) /\ ToSet(l) = joined
  BY <1>1, SetToSeqRight
<1> HIDE DEF l
<1>3. l \in Seq(P)
  BY <1>2, SeqMonotonic
<1> HIDE DEF P
<1>4. r \in Seq([kind: {"user"}, of: P]) /\ Of(r, "user") = l /\ \A other: other # "user" => Of(r, other) = <<>>
  BY <1>3, RaiseOf
<1> HIDE DEF r
<1>5. r \in Seq(Tasks)
  <2>1. [kind: {"user"}, of: P] \subseteq Tasks
    BY DEF Tasks, P
  <2> QED BY <1>4, <2>1, SeqMonotonic
<1>6. \A j \in ToSet(r): j.kind = "user"
  <2>1. ToSet(r) \subseteq [kind: {"user"}, of: P]
    BY <1>4, Members
  <2> QED BY <2>1
<1> QED BY <1>2, <1>3, <1>4, <1>5, <1>6 DEF r, l, P

LEMMA EntriesRaised ==
  ASSUME inboxFiled \subseteq Texts, NEW p
  PROVE  /\ ByKey(Branch(p)) \in Seq(Texts)
         /\ IsInjective(ByKey(Branch(p))) /\ ToSet(ByKey(Branch(p))) = Branch(p)
         /\ Raise("childAdded", ByKey(Branch(p))) \in Seq(Tasks)
         /\ \A j \in ToSet(Raise("childAdded", ByKey(Branch(p)))): j.kind = "childAdded"
         /\ Of(Raise("childAdded", ByKey(Branch(p))), "childAdded") = ByKey(Branch(p))
         /\ \A kind \in Kinds \ {"childAdded"}: Of(Raise("childAdded", ByKey(Branch(p))), kind) = <<>>
<1> DEFINE B == Branch(p)
           l == ByKey(B)
           r == Raise("childAdded", l)
<1>1. B \subseteq Texts /\ \A t \in B: t.with = p /\ t \in [with: Contacts, key: Nat]
  BY InboxAssumption DEF Branch
<1> HIDE DEF B
<1>2. IsFiniteSet(B) /\ Keyed(B)
  <2>1. IsFiniteSet(B)
    BY <1>1, InboxAssumption, FS_Subset
  <2> QED BY <1>1, <2>1 DEF Keyed
<1>3. l \in Seq(B) /\ IsInjective(l) /\ ToSet(l) = B
  BY <1>2, ByKeyRight
<1> HIDE DEF l
<1>4. l \in Seq(Texts)
  BY <1>1, <1>3, SeqMonotonic
<1>5. r \in Seq([kind: {"childAdded"}, of: Texts]) /\ Of(r, "childAdded") = l
      /\ \A other: other # "childAdded" => Of(r, other) = <<>>
  BY ONLY <1>4, RaiseOf
<1> HIDE DEF r
<1>6. r \in Seq(Tasks)
  <2>1. [kind: {"childAdded"}, of: Texts] \subseteq Tasks
    BY DEF Tasks
  <2> QED BY <1>5, <2>1, SeqMonotonic
<1>7. \A j \in ToSet(r): j.kind = "childAdded"
  <2>1. ToSet(r) \subseteq [kind: {"childAdded"}, of: Texts]
    BY <1>5, Members
  <2> QED BY <2>1
<1> QED BY <1>3, <1>4, <1>5, <1>6, <1>7 DEF r, l, B

-----------------------------------------------------------------------------
(* What the steps have in common.                                          *)

\* With no inbox pushed there is no conversation.
LEMMA IdleNext ==
  ASSUME inboxQueue' \in Seq(Tasks), inboxAsked' \in Seq(Requests), inboxFiled' \subseteq Texts,
         ByScreen', user' = NoPartner
  PROVE  EachOnce' /\ InOrder' /\ RowsFollow'
<1>1. \A j \in ToSet(inboxQueue'): j.kind # "message" /\ j.kind # "childAdded"
  BY DEF ByScreen
<1>2. /\ inboxMessages' = <<>> /\ rows' = <<>> /\ raised' = <<>>
      /\ \A j \in ToSet(inboxAsked'): j.kind # "message"
  BY DEF ByScreen
<1>3. Of(inboxQueue', "message") = <<>>
  BY <1>1, OfElements
<1>4. Of(inboxQueue', "childAdded") = <<>>
  BY <1>1, OfElements
<1>5. Of(inboxAsked', "message") = <<>>
  BY <1>2, OfElements
<1>6. Chat' = <<>>
  BY <1>2, <1>3, <1>4, <1>5 DEF Chat, Reading
<1>7. Branch(NoPartner)' = {}
  BY InboxAssumption DEF Branch
<1>8. ToSet(<<>>) = {} /\ IsInjective(<<>>)
  BY DEF ToSet, IsInjective
<1>9. EachOnce'
  <2>1. Branch(user)' = {}
    BY <1>7 DEF Branch
  <2> QED BY <1>2, <1>6, <1>8, <2>1 DEF EachOnce
<1>10. InOrder'
  BY <1>6 DEF InOrder, Follows
<1>11. RowsFollow'
  <2>1. IsPrefix(<<>>, <<>>)
    BY DEF IsPrefix
  <2> QED BY <1>2, <2>1 DEF RowsFollow
<1> QED BY <1>9, <1>10, <1>11

\* A step that moves texts along, or none, keeps the conversation.
LEMMA ChatKept ==
  ASSUME EachOnce, InOrder, user' = user, user \in loaded' <=> user \in loaded,
         inboxFiled' = inboxFiled, raised' = raised, straight' => straight,
         Chat' = Chat, ToSet(inboxMessages') \cap Missing = {}
  PROVE  EachOnce' /\ InOrder'
<1>1. EachOnce'
  <2>1. Branch(user)' = Branch(user)
    BY DEF Branch
  <2> QED BY <2>1 DEF EachOnce
<1> QED BY <1>1 DEF InOrder

LEMMA RowsKept ==
  ASSUME RowsFollow, rows' = rows, inboxMessages' = inboxMessages,
         Of(inboxQueue, "reload") # <<>> => Of(inboxQueue', "reload") # <<>>
  PROVE  RowsFollow'
BY DEF RowsFollow

LEMMA ListingKept ==
  ASSUME ListingOnce, contacts' = contacts, Of(inboxQueue', "user") = Of(inboxQueue, "user"),
         joined \subseteq joined', loaded \subseteq loaded'
  PROVE  ListingOnce'
<1>1. Listing' = Listing
  BY DEF Listing
<1> QED BY <1>1 DEF ListingOnce

LEMMA ListingGone ==
  ASSUME ListingOnce, contacts \in Seq(Contacts \cup {Me}), inboxQueue \in Seq(Tasks),
         contacts' = contacts, Of(inboxQueue', "user") = <<>>, joined' = joined, loaded' = loaded
  PROVE  ListingOnce'
<1> DEFINE P == Contacts \cup {Me}
           w == Of(inboxQueue, "user")
<1>1. w \in Seq(P) /\ contacts \in Seq(P)
  <2>1. "user" \in Kinds
    BY DEF Kinds
  <2> QED BY <2>1, QueueLists DEF Subjects
<1>2. Listing = contacts \o w
  BY DEF Listing
<1> HIDE DEF P, w
<1>3. contacts \o <<>> = contacts
  BY <1>1, ConcatEmptySeq
<1>4. Listing' = contacts
  BY <1>3 DEF Listing
<1>5. IsInjective(contacts \o w) => IsInjective(contacts)
  BY ONLY <1>1, ConcatOnce
<1>6. ToSet(contacts \o w) = ToSet(contacts) \cup ToSet(w)
  BY ONLY <1>1, ConcatElements
<1>7. contacts \o w = <<>> => contacts = <<>>
  BY ONLY <1>1, ConcatEqualIffEmpty
<1> QED BY <1>2, <1>4, <1>5, <1>6, <1>7 DEF ListingOnce

-----------------------------------------------------------------------------
(* The steps.                                                              *)

\* What the lists are, by the types.
LEMMA Typed ==
  ASSUME Types
  PROVE  /\ Of(inboxQueue, "message") \in Seq(Texts) /\ Of(inboxQueue, "childAdded") \in Seq(Texts)
         /\ Of(inboxAsked, "message") \in Seq(Texts) /\ Of(inboxQueue, "user") \in Seq(Contacts \cup {Me})
         /\ inboxQueue \o <<>> = inboxQueue
         /\ \A kind \in Kinds: Of(<<>>, kind) = <<>>
<1>1. inboxQueue \in Seq(Tasks) /\ inboxAsked \in Seq(Requests)
  BY DEF Types
<1>2. \A kind \in Kinds: Of(inboxQueue, kind) \in Seq(Subjects(kind))
  BY <1>1, QueueLists
<1> QED BY <1>1, <1>2, AskedLists, ConcatEmptySeq, OfNothing DEF Kinds, Subjects

LEMMA JoinStep ==
  ASSUME InboxInv, NEW u \in Contacts, Join(u)
  PROVE  InboxInv'
<1>1. CASE sheet /\ "users" \in loaded
  <2> DEFINE j == Task("user", u)
  <2>1. j \in Tasks /\ j.kind = "user" /\ j.of = u
    BY DEF Tasks, Task
  <2> HIDE DEF j
  <2>2. inboxQueue \in Seq(Tasks) /\ inboxQueue' = Append(inboxQueue, j)
    <3>1. inboxQueue' = inboxQueue \o <<j>>
      BY <1>1 DEF Join, j
    <3> QED BY <2>1, <3>1, AppendIsConcat DEF InboxInv, Types
  <2>3. /\ inboxQueue' \in Seq(Tasks) /\ ToSet(inboxQueue') = ToSet(inboxQueue) \cup {j}
        /\ \A kind \in Kinds: Added(inboxQueue, j, kind)
    BY <2>1, <2>2, QueueAppends
  <2>4. user = NoPartner /\ user' = NoPartner
    BY <1>1 DEF InboxInv, Types, Join
  <2>5. Types'
    BY <2>3 DEF InboxInv, Types, Join
  <2>6. ByScreen'
    BY <1>1, <2>1, <2>3, <2>4 DEF InboxInv, ByScreen, Join
  <2>7. EachOnce' /\ InOrder' /\ RowsFollow'
    BY <2>3, <2>4, <2>5, <2>6, IdleNext DEF Types
  <2>8. ListingOnce'
    <3> DEFINE w == Of(inboxQueue, "user")
               P == Contacts \cup {Me}
    <3>1. contacts \in Seq(P) /\ w \in Seq(P) /\ u \in P /\ Listing = contacts \o w
      BY Typed DEF InboxInv, Types, Listing
    <3>2. Listing' = contacts \o Append(w, u)
      BY <2>1, <2>2, <2>3 DEF Added, Kinds, Listing, Join
    <3> HIDE DEF w, P
    <3>3. contacts \o Append(w, u) = Append(contacts \o w, u)
      BY ONLY <3>1, AppendOfConcat
    <3>4. contacts \o w \in Seq(P)
      BY ONLY <3>1, ConcatProperties
    <3> DEFINE l == contacts \o w
    <3> HIDE DEF l
    <3>5. /\ ToSet(Append(l, u)) = ToSet(l) \cup {u}
          /\ IsInjective(Append(l, u)) <=> IsInjective(l) /\ u \notin ToSet(l)
      <4>1. l \in Seq(P) /\ u \in P
        BY <3>1, <3>4 DEF l
      <4> QED BY ONLY <4>1, AppendOnce
    <3>7. Listing' = Append(l, u) /\ Listing = l
      BY <3>1, <3>2, <3>3 DEF l
    <3>6. u \notin joined /\ joined' = joined \cup {u} /\ loaded' = loaded /\ contacts' = contacts
      BY DEF Join
    <3> QED BY <1>1, <3>5, <3>6, <3>7 DEF InboxInv, ListingOnce
  <2>9. AskedOnce'
    BY DEF InboxInv, AskedOnce, Join
  <2> QED BY <2>5, <2>6, <2>7, <2>8, <2>9 DEF InboxInv
<1>2. CASE ~(sheet /\ "users" \in loaded)
  <2>1. /\ inboxQueue' = inboxQueue /\ inboxAsked' = inboxAsked /\ user' = user /\ loaded' = loaded
        /\ inboxMessages' = inboxMessages /\ rows' = rows /\ raised' = raised /\ inboxFiled' = inboxFiled
        /\ contacts' = contacts /\ sheet' = sheet /\ straight' = straight /\ joined' = joined \cup {u}
    BY <1>2, Typed DEF InboxInv, Join
  <2>2. Types'
    BY <2>1 DEF InboxInv, Types
  <2>3. ByScreen' /\ AskedOnce' /\ RowsFollow'
    BY <2>1 DEF InboxInv, ByScreen, AskedOnce, RowsFollow
  <2>4. EachOnce' /\ InOrder'
    <3>1. Chat' = Chat
      BY <2>1 DEF Chat, Reading
    <3> QED BY <2>1, <3>1, ChatKept DEF InboxInv, EachOnce
  <2>5. ListingOnce'
    BY <2>1, ListingKept DEF InboxInv
  <2> QED BY <2>2, <2>3, <2>4, <2>5 DEF InboxInv
<1> QED BY <1>1, <1>2

LEMMA FileTextStep ==
  ASSUME InboxInv, NEW t \in Texts, FileText(t)
  PROVE  InboxInv'
<1>0. /\ user' = user /\ sheet' = sheet /\ contacts' = contacts /\ inboxMessages' = inboxMessages /\ rows' = rows
      /\ inboxAsked' = inboxAsked /\ loaded' = loaded /\ joined' = joined /\ straight' = straight
      /\ inboxFiled' = inboxFiled \cup {t} /\ t \notin inboxFiled
  BY DEF FileText
<1>1. CASE user = t.with /\ user \in loaded
  <2> DEFINE j == Task("childAdded", t)
  <2>1. j \in Tasks /\ j.kind = "childAdded" /\ j.of = t
    BY DEF Tasks, Task
  <2> HIDE DEF j
  <2>2. inboxQueue' = Append(inboxQueue, j) /\ raised' = Append(raised, t)
    BY <1>1 DEF FileText, j
  <2>3. /\ inboxQueue' \in Seq(Tasks) /\ ToSet(inboxQueue') = ToSet(inboxQueue) \cup {j}
        /\ \A kind \in Kinds: Added(inboxQueue, j, kind)
    BY <2>1, <2>2, QueueAppends DEF InboxInv, Types
  <2>4. user # NoPartner
    BY <1>1, InboxAssumption
  <2>5. Types'
    <3>1. raised' \in Seq(Texts)
      BY <2>2, AppendProperties DEF InboxInv, Types
    <3> QED BY <1>0, <2>3, <3>1 DEF InboxInv, Types
  <2>6. ByScreen'
    BY <1>0, <2>1, <2>3, <2>4 DEF InboxInv, ByScreen
  <2> DEFINE M == inboxMessages
             A == Of(inboxQueue, "message")
             B == Of(inboxAsked, "message")
             C == Of(inboxQueue, "childAdded")
             all == M \o ((A \o B) \o C)
  <2>7. M \in Seq(Texts) /\ A \in Seq(Texts) /\ B \in Seq(Texts) /\ C \in Seq(Texts)
    BY Typed DEF InboxInv, Types
  <2>8. Chat' = M \o ((A \o B) \o Append(C, t))
    BY <1>0, <2>1, <2>2, <2>3 DEF Chat, Reading, Added, Kinds
  <2>9. Chat = all
    BY DEF Chat, Reading
  <2> HIDE DEF M, A, B, C
  <2>10. Chat' = Append(all, t)
    <3>1. Passes(M, A, B, C, t)
      BY <2>7, Advances
    <3> QED BY <2>8, <3>1 DEF Passes
  <2>11. all \in Seq(Texts)
    <3>1. A \o B \in Seq(Texts)
      BY <2>7, ConcatProperties
    <3>2. (A \o B) \o C \in Seq(Texts)
      BY <2>7, <3>1, ConcatProperties
    <3> QED BY <2>7, <3>2, ConcatProperties
  <2> HIDE DEF all
  <2>12. /\ ToSet(Append(all, t)) = ToSet(all) \cup {t}
         /\ IsInjective(Append(all, t)) <=> IsInjective(all) /\ t \notin ToSet(all)
    BY <2>11, AppendOnce
  <2>13. /\ IsInjective(all) /\ ToSet(raised) = Branch(user)
         /\ ToSet(raised) \ Missing \subseteq ToSet(all) /\ ToSet(all) \subseteq ToSet(raised)
         /\ ToSet(inboxMessages) \cap Missing = {}
    BY <1>1, <2>9 DEF InboxInv, EachOnce
  <2>14. Branch(user)' = Branch(user) \cup {t} /\ t \notin Branch(user)
    BY <1>0, <1>1 DEF Branch
  <2>15. raised \in Seq(Texts) /\ ToSet(raised') = ToSet(raised) \cup {t}
    BY <2>2, AppendOnce DEF InboxInv, Types
  <2>16. EachOnce' /\ InOrder'
    <3>1. EachOnce'
      <4>1. IsInjective(Chat') /\ ToSet(Chat') = ToSet(all) \cup {t}
        BY <2>10, <2>12, <2>13, <2>14
      <4>2. user' \in loaded' /\ inboxMessages' = inboxMessages
        BY <1>0, <1>1
      <4> QED BY <2>13, <2>14, <2>15, <4>1, <4>2 DEF EachOnce
    <3>2. InOrder'
      <4> SUFFICES ASSUME straight' PROVE Follows(Chat', raised')
        BY DEF InOrder
      <4>1. Follows(all, raised)
        BY <1>0, <2>9 DEF InboxInv, InOrder
      <4>2. Follows(Append(all, t), Append(raised, t))
        BY <2>11, <2>13, <2>15, <4>1, FollowsGrows
      <4> QED BY <2>2, <2>10, <4>2
    <3> QED BY <3>1, <3>2
  <2>17. RowsFollow' /\ ListingOnce' /\ AskedOnce'
    <3>1. Of(inboxQueue', "reload") = Of(inboxQueue, "reload") /\ Of(inboxQueue', "user") = Of(inboxQueue, "user")
      BY <2>1, <2>2, <2>3 DEF Added, Kinds
    <3> QED BY <1>0, <3>1, RowsKept, ListingKept DEF InboxInv, AskedOnce
  <2> QED BY <2>5, <2>6, <2>16, <2>17 DEF InboxInv
<1>2. CASE ~(user = t.with /\ user \in loaded)
  <2>1. inboxQueue' = inboxQueue /\ raised' = raised
    BY <1>2 DEF FileText
  <2>2. Types'
    BY <1>0, <2>1 DEF InboxInv, Types
  <2>3. ByScreen' /\ AskedOnce' /\ RowsFollow'
    BY <1>0, <2>1 DEF InboxInv, ByScreen, AskedOnce, RowsFollow
  <2>4. Chat' = Chat
    BY <1>0, <2>1 DEF Chat, Reading
  <2>5. EachOnce'
    <3>1. user \in loaded => Branch(user)' = Branch(user)
      BY <1>0, <1>2 DEF Branch
    <3> QED BY <1>0, <2>1, <2>4, <3>1 DEF InboxInv, EachOnce
  <2>6. InOrder'
    BY <1>0, <2>1, <2>4 DEF InboxInv, InOrder
  <2>7. ListingOnce'
    BY <1>0, <2>1, ListingKept DEF InboxInv
  <2> QED BY <2>2, <2>3, <2>5, <2>6, <2>7 DEF InboxInv
<1> QED BY <1>1, <1>2

\* The request that is answered goes, and is not asked again.
LEMMA AskedGoes ==
  ASSUME Types, AskedOnce, NEW i \in DOMAIN inboxAsked, inboxAsked' = RemoveAt(inboxAsked, i)
  PROVE  /\ inboxAsked[i] \in Requests /\ inboxAsked' \in Seq(Requests)
         /\ ToSet(inboxAsked') \subseteq ToSet(inboxAsked) /\ IsInjective(inboxAsked')
         /\ inboxAsked[i] \in ToSet(inboxAsked) /\ inboxAsked[i] \notin ToSet(inboxAsked')
         /\ inboxAsked[i].kind # "message" => Of(inboxAsked', "message") = Of(inboxAsked, "message")
<1>1. inboxAsked \in Seq(Requests) /\ IsInjective(inboxAsked)
  BY DEF Types, AskedOnce
<1>2. Remaining(inboxAsked, i, inboxAsked[i], inboxAsked')
  BY <1>1, RequestGoes
<1> QED BY <1>1, <1>2 DEF Remaining

LEMMA UsersAnswered ==
  ASSUME InboxInv, NEW i \in DOMAIN inboxAsked, AnswerRequest(i), inboxAsked[i].kind = "users"
  PROVE  InboxInv'
<1> DEFINE r == inboxAsked[i]
           l == SetToSeq(joined)
<1>0. /\ user' = user /\ sheet' = sheet /\ contacts' = contacts /\ inboxMessages' = inboxMessages /\ rows' = rows
      /\ joined' = joined /\ straight' = straight /\ inboxFiled' = inboxFiled /\ raised' = raised
      /\ inboxAsked' = RemoveAt(inboxAsked, i) /\ loaded' = loaded \cup {"users"}
      /\ inboxQueue' = inboxQueue \o IF sheet THEN Raise("user", l) ELSE <<>>
  BY DEF AnswerRequest
<1>1. /\ r \in Requests /\ inboxAsked' \in Seq(Requests)
      /\ ToSet(inboxAsked') \subseteq ToSet(inboxAsked) /\ IsInjective(inboxAsked')
      /\ r \in ToSet(inboxAsked) /\ r \notin ToSet(inboxAsked')
      /\ r.kind # "message" => Of(inboxAsked', "message") = Of(inboxAsked, "message")
  BY <1>0, AskedGoes DEF InboxInv
<1>2. "users" \notin loaded /\ r = Task("users", Me) /\ Of(inboxAsked', "message") = Of(inboxAsked, "message")
  BY <1>0, <1>1 DEF InboxInv, AskedOnce, Requests, Task
<1>3. AskedOnce'
  <2> SUFFICES ASSUME NEW j \in ToSet(inboxAsked')
               PROVE  (j.kind = "users" => "users" \notin loaded') /\ (j.kind = "index" => j.of \notin loaded')
    BY <1>1 DEF AskedOnce
  <2>1. j \in Requests /\ j # r /\ j \in ToSet(inboxAsked)
    BY <1>1, Members
  <2>2. j.kind # "users"
    BY <1>2, <2>1 DEF Requests, Task
  <2>3. j.kind = "index" => j.of \in Contacts /\ j.of \notin loaded
    BY <2>1 DEF InboxInv, AskedOnce, Requests, Task
  <2> QED BY <1>0, <2>2, <2>3, InboxAssumption
<1>4. Listing = <<>>
  BY <1>2 DEF InboxInv, ListingOnce
<1>5. contacts = <<>> /\ Of(inboxQueue, "user") = <<>>
  BY <1>4, Typed, ConcatEqualIffEmpty DEF InboxInv, Types, Listing
<1>6. user \in loaded' => user \in loaded \/ (user = NoPartner /\ user' = NoPartner)
  BY <1>0, InboxAssumption DEF InboxInv, Types
<1>7. CASE sheet
  <2> DEFINE s == Raise("user", l)
  <2>1. /\ l \in Seq(Contacts \cup {Me}) /\ IsInjective(l) /\ ToSet(l) = joined
        /\ s \in Seq(Tasks) /\ (\A j \in ToSet(s): j.kind = "user") /\ Of(s, "user") = l
    BY UsersRaised DEF InboxInv, Types
  <2> HIDE DEF l, s
  <2>2. inboxQueue' = inboxQueue \o s /\ inboxQueue \in Seq(Tasks)
    BY <1>0, <1>7 DEF InboxInv, Types, s
  <2>3. /\ inboxQueue' \in Seq(Tasks) /\ ToSet(inboxQueue') = ToSet(inboxQueue) \cup ToSet(s)
        /\ Of(inboxQueue', "user") = Of(inboxQueue, "user") \o l
    <3>1. inboxQueue \o s \in Seq(Tasks)
      BY <2>1, <2>2, ConcatProperties
    <3>2. ToSet(inboxQueue \o s) = ToSet(inboxQueue) \cup ToSet(s)
      BY <2>1, <2>2, ConcatElements
    <3>3. "user" \in Kinds
      BY DEF Kinds
    <3>4. Of(inboxQueue \o s, "user") = Of(inboxQueue, "user") \o Of(s, "user")
      BY <2>1, <2>2, <3>3, QueueGrows
    <3> QED BY <2>1, <2>2, <3>1, <3>2, <3>4
  <2>4. user = NoPartner /\ user' = NoPartner
    BY <1>0, <1>7 DEF InboxInv, Types
  <2>5. Types'
    BY <1>0, <1>1, <2>3 DEF InboxInv, Types
  <2>6. ByScreen'
    <3>1. \A j \in ToSet(inboxQueue): j.kind \in {"user", "dismissed"} /\ j.kind # "dismissed"
      BY <1>7, <2>4 DEF InboxInv, ByScreen
    <3>2. \A j \in ToSet(inboxQueue'): j.kind = "user"
      BY <2>1, <2>3, <3>1
    <3>3. \A j \in ToSet(inboxAsked'): j.kind # "message"
      BY <1>1, <2>4 DEF InboxInv, ByScreen
    <3> QED BY <1>0, <2>4, <3>2, <3>3 DEF InboxInv, ByScreen
  <2>7. EachOnce' /\ InOrder' /\ RowsFollow'
    BY <2>4, <2>5, <2>6, IdleNext DEF Types
  <2>8. ListingOnce'
    <3>1. <<>> \o l = l
      BY <2>1, ConcatEmptySeq
    <3>2. Listing' = l
      BY <1>0, <1>5, <2>3, <3>1 DEF Listing
    <3> QED BY <1>0, <1>5, <2>1, <3>2 DEF ListingOnce
  <2> QED BY <1>3, <2>5, <2>6, <2>7, <2>8 DEF InboxInv
<1>8. CASE ~sheet
  <2>1. inboxQueue' = inboxQueue
    BY <1>0, <1>8, Typed DEF InboxInv
  <2>2. Types'
    BY <1>0, <1>1, <2>1 DEF InboxInv, Types
  <2>3. ByScreen'
    BY <1>0, <1>1, <2>1 DEF InboxInv, ByScreen
  <2>4. RowsFollow'
    BY <1>0, <2>1 DEF InboxInv, RowsFollow
  <2>5. ListingOnce'
    BY <1>0, <2>1, ListingKept DEF InboxInv
  <2>6. EachOnce' /\ InOrder'
    <3>1. Chat' = Chat
      BY <1>0, <1>2, <2>1 DEF Chat, Reading
    <3>2. CASE user = NoPartner
      BY <1>0, <2>2, <2>3, <3>2, IdleNext DEF Types
    <3>3. CASE user # NoPartner
      <4>1. user \in loaded' <=> user \in loaded
        BY <1>0, <1>6, <3>3
      <4> QED BY <1>0, <3>1, <4>1, ChatKept DEF InboxInv, EachOnce
    <3> QED BY <3>2, <3>3
  <2> QED BY <1>3, <2>2, <2>3, <2>4, <2>5, <2>6 DEF InboxInv
<1> QED BY <1>7, <1>8

LEMMA IndexAnswered ==
  ASSUME InboxInv, NEW i \in DOMAIN inboxAsked, AnswerRequest(i), inboxAsked[i].kind = "index"
  PROVE  InboxInv'
<1> DEFINE r == inboxAsked[i]
           p == r.of
           l == ByKey(Branch(user))
<1>0. /\ user' = user /\ sheet' = sheet /\ contacts' = contacts /\ inboxMessages' = inboxMessages /\ rows' = rows
      /\ joined' = joined /\ straight' = straight /\ inboxFiled' = inboxFiled
      /\ inboxAsked' = RemoveAt(inboxAsked, i) /\ loaded' = loaded \cup {p}
      /\ inboxQueue' = inboxQueue \o IF p = user THEN Raise("childAdded", l) ELSE <<>>
      /\ raised' = IF p = user THEN l ELSE raised
  BY DEF AnswerRequest
<1>1. /\ r \in Requests /\ inboxAsked' \in Seq(Requests)
      /\ ToSet(inboxAsked') \subseteq ToSet(inboxAsked) /\ IsInjective(inboxAsked')
      /\ r \in ToSet(inboxAsked) /\ r \notin ToSet(inboxAsked')
      /\ r.kind # "message" => Of(inboxAsked', "message") = Of(inboxAsked, "message")
  BY <1>0, AskedGoes DEF InboxInv
<1>2. /\ p \in Contacts /\ p \notin loaded /\ r = Task("index", p) /\ p # NoPartner /\ p # "users"
      /\ Of(inboxAsked', "message") = Of(inboxAsked, "message")
  BY <1>0, <1>1, InboxAssumption DEF InboxInv, AskedOnce, Requests, Task
<1>3. AskedOnce'
  <2> SUFFICES ASSUME NEW j \in ToSet(inboxAsked')
               PROVE  (j.kind = "users" => "users" \notin loaded') /\ (j.kind = "index" => j.of \notin loaded')
    BY <1>1 DEF AskedOnce
  <2>1. j \in Requests /\ j # r /\ j \in ToSet(inboxAsked)
    BY <1>1, Members
  <2>2. j.kind = "users" => "users" \notin loaded
    BY <2>1 DEF InboxInv, AskedOnce
  <2>3. j.kind = "index" => j.of # p /\ j.of \notin loaded
    BY <1>2, <2>1 DEF InboxInv, AskedOnce, Requests, Task
  <2> QED BY <1>0, <1>2, <2>2, <2>3
<1>4. CASE p = user
  <2> DEFINE s == Raise("childAdded", l)
  <2>1. /\ l \in Seq(Texts) /\ IsInjective(l) /\ ToSet(l) = Branch(user)
        /\ s \in Seq(Tasks) /\ (\A j \in ToSet(s): j.kind = "childAdded") /\ Of(s, "childAdded") = l
        /\ \A kind \in Kinds \ {"childAdded"}: Of(s, kind) = <<>>
    BY EntriesRaised DEF InboxInv, Types
  <2> HIDE DEF l, s
  <2>2. inboxQueue' = inboxQueue \o s /\ inboxQueue \in Seq(Tasks) /\ raised' = l
    BY <1>0, <1>4 DEF InboxInv, Types, s
  <2>3. /\ inboxQueue' \in Seq(Tasks) /\ ToSet(inboxQueue') = ToSet(inboxQueue) \cup ToSet(s)
        /\ \A kind \in Kinds: Of(inboxQueue', kind) = Of(inboxQueue, kind) \o Of(s, kind)
    <3>1. inboxQueue \o s \in Seq(Tasks)
      BY <2>1, <2>2, ConcatProperties
    <3>2. ToSet(inboxQueue \o s) = ToSet(inboxQueue) \cup ToSet(s)
      BY <2>1, <2>2, ConcatElements
    <3>3. ASSUME NEW kind \in Kinds PROVE Of(inboxQueue \o s, kind) = Of(inboxQueue, kind) \o Of(s, kind)
      BY <2>1, <2>2, QueueGrows
    <3> QED BY <2>2, <3>1, <3>2, <3>3
  <2>4. \A kind \in Kinds \ {"childAdded"}: Of(inboxQueue', kind) = Of(inboxQueue, kind)
    <3> TAKE kind \in Kinds \ {"childAdded"}
    <3>1. Of(inboxQueue, kind) \in Seq(Subjects(kind))
      BY <2>2, QueueLists
    <3>2. Of(inboxQueue, kind) \o <<>> = Of(inboxQueue, kind)
      BY <3>1, ConcatEmptySeq
    <3> QED BY <2>1, <2>3, <3>2
  <2>5. Types'
    BY <1>0, <1>1, <1>2, <2>1, <2>2, <2>3 DEF InboxInv, Types
  <2>6. ByScreen'
    BY <1>0, <1>1, <1>2, <1>4, <2>1, <2>3 DEF InboxInv, ByScreen
  <2>7. RowsFollow' /\ ListingOnce'
    <3>1. Of(inboxQueue', "reload") = Of(inboxQueue, "reload") /\ Of(inboxQueue', "user") = Of(inboxQueue, "user")
      BY <2>4 DEF Kinds
    <3> QED BY <1>0, <3>1, RowsKept, ListingKept DEF InboxInv
  <2>8. Chat = <<>>
    <3>1. ToSet(Chat) = {}
      BY <1>2, <1>4 DEF InboxInv, EachOnce
    <3> DEFINE M == inboxMessages
               A == Of(inboxQueue, "message")
               B == Of(inboxAsked, "message")
               C == Of(inboxQueue, "childAdded")
    <3>2. M \in Seq(Texts) /\ A \in Seq(Texts) /\ B \in Seq(Texts) /\ C \in Seq(Texts)
      BY Typed DEF InboxInv, Types
    <3>3. Chat = M \o ((A \o B) \o C)
      BY DEF Chat, Reading
    <3> HIDE DEF M, A, B, C
    <3>4. A \o B \in Seq(Texts)
      BY <3>2, ConcatProperties
    <3>5. (A \o B) \o C \in Seq(Texts)
      BY <3>2, <3>4, ConcatProperties
    <3>6. M \o ((A \o B) \o C) \in Seq(Texts)
      BY <3>2, <3>5, ConcatProperties
    <3> DEFINE all == Chat
    <3> HIDE DEF all
    <3>7. all \in Seq(Texts) /\ ToSet(all) = {}
      BY <3>1, <3>3, <3>6 DEF all
    <3>8. all = <<>>
      <4>1. DOMAIN all = 1..Len(all) /\ Len(all) \in Nat
        BY <3>7, LenProperties
      <4>2. Len(all) = 0
        <5> SUFFICES ASSUME Len(all) # 0 PROVE FALSE
          OBVIOUS
        <5>1. 1 \in DOMAIN all
          BY <4>1
        <5> QED BY <3>7, <5>1 DEF ToSet
      <4> QED BY <3>7, <4>2, EmptySeq
    <3> QED BY <3>8 DEF all
  <2>9. Chat' = l
    <3> DEFINE M == inboxMessages
               A == Of(inboxQueue, "message")
               B == Of(inboxAsked, "message")
               C == Of(inboxQueue, "childAdded")
    <3>1. M \in Seq(Texts) /\ A \in Seq(Texts) /\ B \in Seq(Texts) /\ C \in Seq(Texts)
      BY Typed DEF InboxInv, Types
    <3>2. Chat = M \o ((A \o B) \o C)
      BY DEF Chat, Reading
    <3>3. Chat' = M \o ((A \o B) \o (C \o l))
      BY <1>0, <1>2, <2>1, <2>3, <2>4 DEF Chat, Reading, Kinds
    <3> HIDE DEF M, A, B, C
    <3> DEFINE D == A \o B
               E == D \o C
    <3>4. D \in Seq(Texts)
      BY <3>1, ConcatProperties
    <3> HIDE DEF D
    <3>5. E \in Seq(Texts) /\ D \o (C \o l) = E \o l
      <4>1. C \in Seq(Texts) /\ D \in Seq(Texts) /\ l \in Seq(Texts)
        BY <2>1, <3>1, <3>4
      <4>2. D \o C \in Seq(Texts)
        BY ONLY <4>1, ConcatProperties
      <4>3. (D \o C) \o l = D \o (C \o l)
        BY ONLY <4>1, ConcatAssociative
      <4> QED BY <4>2, <4>3
    <3> HIDE DEF E
    <3>6. M \o (E \o l) = (M \o E) \o l
      <4>1. M \in Seq(Texts) /\ E \in Seq(Texts) /\ l \in Seq(Texts)
        BY <2>1, <3>1, <3>5
      <4> QED BY ONLY <4>1, ConcatAssociative
    <3>7. M \o E = <<>>
      BY <2>8, <3>2 DEF D, E
    <3>8. <<>> \o l = l
      BY <2>1, ConcatEmptySeq
    <3> QED BY <3>3, <3>5, <3>6, <3>7, <3>8 DEF D
  <2>10. EachOnce'
    <3>1. Branch(user)' = Branch(user)
      BY <1>0 DEF Branch
    <3>2. user' \in loaded' /\ raised' = l /\ inboxMessages' = inboxMessages
      BY <1>0, <1>4, <2>2
    <3> QED BY <2>1, <2>9, <3>1, <3>2 DEF InboxInv, EachOnce
  <2>11. InOrder'
    BY <2>2, <2>9, FollowsItself DEF InOrder
  <2> QED BY <1>3, <2>5, <2>6, <2>7, <2>10, <2>11 DEF InboxInv
<1>5. CASE p # user
  <2>1. inboxQueue' = inboxQueue /\ raised' = raised
    BY <1>0, <1>5, Typed DEF InboxInv
  <2>2. Types'
    BY <1>0, <1>1, <1>2, <2>1 DEF InboxInv, Types
  <2>3. ByScreen' /\ RowsFollow'
    BY <1>0, <1>1, <2>1 DEF InboxInv, ByScreen, RowsFollow
  <2>4. ListingOnce'
    BY <1>0, <2>1, ListingKept DEF InboxInv
  <2>5. EachOnce' /\ InOrder'
    <3>1. Chat' = Chat
      BY <1>0, <1>2, <2>1 DEF Chat, Reading
    <3>2. user \in loaded' <=> user \in loaded
      BY <1>0, <1>5
    <3> QED BY <1>0, <2>1, <3>1, <3>2, ChatKept DEF InboxInv, EachOnce
  <2> QED BY <1>3, <2>2, <2>3, <2>4, <2>5 DEF InboxInv
<1> QED BY <1>4, <1>5

\* A read that goes from the requests to the queue is in the conversation still.
Returns(M, A, P, D, Q, C) ==
  IsInjective(M \o ((A \o P) \o C)) =>
    /\ IsInjective(M \o ((D \o Q) \o C))
    /\ ToSet(M \o ((D \o Q) \o C)) = ToSet(M \o ((A \o P) \o C))

LEMMA ReadReturns ==
  ASSUME NEW S, NEW M \in Seq(S), NEW A \in Seq(S), NEW a \in Seq(S), NEW b \in Seq(S), NEW C \in Seq(S),
         NEW t \in S
  PROVE  Returns(M, A, a \o (<<t>> \o b), Append(A, t), a \o b, C)
<1> DEFINE P == a \o (<<t>> \o b)
           Q == a \o b
           D == Append(A, t)
<1> SUFFICES ASSUME IsInjective(M \o ((A \o P) \o C))
             PROVE  /\ IsInjective(M \o ((D \o Q) \o C))
                    /\ ToSet(M \o ((D \o Q) \o C)) = ToSet(M \o ((A \o P) \o C))
  BY DEF Returns
<1> DEFINE g == <<t>>
           x == g \o b
<1>1. g \in Seq(S) /\ ToSet(g) = {t}
  BY DEF ToSet
<1> HIDE DEF g
<1>2. x \in Seq(S)
  BY <1>1, ConcatProperties
<1>3. ToSet(x) = ToSet(g) \cup ToSet(b)
  BY <1>1, ConcatElements
<1>4. IsInjective(x) <=> IsInjective(g) /\ IsInjective(b) /\ ToSet(g) \cap ToSet(b) = {}
  BY <1>1, ConcatOnce
<1> HIDE DEF x
<1>5. /\ P \in Seq(S) /\ ToSet(P) = ToSet(a) \cup {t} \cup ToSet(b)
      /\ IsInjective(P) => IsInjective(a) /\ IsInjective(b) /\ t \notin ToSet(a) /\ t \notin ToSet(b)
                           /\ ToSet(a) \cap ToSet(b) = {}
  <2> DEFINE p == a \o x
  <2>1. p \in Seq(S)
    BY <1>2, ConcatProperties
  <2>2. ToSet(p) = ToSet(a) \cup ToSet(x)
    BY <1>2, ConcatElements
  <2>3. IsInjective(p) <=> IsInjective(a) /\ IsInjective(x) /\ ToSet(a) \cap ToSet(x) = {}
    BY <1>2, ConcatOnce
  <2>4. P = p
    BY DEF g, x
  <2> HIDE DEF p, P
  <2> QED BY <1>1, <1>3, <1>4, <2>1, <2>2, <2>3, <2>4
<1>6. /\ Q \in Seq(S) /\ ToSet(Q) = ToSet(a) \cup ToSet(b)
      /\ IsInjective(Q) <=> IsInjective(a) /\ IsInjective(b) /\ ToSet(a) \cap ToSet(b) = {}
  <2>1. Q \in Seq(S)
    BY ConcatProperties
  <2>2. ToSet(Q) = ToSet(a) \cup ToSet(b)
    BY ConcatElements
  <2>3. IsInjective(Q) <=> IsInjective(a) /\ IsInjective(b) /\ ToSet(a) \cap ToSet(b) = {}
    BY ConcatOnce
  <2> QED BY <2>1, <2>2, <2>3
<1>0. /\ D \in Seq(S) /\ ToSet(D) = ToSet(A) \cup {t}
      /\ IsInjective(D) <=> IsInjective(A) /\ t \notin ToSet(A)
  BY AppendProperties, AppendOnce
<1> HIDE DEF P, Q, D
<1>7. Together(M, A, P, C)
  BY <1>5, FourOnce
<1>8. Together(M, D, Q, C)
  BY <1>0, <1>6, FourOnce
<1>9. /\ IsInjective(M) /\ IsInjective(A) /\ IsInjective(P) /\ IsInjective(C)
      /\ ToSet(M) \cap (ToSet(A) \cup ToSet(P) \cup ToSet(C)) = {}
      /\ ToSet(A) \cap (ToSet(P) \cup ToSet(C)) = {} /\ ToSet(P) \cap ToSet(C) = {}
  BY <1>7 DEF Together
<1>10. t \in ToSet(P) /\ ToSet(Q) \subseteq ToSet(P) /\ t \notin ToSet(Q)
  BY <1>5, <1>6, <1>9
<1>11. IsInjective(D) /\ IsInjective(Q)
  BY <1>0, <1>5, <1>6, <1>9, <1>10
<1>12. /\ ToSet(M) \cap (ToSet(D) \cup ToSet(Q) \cup ToSet(C)) = {}
       /\ ToSet(D) \cap (ToSet(Q) \cup ToSet(C)) = {} /\ ToSet(Q) \cap ToSet(C) = {}
  BY <1>0, <1>9, <1>10
<1>13. ToSet(D) \cup ToSet(Q) = ToSet(A) \cup ToSet(P)
  BY <1>0, <1>5, <1>6
<1> QED BY <1>7, <1>8, <1>9, <1>11, <1>12, <1>13 DEF Together

LEMMA MessageAnswered ==
  ASSUME InboxInv, NEW i \in DOMAIN inboxAsked, AnswerRequest(i), inboxAsked[i].kind = "message"
  PROVE  InboxInv'
<1> DEFINE r == inboxAsked[i]
           t == r.of
<1>0. /\ user' = user /\ sheet' = sheet /\ contacts' = contacts /\ inboxMessages' = inboxMessages /\ rows' = rows
      /\ joined' = joined /\ straight' = straight /\ inboxFiled' = inboxFiled /\ raised' = raised
      /\ inboxAsked' = RemoveAt(inboxAsked, i) /\ loaded' = loaded
      /\ inboxQueue' = Append(inboxQueue, r)
      /\ straight => \A j \in 1..(i - 1): inboxAsked[j].kind # "message"
  BY DEF AnswerRequest
<1>1. /\ r \in Requests /\ inboxAsked' \in Seq(Requests)
      /\ ToSet(inboxAsked') \subseteq ToSet(inboxAsked) /\ IsInjective(inboxAsked')
      /\ r \in ToSet(inboxAsked)
  BY <1>0, AskedGoes DEF InboxInv
<1>2. t \in Texts /\ r \in Tasks /\ user # NoPartner
  BY <1>1 DEF Requests, Tasks, Task, InboxInv, ByScreen
<1>3. /\ inboxQueue' \in Seq(Tasks) /\ ToSet(inboxQueue') = ToSet(inboxQueue) \cup {r}
      /\ \A kind \in Kinds: Added(inboxQueue, r, kind)
  BY <1>0, <1>2, QueueAppends DEF InboxInv, Types
<1>4. PICK a \in Seq(Texts), b \in Seq(Texts):
        /\ Of(inboxAsked, "message") = a \o (<<t>> \o b) /\ Of(inboxAsked', "message") = a \o b
        /\ straight => a = <<>>
  <2>1. inboxAsked \in Seq(Requests)
    BY DEF InboxInv, Types
  <2>2. \E a, b \in Seq(Texts):
          /\ Of(inboxAsked, "message") = a \o (<<t>> \o b) /\ Of(inboxAsked', "message") = a \o b
          /\ (\A j \in 1..(i - 1): inboxAsked[j].kind # "message") => a = <<>>
    <3>1. Remaining(inboxAsked, i, inboxAsked[i], inboxAsked')
      BY <1>0, <2>1, RequestGoes
    <3> QED BY <3>1 DEF Remaining
  <2> QED BY <1>0, <2>2
<1> DEFINE M == inboxMessages
           A == Of(inboxQueue, "message")
           C == Of(inboxQueue, "childAdded")
           P == a \o (<<t>> \o b)
           Q == a \o b
           D == Append(A, t)
<1>5. M \in Seq(Texts) /\ A \in Seq(Texts) /\ C \in Seq(Texts)
  BY Typed DEF InboxInv, Types
<1>6. Chat = M \o ((A \o P) \o C)
  BY <1>4 DEF Chat, Reading
<1>7. Chat' = M \o ((D \o Q) \o C)
  BY <1>0, <1>3, <1>4 DEF Chat, Reading, Added, Kinds
<1>8. EachOnce'
  <2>1. IsInjective(Chat)
    BY DEF InboxInv, EachOnce
  <2>2. IsInjective(Chat') /\ ToSet(Chat') = ToSet(Chat)
    <3> HIDE DEF M, A, C, t
    <3>1. Returns(M, A, P, D, Q, C)
      BY <1>2, <1>5, ReadReturns
    <3> QED BY <1>6, <1>7, <2>1, <3>1 DEF Returns
  <2>3. Branch(user)' = Branch(user)
    BY <1>0 DEF Branch
  <2> QED BY <1>0, <2>2, <2>3 DEF InboxInv, EachOnce
\* While straight no read before it waits, and nothing moves.
<1>9. InOrder'
  <2> SUFFICES ASSUME straight' PROVE Follows(Chat', raised')
    BY DEF InOrder
  <2>1. P = <<t>> \o b /\ Q = b
    <3> DEFINE x == <<t>> \o b
    <3>1. a = <<>> /\ x \in Seq(Texts)
      BY <1>0, <1>2, <1>4
    <3> HIDE DEF x
    <3>2. <<>> \o x = x /\ <<>> \o b = b
      BY <1>4, <3>1, ConcatEmptySeq
    <3> QED BY <3>1, <3>2 DEF x
  <2>2. Chat' = Chat
    <3> HIDE DEF M, A, C, P, Q, t
    <3>1. Passes(M, A, b, C, t)
      BY <1>2, <1>4, <1>5, Advances
    <3> QED BY <1>6, <1>7, <2>1, <3>1 DEF Passes
  <2> QED BY <1>0, <2>2 DEF InboxInv, InOrder
<1>10. RowsFollow' /\ ListingOnce'
  <2>1. Of(inboxQueue', "reload") = Of(inboxQueue, "reload") /\ Of(inboxQueue', "user") = Of(inboxQueue, "user")
    BY <1>0, <1>3 DEF Added, Kinds
  <2> QED BY <1>0, <2>1, RowsKept, ListingKept DEF InboxInv
<1>11. Types'
  BY <1>0, <1>1, <1>3 DEF InboxInv, Types
<1>12. ByScreen' /\ AskedOnce'
  BY <1>0, <1>1, <1>2, <1>3 DEF InboxInv, ByScreen, AskedOnce
<1> QED BY <1>8, <1>9, <1>10, <1>11, <1>12 DEF InboxInv

LEMMA AnswerStep ==
  ASSUME InboxInv, NEW i \in DOMAIN inboxAsked, AnswerRequest(i) PROVE InboxInv'
<1>1. inboxAsked[i].kind \in {"users", "index", "message"}
  <2>1. inboxAsked[i] \in Requests
    BY ElementOfSeq, LenProperties DEF InboxInv, Types
  <2> QED BY <2>1 DEF Requests, Task
<1> QED BY <1>1, UsersAnswered, IndexAnswered, MessageAnswered

\* After a reconnect nothing is promised of the order.
LEMMA ResumeStep ==
  ASSUME InboxInv, Resume PROVE InboxInv'
<1>0. /\ user' = user /\ sheet' = sheet /\ contacts' = contacts /\ inboxMessages' = inboxMessages /\ rows' = rows
      /\ joined' = joined /\ straight' = FALSE /\ inboxFiled' = inboxFiled /\ raised' = raised
      /\ inboxAsked' = inboxAsked /\ inboxQueue' = inboxQueue /\ loaded' = loaded
  BY DEF Resume
<1>1. Chat' = Chat
  BY <1>0 DEF Chat, Reading
<1>2. EachOnce' /\ InOrder'
  BY <1>0, <1>1, ChatKept DEF InboxInv, EachOnce
<1>3. Types' /\ ByScreen' /\ AskedOnce' /\ RowsFollow'
  BY <1>0 DEF InboxInv, Types, ByScreen, AskedOnce, RowsFollow
<1>4. ListingOnce'
  BY <1>0, ListingKept DEF InboxInv
<1> QED BY <1>2, <1>3, <1>4 DEF InboxInv

\* Adding a listen that does not wait yet.
LEMMA AskOnceKeeps ==
  ASSUME Types, AskedOnce, NEW r \in Requests, r.kind # "message",
         r.kind = "users" => "users" \notin loaded, r.kind = "index" => r.of \notin loaded
  PROVE  /\ AskOnce(r.kind, r.of) \in Seq(Requests) /\ IsInjective(AskOnce(r.kind, r.of))
         /\ ToSet(AskOnce(r.kind, r.of)) = ToSet(inboxAsked) \cup {r}
         /\ Of(AskOnce(r.kind, r.of), "message") = Of(inboxAsked, "message")
<1>1. Task(r.kind, r.of) = r
  BY DEF Requests, Task
<1>2. inboxAsked \in Seq(Requests) /\ IsInjective(inboxAsked)
  BY DEF Types, AskedOnce
<1>3. CASE r \in ToSet(inboxAsked)
  BY <1>1, <1>2, <1>3 DEF AskOnce
<1>4. CASE r \notin ToSet(inboxAsked)
  <2>1. AskOnce(r.kind, r.of) = Append(inboxAsked, r)
    BY <1>1, <1>4 DEF AskOnce
  <2>2. Append(inboxAsked, r) \in Seq(Requests) /\ Added(inboxAsked, r, "message")
    BY <1>2, AskedGrows
  <2>3. /\ ToSet(Append(inboxAsked, r)) = ToSet(inboxAsked) \cup {r}
        /\ IsInjective(Append(inboxAsked, r))
    BY <1>2, <1>4, AppendOnce
  <2> QED BY <2>1, <2>2, <2>3 DEF Added
<1> QED BY <1>3, <1>4

LEMMA ShowContactsStep ==
  ASSUME InboxInv, ShowContacts PROVE InboxInv'
<1>0. /\ user = NoPartner /\ user' = NoPartner /\ contacts' = <<>> /\ sheet' = TRUE
      /\ inboxMessages' = inboxMessages /\ rows' = rows /\ raised' = raised
      /\ loaded' = loaded /\ joined' = joined /\ inboxFiled' = inboxFiled /\ straight' = straight
  BY DEF ShowContacts
<1>1. inboxMessages = <<>> /\ rows = <<>> /\ raised = <<>> /\ \A j \in ToSet(inboxAsked): j.kind # "message"
  BY <1>0 DEF InboxInv, ByScreen
<1>2. ASSUME inboxQueue' \in Seq(Tasks), \A j \in ToSet(inboxQueue'): j.kind = "user",
             inboxAsked' \in Seq(Requests), \A j \in ToSet(inboxAsked'): j.kind # "message",
             AskedOnce', ListingOnce'
      PROVE  InboxInv'
  <2>1. Types'
    <3>1. contacts' \in Seq(Contacts \cup {Me})
      BY <1>0
    <3> QED BY <1>0, <1>2, <3>1 DEF InboxInv, Types
  <2>2. ByScreen'
    BY <1>0, <1>1, <1>2 DEF ByScreen
  <2> QED BY <1>0, <1>2, <2>1, <2>2, IdleNext DEF InboxInv, Types
<1>3. CASE "users" \in loaded
  <2> DEFINE l == SetToSeq(joined)
             s == Raise("user", l)
  <2>1. /\ l \in Seq(Contacts \cup {Me}) /\ IsInjective(l) /\ ToSet(l) = joined
        /\ s \in Seq(Tasks) /\ (\A j \in ToSet(s): j.kind = "user") /\ Of(s, "user") = l
    BY UsersRaised DEF InboxInv, Types
  <2>2. inboxQueue' = s /\ inboxAsked' = inboxAsked
    BY <1>3 DEF ShowContacts
  <2> HIDE DEF l, s
  <2>3. ListingOnce'
    <3>1. <<>> \o l = l
      BY <2>1, ConcatEmptySeq
    <3>2. Listing' = l
      BY <1>0, <2>1, <2>2, <3>1 DEF Listing
    <3> QED BY <1>0, <1>3, <2>1, <3>2 DEF ListingOnce
  <2>4. AskedOnce'
    BY <1>0, <2>2 DEF InboxInv, AskedOnce
  <2>5. inboxAsked \in Seq(Requests)
    BY DEF InboxInv, Types
  <2> QED BY <1>1, <1>2, <2>1, <2>2, <2>3, <2>4, <2>5
<1>4. CASE "users" \notin loaded
  <2> DEFINE r == Task("users", Me)
  <2>1. r \in Requests /\ r.kind = "users" /\ r.of = Me
    BY DEF Requests, Task
  <2> HIDE DEF r
  <2>2. inboxQueue' = <<>> /\ inboxAsked' = AskOnce(r.kind, r.of)
    BY <1>4, <2>1 DEF ShowContacts
  <2>3. /\ inboxAsked' \in Seq(Requests) /\ IsInjective(inboxAsked')
        /\ ToSet(inboxAsked') = ToSet(inboxAsked) \cup {r}
    BY <1>4, <2>1, <2>2, AskOnceKeeps DEF InboxInv
  <2>4. AskedOnce'
    BY <1>0, <1>4, <2>1, <2>3 DEF InboxInv, AskedOnce
  <2>5. ListingOnce'
    <3>1. Of(inboxQueue', "user") = <<>>
      BY <2>2, OfNothing
    <3>2. Listing' = <<>>
      BY <1>0, <3>1 DEF Listing
    <3> QED BY <1>0, <3>2 DEF ListingOnce, IsInjective, ToSet
  <2>6. inboxQueue' \in Seq(Tasks) /\ ToSet(inboxQueue') = {}
    BY <2>2 DEF ToSet
  <2> QED BY <1>1, <1>2, <2>1, <2>3, <2>4, <2>5, <2>6
<1> QED BY <1>3, <1>4

LEMMA SelectContactStep ==
  ASSUME InboxInv, NEW i \in DOMAIN contacts, SelectContact(i) PROVE InboxInv'
<1> DEFINE j == Task("dismissed", contacts[i])
<1>0. /\ sheet /\ sheet' = FALSE /\ user' = user /\ contacts' = contacts /\ inboxMessages' = inboxMessages
      /\ rows' = rows /\ raised' = raised /\ loaded' = loaded /\ joined' = joined /\ inboxFiled' = inboxFiled
      /\ straight' = straight /\ inboxAsked' = inboxAsked /\ inboxQueue' = <<j>>
  BY DEF SelectContact
<1>1. user = NoPartner
  BY <1>0 DEF InboxInv, Types
<1>2. j \in Tasks /\ j.kind = "dismissed"
  BY DEF SelectContact, Tasks, Task
<1> HIDE DEF j
<1>3. inboxQueue' \in Seq(Tasks) /\ ToSet(inboxQueue') = {j} /\ Len(inboxQueue') = 1
  BY <1>0, <1>2 DEF ToSet
<1>4. Types'
  BY <1>0, <1>3 DEF InboxInv, Types
<1>5. ByScreen'
  BY <1>0, <1>1, <1>2, <1>3 DEF InboxInv, ByScreen
<1>6. Of(inboxQueue', "user") = <<>>
  BY <1>2, <1>3, OfElements
<1>7. ListingOnce'
  BY <1>0, <1>6, ListingGone DEF InboxInv, Types
<1>8. AskedOnce'
  BY <1>0 DEF InboxInv, AskedOnce
<1> QED BY <1>0, <1>1, <1>4, <1>5, <1>7, <1>8, IdleNext DEF InboxInv, Types

LEMMA DismissStep ==
  ASSUME InboxInv, Dismiss PROVE InboxInv'
<1>0. /\ sheet /\ sheet' = FALSE /\ user' = user /\ contacts' = contacts /\ inboxMessages' = inboxMessages
      /\ rows' = rows /\ raised' = raised /\ loaded' = loaded /\ joined' = joined /\ inboxFiled' = inboxFiled
      /\ straight' = straight /\ inboxAsked' = inboxAsked /\ inboxQueue' = <<>>
  BY DEF Dismiss
<1>1. user = NoPartner
  BY <1>0 DEF InboxInv, Types
<1>2. inboxQueue' \in Seq(Tasks) /\ ToSet(inboxQueue') = {}
  BY <1>0 DEF ToSet
<1>3. Types'
  BY <1>0, <1>2 DEF InboxInv, Types
<1>4. ByScreen'
  BY <1>0, <1>1, <1>2 DEF InboxInv, ByScreen
<1>5. Of(inboxQueue', "user") = <<>>
  BY <1>0, OfNothing
<1>6. ListingOnce'
  BY <1>0, <1>5, ListingGone DEF InboxInv, Types
<1>7. AskedOnce'
  BY <1>0 DEF InboxInv, AskedOnce
<1> QED BY <1>0, <1>1, <1>3, <1>4, <1>6, <1>7, IdleNext DEF InboxInv, Types

LEMMA LeaveInboxStep ==
  ASSUME InboxInv, LeaveInbox PROVE InboxInv'
<1>0. /\ sheet' = sheet /\ user' = NoPartner /\ contacts' = contacts /\ inboxMessages' = <<>>
      /\ rows' = <<>> /\ raised' = <<>> /\ loaded' = loaded /\ joined' = joined /\ inboxFiled' = inboxFiled
      /\ straight' = FALSE /\ inboxAsked' = Those(inboxAsked, {"users", "index"}) /\ inboxQueue' = <<>>
  BY DEF LeaveInbox
<1>1. inboxQueue' \in Seq(Tasks) /\ ToSet(inboxQueue') = {}
  BY <1>0 DEF ToSet
<1>2. /\ inboxAsked' \in Seq(Requests) /\ IsInjective(inboxAsked')
      /\ ToSet(inboxAsked') = {j \in ToSet(inboxAsked): j.kind \in {"users", "index"}}
  BY <1>0, ThoseType, ThoseElements DEF InboxInv, Types, AskedOnce
<1>3. Types'
  <2>1. <<>> \in Seq(Texts)
    OBVIOUS
  <2> QED BY <1>0, <1>1, <1>2, <2>1 DEF InboxInv, Types
<1>4. ByScreen'
  BY <1>0, <1>1, <1>2 DEF ByScreen
<1>5. AskedOnce'
  BY <1>0, <1>2 DEF InboxInv, AskedOnce
<1>6. ListingOnce'
  <2>1. Of(inboxQueue', "user") = <<>>
    BY <1>0, OfNothing
  <2> QED BY <1>0, <2>1, ListingGone DEF InboxInv, Types
<1> QED BY <1>0, <1>3, <1>4, <1>5, <1>6, IdleNext DEF InboxInv, Types

LEMMA SendStep ==
  ASSUME InboxInv, Send PROVE InboxInv'
<1>0. /\ sheet' = sheet /\ user' = user /\ contacts' = contacts /\ inboxMessages' = inboxMessages
      /\ rows' = inboxMessages /\ raised' = raised /\ loaded' = loaded /\ joined' = joined
      /\ inboxFiled' = inboxFiled /\ straight' = straight /\ inboxAsked' = inboxAsked /\ inboxQueue' = inboxQueue
      /\ user # NoPartner
  BY DEF Send
<1>1. Types' /\ ByScreen' /\ AskedOnce'
  BY <1>0 DEF InboxInv, Types, ByScreen, AskedOnce
<1>2. EachOnce' /\ InOrder'
  <2>1. Chat' = Chat
    BY <1>0 DEF Chat, Reading
  <2> QED BY <1>0, <2>1, ChatKept DEF InboxInv, EachOnce
<1>3. ListingOnce'
  BY <1>0, ListingKept DEF InboxInv
<1>4. RowsFollow'
  <2>1. IsPrefix(inboxMessages, inboxMessages)
    <3>1. Len(inboxMessages) \in Nat
      BY LenProperties DEF InboxInv, Types
    <3> QED BY <3>1 DEF IsPrefix
  <2> QED BY <1>0, <2>1 DEF RowsFollow
<1> QED BY <1>1, <1>2, <1>3, <1>4 DEF InboxInv

\* The first block of the queue goes.
LEMMA QueueGoes ==
  ASSUME Types, inboxQueue # <<>>
  PROVE  /\ Turn \in Tasks /\ Tail(inboxQueue) \in Seq(Tasks) /\ Tail(inboxQueue) \o <<>> = Tail(inboxQueue)
         /\ ToSet(inboxQueue) = {Turn} \cup ToSet(Tail(inboxQueue))
         /\ Len(inboxQueue) = 1 => Tail(inboxQueue) = <<>> /\ ToSet(Tail(inboxQueue)) = {}
         /\ \A kind \in Kinds: Taken(inboxQueue, kind)
<1>1. inboxQueue \in Seq(Tasks)
  BY DEF Types
<1>2. /\ Head(inboxQueue) \in Tasks /\ Tail(inboxQueue) \in Seq(Tasks)
      /\ Len(inboxQueue) = Len(Tail(inboxQueue)) + 1
      /\ ToSet(inboxQueue) = {Head(inboxQueue)} \cup ToSet(Tail(inboxQueue))
  BY <1>1, HeadTailOnce
<1> DEFINE t == Tail(inboxQueue)
<1>3. t \in Seq(Tasks) /\ Len(inboxQueue) = Len(t) + 1
  BY <1>2
<1> HIDE DEF t
<1>4. t \o <<>> = t
  BY <1>3, ConcatEmptySeq
<1>5. Len(t) = 0 => t = <<>> /\ ToSet(t) = {}
  <2>1. Len(t) = 0 => t = <<>>
    BY <1>3, EmptySeq
  <2>2. ToSet(<<>>) = {}
    BY DEF ToSet
  <2> QED BY <2>1, <2>2
<1>6. \A kind \in Kinds: Taken(inboxQueue, kind)
  BY <1>1, QueueTurns
<1>7. Len(inboxQueue) = 1 => Len(t) = 0
  <2>1. Len(t) \in Nat
    BY <1>3, LenProperties
  <2>2. \A n \in Nat: n + 1 = 1 => n = 0
    OBVIOUS
  <2> QED BY <1>3, <2>1, <2>2
<1> QED BY <1>2, <1>4, <1>5, <1>6, <1>7 DEF t, Turn

LEMMA ContactStep ==
  ASSUME InboxInv, ContactBlock PROVE InboxInv'
<1> DEFINE u == Turn.of
           P == Contacts \cup {Me}
           w == Of(Tail(inboxQueue), "user")
<1>0. /\ sheet' = sheet /\ user' = user /\ inboxMessages' = inboxMessages /\ rows' = rows /\ raised' = raised
      /\ loaded' = loaded /\ joined' = joined /\ inboxFiled' = inboxFiled /\ straight' = straight
      /\ inboxAsked' = inboxAsked /\ inboxQueue # <<>> /\ Turn.kind = "user"
      /\ contacts' = IF u = Me THEN contacts ELSE Append(contacts, u)
      /\ inboxQueue' = Tail(inboxQueue)
  BY QueueGoes DEF InboxInv, ContactBlock, RunTask, Turn
<1>1. /\ Turn \in Tasks /\ inboxQueue' \in Seq(Tasks) /\ ToSet(inboxQueue) = {Turn} \cup ToSet(inboxQueue')
      /\ Len(inboxQueue) = 1 => ToSet(inboxQueue') = {}
      /\ \A kind \in Kinds: Taken(inboxQueue, kind)
  BY <1>0, QueueGoes DEF InboxInv
<1>2. user = NoPartner /\ u \in P
  BY <1>0, <1>1 DEF InboxInv, ByScreen, Tasks, Task
<1>3. ByScreen'
  BY <1>0, <1>1, <1>2 DEF InboxInv, ByScreen
<1>4. Listing = contacts \o (<<u>> \o w)
  BY <1>0, <1>1 DEF Listing, Taken, Kinds, Turn
<1>5. contacts \in Seq(P) /\ w \in Seq(P) /\ <<u>> \in Seq(P)
  <2>1. "user" \in Kinds
    BY DEF Kinds
  <2>2. w \in Seq(P)
    BY <1>0, <1>1, <2>1, QueueLists DEF Subjects
  <2> QED BY <1>2, <2>2 DEF InboxInv, Types
<1>6. Listing' = contacts' \o w
  BY <1>0 DEF Listing
<1> HIDE DEF u, P, w
<1>7. Types'
  <2>1. contacts' \in Seq(P)
    BY <1>0, <1>2, <1>5, AppendProperties
  <2> QED BY <1>0, <1>1, <2>1 DEF InboxInv, Types, P
<1>8. ListingOnce'
  <2>1. CASE u # Me
    <3>1. Passes(<<>>, contacts, w, <<>>, u)
      <4>1. <<>> \in Seq(P)
        OBVIOUS
      <4> QED BY <1>2, <1>5, <4>1, Advances
    <3>2. Listing' = Listing
      BY <1>0, <1>4, <1>6, <2>1, <3>1 DEF Passes
    <3>3. \A i \in DOMAIN contacts': contacts'[i] # Me
      <4>1. contacts' = Append(contacts, u) /\ Len(contacts) \in Nat /\ DOMAIN contacts = 1..Len(contacts)
        BY <1>0, <1>5, <2>1, LenProperties
      <4>2. /\ Append(contacts, u) \in Seq(P) /\ Len(Append(contacts, u)) = Len(contacts) + 1
            /\ \A i \in 1..Len(contacts): Append(contacts, u)[i] = contacts[i]
            /\ Append(contacts, u)[Len(contacts) + 1] = u
        BY <1>2, <1>5, AppendProperties
      <4>3. DOMAIN contacts' = 1..(Len(contacts) + 1)
        BY <4>1, <4>2, LenProperties
      <4>4. \A i \in 1..Len(contacts): contacts[i] # Me
        BY <4>1 DEF InboxInv, ListingOnce
      <4> QED BY <2>1, <4>1, <4>2, <4>3, <4>4
    <3> QED BY <1>0, <3>2, <3>3 DEF InboxInv, ListingOnce
  <2>2. CASE u = Me
    <3> DEFINE g == <<u>>
               x == g \o w
    <3>1. g \in Seq(P) /\ w \in Seq(P) /\ contacts \in Seq(P) /\ g # <<>>
      BY <1>5
    <3> HIDE DEF g
    <3>2. x \in Seq(P)
      BY ONLY <3>1, ConcatProperties
    <3>3. x # <<>>
      BY ONLY <3>1, ConcatEqualIffEmpty
    <3>4. ToSet(x) = ToSet(g) \cup ToSet(w)
      BY ONLY <3>1, ConcatElements
    <3>5. IsInjective(x) => IsInjective(w)
      BY ONLY <3>1, ConcatOnce
    <3> HIDE DEF x
    <3>6. Listing = contacts \o x /\ Listing' = contacts \o w
      BY <1>0, <1>4, <1>6, <2>2 DEF x, g
    <3>7. contacts \o x # <<>>
      BY ONLY <3>1, <3>2, <3>3, ConcatEqualIffEmpty
    <3>8. IsInjective(contacts \o x) => IsInjective(contacts) /\ IsInjective(x) /\ ToSet(contacts) \cap ToSet(x) = {}
      BY ONLY <3>1, <3>2, ConcatOnce
    <3>9. ToSet(contacts \o x) = ToSet(contacts) \cup ToSet(x)
      BY ONLY <3>1, <3>2, ConcatElements
    <3>10. IsInjective(contacts \o w) <=> IsInjective(contacts) /\ IsInjective(w) /\ ToSet(contacts) \cap ToSet(w) = {}
      BY ONLY <3>1, ConcatOnce
    <3>11. ToSet(contacts \o w) = ToSet(contacts) \cup ToSet(w)
      BY ONLY <3>1, ConcatElements
    <3>12. IsInjective(contacts \o x) /\ ToSet(contacts \o x) \subseteq joined /\ "users" \in loaded
      BY <3>6, <3>7 DEF InboxInv, ListingOnce
    <3>13. IsInjective(contacts \o w) /\ ToSet(contacts \o w) \subseteq joined
      BY <3>4, <3>5, <3>8, <3>9, <3>10, <3>11, <3>12
    <3> QED BY <1>0, <2>2, <3>6, <3>12, <3>13 DEF InboxInv, ListingOnce
  <2> QED BY <2>1, <2>2
<1>9. AskedOnce'
  BY <1>0 DEF InboxInv, AskedOnce
<1> QED BY <1>0, <1>2, <1>3, <1>7, <1>8, <1>9, IdleNext DEF InboxInv, Types

LEMMA DismissedStep ==
  ASSUME InboxInv, DismissedBlock PROVE InboxInv'
<1> DEFINE p == Turn.of
           l == ByKey(Branch(p))
<1>0. /\ sheet' = sheet /\ user' = p /\ contacts' = contacts /\ inboxMessages' = <<>> /\ rows' = <<>>
      /\ loaded' = loaded /\ joined' = joined /\ inboxFiled' = inboxFiled /\ straight' \in BOOLEAN
      /\ inboxQueue # <<>> /\ Turn.kind = "dismissed"
  BY DEF DismissedBlock
<1>1. /\ Turn \in Tasks /\ ToSet(inboxQueue) = {Turn} \cup ToSet(Tail(inboxQueue))
      /\ Len(inboxQueue) = 1 => Tail(inboxQueue) = <<>>
  BY <1>0, QueueGoes DEF InboxInv
<1>2. user = NoPartner /\ ~sheet /\ Tail(inboxQueue) = <<>>
  <2>1. Turn \in ToSet(inboxQueue)
    BY <1>1
  <2>2. ~sheet /\ Len(inboxQueue) = 1
    BY <1>0, <2>1 DEF InboxInv, ByScreen
  <2>3. user = NoPartner
    BY <1>0, <2>1 DEF InboxInv, ByScreen
  <2> QED BY <1>1, <2>2, <2>3
<1>3. p \in Contacts /\ p # NoPartner
  <2>1. Turn \in [kind: {"dismissed"}, of: Contacts]
    <3>1. Turn \in Tasks
      BY <1>1
    <3> QED BY <1>0, <3>1 DEF Tasks, Task
  <2> QED BY <2>1, InboxAssumption
<1>4. \A j \in ToSet(inboxAsked): j.kind # "message"
  BY <1>2 DEF InboxInv, ByScreen
<1>5. Of(inboxAsked, "message") = <<>>
  BY <1>4, OfElements DEF InboxInv, Types
<1>6. IsPrefix(<<>>, <<>>)
  BY DEF IsPrefix
<1>7. RowsFollow'
  BY <1>0, <1>6 DEF RowsFollow
<1>8. CASE p \in loaded
  <2> DEFINE s == Raise("childAdded", l)
  <2>1. /\ l \in Seq(Texts) /\ IsInjective(l) /\ ToSet(l) = Branch(p)
        /\ s \in Seq(Tasks) /\ (\A j \in ToSet(s): j.kind = "childAdded") /\ Of(s, "childAdded") = l
        /\ \A kind \in Kinds \ {"childAdded"}: Of(s, kind) = <<>>
    BY EntriesRaised DEF InboxInv, Types
  <2>2. raised' = l /\ inboxAsked' = inboxAsked /\ inboxQueue' = <<>> \o s
    BY <1>2, <1>8 DEF DismissedBlock, ObserveMessages
  <2> HIDE DEF l, s
  <2>3. inboxQueue' = s
    BY <2>1, <2>2, ConcatEmptySeq
  <2>4. Types'
    BY <1>0, <1>2, <1>3, <2>1, <2>2, <2>3 DEF InboxInv, Types
  <2>5. ByScreen'
    BY <1>0, <1>3, <2>1, <2>3 DEF ByScreen
  <2>6. Chat' = l
    <3>1. Chat' = <<>> \o ((<<>> \o <<>>) \o l)
      <4>1. /\ inboxMessages' = <<>> /\ Of(inboxQueue', "message") = <<>>
            /\ Of(inboxAsked', "message") = <<>> /\ Of(inboxQueue', "childAdded") = l
        BY <1>0, <1>5, <2>1, <2>2, <2>3 DEF Kinds
      <4> QED BY <4>1 DEF Chat, Reading
    <3>2. <<>> \o l = l /\ <<>> \o <<>> = <<>>
      BY <2>1, ConcatEmptySeq
    <3> QED BY <3>1, <3>2
  <2>7. EachOnce'
    <3>1. Branch(user)' = Branch(p)
      BY <1>0 DEF Branch
    <3> QED BY <1>0, <1>8, <2>1, <2>2, <2>6, <3>1 DEF EachOnce, ToSet
  <2>8. InOrder'
    BY <2>2, <2>6, FollowsItself DEF InOrder
  <2>9. ListingOnce'
    <3>1. Of(inboxQueue', "user") = <<>>
      BY <2>1, <2>3 DEF Kinds
    <3> QED BY <1>0, <3>1, ListingGone DEF InboxInv, Types
  <2>10. AskedOnce'
    BY <1>0, <2>2 DEF InboxInv, AskedOnce
  <2> QED BY <1>7, <2>4, <2>5, <2>7, <2>8, <2>9, <2>10 DEF InboxInv
<1>9. CASE p \notin loaded
  <2> DEFINE r == Task("index", p)
  <2>1. r \in Requests /\ r.kind = "index" /\ r.of = p
    BY <1>3 DEF Requests, Task
  <2> HIDE DEF r
  <2>2. raised' = <<>> /\ inboxAsked' = AskOnce(r.kind, r.of) /\ inboxQueue' = <<>>
    BY <1>2, <1>9, <2>1 DEF DismissedBlock, ObserveMessages
  <2>3. /\ inboxAsked' \in Seq(Requests) /\ IsInjective(inboxAsked')
        /\ ToSet(inboxAsked') = ToSet(inboxAsked) \cup {r}
        /\ Of(inboxAsked', "message") = <<>>
    BY <1>5, <1>9, <2>1, <2>2, AskOnceKeeps DEF InboxInv
  <2>4. inboxQueue' \in Seq(Tasks) /\ ToSet(inboxQueue') = {} /\ \A kind \in Kinds: Of(inboxQueue', kind) = <<>>
    BY <2>2, OfNothing DEF ToSet
  <2>5. Types'
    <3>1. <<>> \in Seq(Texts)
      OBVIOUS
    <3> QED BY <1>0, <1>2, <1>3, <2>2, <2>3, <2>4, <3>1 DEF InboxInv, Types
  <2>6. ByScreen'
    BY <1>0, <1>3, <2>4 DEF ByScreen
  <2>7. Chat' = <<>>
    <3>1. Chat' = <<>> \o ((<<>> \o <<>>) \o <<>>)
      BY <1>0, <2>3, <2>4 DEF Chat, Reading, Kinds
    <3> QED BY <3>1
  <2>8. EachOnce' /\ InOrder'
    BY <1>0, <1>9, <2>2, <2>7 DEF EachOnce, InOrder, Follows, IsInjective, ToSet
  <2>9. ListingOnce'
    <3>1. Of(inboxQueue', "user") = <<>>
      BY <2>4 DEF Kinds
    <3> QED BY <1>0, <3>1, ListingGone DEF InboxInv, Types
  <2>10. AskedOnce'
    BY <1>0, <1>9, <2>1, <2>3 DEF InboxInv, AskedOnce
  <2> QED BY <1>7, <2>5, <2>6, <2>8, <2>9, <2>10 DEF InboxInv
<1> QED BY <1>8, <1>9

LEMMA EntryStep ==
  ASSUME InboxInv, EntryBlock PROVE InboxInv'
<1> DEFINE t == Turn.of
           r == Task("message", t)
           q == Tail(inboxQueue)
<1>0. /\ sheet' = sheet /\ user' = user /\ contacts' = contacts /\ inboxMessages' = inboxMessages /\ rows' = rows
      /\ raised' = raised /\ loaded' = loaded /\ joined' = joined /\ inboxFiled' = inboxFiled
      /\ straight' = straight /\ inboxAsked' = Append(inboxAsked, r) /\ inboxQueue # <<>>
      /\ Turn.kind = "childAdded" /\ inboxQueue' = q
  BY QueueGoes DEF InboxInv, EntryBlock, RunTask, Turn
<1>1. /\ Turn \in Tasks /\ q \in Seq(Tasks) /\ ToSet(inboxQueue) = {Turn} \cup ToSet(q)
      /\ Len(inboxQueue) = 1 => ToSet(q) = {}
      /\ \A kind \in Kinds: Taken(inboxQueue, kind)
  BY <1>0, QueueGoes DEF InboxInv
<1>2. t \in Texts
  <2>1. Turn \in [kind: {"childAdded", "message"}, of: Texts]
    BY <1>0, <1>1 DEF Tasks, Task
  <2> QED BY <2>1
<1>3. user # NoPartner
  BY <1>0, <1>1 DEF InboxInv, ByScreen
<1>4. r \in Requests /\ r.kind = "message" /\ r.of = t
  BY <1>2 DEF Requests, Task
<1>5. inboxAsked \in Seq(Requests) /\ IsInjective(inboxAsked)
  BY DEF InboxInv, Types, AskedOnce
<1> DEFINE M == inboxMessages
           A == Of(q, "message")
           B == Of(inboxAsked, "message")
           C == Of(q, "childAdded")
<1>6. M \in Seq(Texts) /\ A \in Seq(Texts) /\ B \in Seq(Texts) /\ C \in Seq(Texts)
  <2>1. "message" \in Kinds /\ "childAdded" \in Kinds
    BY DEF Kinds
  <2>2. A \in Seq(Texts) /\ C \in Seq(Texts)
    BY <1>1, <2>1, QueueLists DEF Subjects
  <2> QED BY <1>5, <2>2, AskedLists DEF InboxInv, Types
<1>7. Of(inboxQueue, "message") = A /\ Of(inboxQueue, "childAdded") = <<t>> \o C
  BY <1>0, <1>1 DEF Taken, Kinds, Turn
<1>8. Chat = M \o ((A \o B) \o (<<t>> \o C))
  BY <1>7 DEF Chat, Reading
<1>9. Append(inboxAsked, r) \in Seq(Requests) /\ Of(Append(inboxAsked, r), "message") = Append(B, t)
  BY <1>4, <1>5, AskedGrows DEF Added
<1>10. Chat' = M \o ((A \o Append(B, t)) \o C)
  BY <1>0, <1>9 DEF Chat, Reading
<1>11. ToSet(B) = {j.of: j \in {i \in ToSet(inboxAsked): i.kind = "message"}}
  BY <1>5, OfElements
<1>12. r \in ToSet(inboxAsked) => t \in ToSet(B)
  BY <1>4, <1>11
<1>13. IsInjective(Chat)
  BY DEF InboxInv, EachOnce
<1>14. t \notin ToSet(B)
  <2> HIDE DEF A, B, C, M, t
  <2> DEFINE g == <<t>>
             x == g \o C
  <2>1. g \in Seq(Texts) /\ ToSet(g) = {t}
    BY <1>2 DEF ToSet
  <2> HIDE DEF g
  <2>2. x \in Seq(Texts) /\ ToSet(x) = ToSet(g) \cup ToSet(C)
    BY <1>6, <2>1, ConcatProperties, ConcatElements
  <2>3. Chat = M \o ((A \o B) \o x)
    BY <1>8 DEF g
  <2> HIDE DEF x
  <2>4. Together(M, A, B, x)
    BY <1>6, <2>2, FourOnce
  <2> QED BY <1>13, <2>1, <2>2, <2>3, <2>4 DEF Together
<1>15. Chat' = Chat
  <2> HIDE DEF A, B, C, M, t
  <2>1. Passes(M, A, B, C, t)
    BY <1>2, <1>6, Advances
  <2> QED BY <1>8, <1>10, <2>1 DEF Passes
<1> HIDE DEF r
<1>16. /\ ToSet(inboxAsked') = ToSet(inboxAsked) \cup {r}
       /\ IsInjective(inboxAsked')
  BY <1>0, <1>4, <1>5, <1>12, <1>14, AppendOnce
<1>17. EachOnce' /\ InOrder'
  BY <1>0, <1>15, ChatKept DEF InboxInv, EachOnce
<1>18. RowsFollow' /\ ListingOnce'
  <2>1. Of(inboxQueue, "reload") = Of(q, "reload") /\ Of(inboxQueue, "user") = Of(q, "user")
    BY <1>0, <1>1 DEF Taken, Kinds, Turn
  <2> QED BY <1>0, <2>1, RowsKept, ListingKept DEF InboxInv
<1>19. Types'
  BY <1>0, <1>1, <1>9 DEF InboxInv, Types
<1>20. ByScreen' /\ AskedOnce'
  BY <1>0, <1>1, <1>3, <1>4, <1>16 DEF InboxInv, ByScreen, AskedOnce
<1> QED BY <1>17, <1>18, <1>19, <1>20 DEF InboxInv

LEMMA TextShown ==
  ASSUME InboxInv, TextBlock, Turn.of \notin Missing PROVE InboxInv'
<1> DEFINE t == Turn.of
           r == Task("reload", Me)
           q == Tail(inboxQueue)
<1>0. /\ sheet' = sheet /\ user' = user /\ contacts' = contacts /\ inboxMessages' = Append(inboxMessages, t)
      /\ rows' = rows /\ raised' = raised /\ loaded' = loaded /\ joined' = joined /\ inboxFiled' = inboxFiled
      /\ straight' = straight /\ inboxAsked' = inboxAsked /\ inboxQueue # <<>>
      /\ Turn.kind = "message" /\ inboxQueue' = q \o <<r>>
  BY DEF TextBlock, ShowText, RunTask, Turn
<1>1. /\ Turn \in Tasks /\ q \in Seq(Tasks) /\ ToSet(inboxQueue) = {Turn} \cup ToSet(q)
      /\ Len(inboxQueue) = 1 => ToSet(q) = {}
      /\ \A kind \in Kinds: Taken(inboxQueue, kind)
  BY <1>0, QueueGoes DEF InboxInv
<1>2. t \in Texts
  <2>1. Turn \in [kind: {"childAdded", "message"}, of: Texts]
    BY <1>0, <1>1 DEF Tasks, Task
  <2> QED BY <2>1
<1>3. user # NoPartner
  BY <1>0, <1>1 DEF InboxInv, ByScreen
<1>4. r \in Tasks /\ r.kind = "reload" /\ r.of = Me
  BY DEF Tasks, Task
<1> HIDE DEF r
<1>5. inboxQueue' = Append(q, r)
  BY <1>0, <1>1, <1>4, AppendIsConcat
<1>6. /\ inboxQueue' \in Seq(Tasks) /\ ToSet(inboxQueue') = ToSet(q) \cup {r}
      /\ \A kind \in Kinds: Added(q, r, kind)
  BY <1>1, <1>4, <1>5, QueueAppends
<1> DEFINE M == inboxMessages
           A == Of(q, "message")
           B == Of(inboxAsked, "message")
           C == Of(q, "childAdded")
<1>7. M \in Seq(Texts) /\ A \in Seq(Texts) /\ B \in Seq(Texts) /\ C \in Seq(Texts)
  <2>1. "message" \in Kinds /\ "childAdded" \in Kinds
    BY DEF Kinds
  <2>2. A \in Seq(Texts) /\ C \in Seq(Texts)
    BY <1>1, <2>1, QueueLists DEF Subjects
  <2> QED BY <2>2, AskedLists DEF InboxInv, Types
<1>8. Chat = M \o (((<<t>> \o A) \o B) \o C)
  <2>1. Of(inboxQueue, "message") = <<t>> \o A /\ Of(inboxQueue, "childAdded") = C
    BY <1>0, <1>1 DEF Taken, Kinds, Turn
  <2> QED BY <2>1 DEF Chat, Reading
<1>9. Chat' = Append(M, t) \o ((A \o B) \o C)
  <2>1. Of(inboxQueue', "message") = A /\ Of(inboxQueue', "childAdded") = C
    BY <1>4, <1>5, <1>6 DEF Added, Kinds
  <2> QED BY <1>0, <2>1 DEF Chat, Reading
<1>10. Chat' = Chat
  <2> HIDE DEF A, B, C, M, t
  <2>1. Passes(M, A, B, C, t)
    BY <1>2, <1>7, Advances
  <2> QED BY <1>8, <1>9, <2>1 DEF Passes
<1>11. EachOnce' /\ InOrder'
  <2>1. ToSet(inboxMessages') = ToSet(M) \cup {t}
    BY <1>0, <1>2, <1>7, AppendOnce
  <2>2. ToSet(inboxMessages') \cap Missing = {}
    BY <2>1 DEF InboxInv, EachOnce
  <2> QED BY <1>0, <1>10, <2>2, ChatKept DEF InboxInv
<1>12. RowsFollow'
  <2>1. Of(inboxQueue', "reload") = Append(Of(q, "reload"), Me)
    BY <1>4, <1>5, <1>6 DEF Added, Kinds
  <2>2. Of(q, "reload") \in Seq(Contacts \cup {Me})
    <3>1. "reload" \in Kinds
      BY DEF Kinds
    <3> QED BY <1>1, <3>1, QueueLists DEF Subjects
  <2> DEFINE w == Of(q, "reload")
  <2> HIDE DEF w
  <2>3. Append(w, Me) # <<>>
    BY <2>2, AppendProperties DEF w
  <2>4. IsPrefix(rows, Append(M, t))
    <3>1. rows \in Seq(Texts) /\ M \in Seq(Texts) /\ t \in Texts /\ IsPrefix(rows, M)
      BY <1>2, <1>7 DEF InboxInv, Types, RowsFollow
    <3> HIDE DEF M, t
    <3>2. Len(rows) <= Len(M) /\ \A i \in 1..Len(rows): rows[i] = M[i]
      BY <3>1, Prefix
    <3>3. /\ Append(M, t) \in Seq(Texts) /\ Len(Append(M, t)) = Len(M) + 1
          /\ \A i \in 1..Len(M): Append(M, t)[i] = M[i]
      BY <3>1, AppendProperties
    <3>4. Len(rows) \in Nat /\ Len(M) \in Nat
      BY <3>1, LenProperties
    <3>5. Len(rows) <= Len(Append(M, t)) /\ \A i \in 1..Len(rows): rows[i] = Append(M, t)[i]
      BY <3>2, <3>3, <3>4
    <3> DEFINE n == Append(M, t)
    <3> HIDE DEF n
    <3>6. n \in Seq(Texts) /\ Len(rows) <= Len(n) /\ \A i \in 1..Len(rows): rows[i] = n[i]
      BY <3>3, <3>5 DEF n
    <3>7. IsPrefix(rows, n)
      BY <3>1, <3>6, Prefix
    <3> QED BY <3>7 DEF n
  <2> QED BY <1>0, <2>1, <2>3, <2>4 DEF RowsFollow, w
<1>13. ListingOnce'
  <2>1. Of(inboxQueue, "user") = Of(q, "user") /\ Of(inboxQueue', "user") = Of(q, "user")
    BY <1>0, <1>1, <1>4, <1>5, <1>6 DEF Taken, Added, Kinds, Turn
  <2> QED BY <1>0, <2>1, ListingKept DEF InboxInv
<1>14. Types'
  <2>1. inboxMessages' \in Seq(Texts)
    BY <1>0, <1>2, <1>7, AppendProperties
  <2> QED BY <1>0, <1>6, <2>1 DEF InboxInv, Types
<1>15. ByScreen' /\ AskedOnce'
  BY <1>0, <1>1, <1>3, <1>4, <1>6 DEF InboxInv, ByScreen, AskedOnce
<1> QED BY <1>11, <1>12, <1>13, <1>14, <1>15 DEF InboxInv

\* An entry without a message leaves the conversation as it was, without it.
LEMMA TextMissing ==
  ASSUME InboxInv, TextBlock, Turn.of \in Missing PROVE InboxInv'
<1> DEFINE t == Turn.of
           q == Tail(inboxQueue)
<1>0. /\ sheet' = sheet /\ user' = user /\ contacts' = contacts /\ inboxMessages' = inboxMessages
      /\ rows' = rows /\ raised' = raised /\ loaded' = loaded /\ joined' = joined /\ inboxFiled' = inboxFiled
      /\ straight' = straight /\ inboxAsked' = inboxAsked /\ inboxQueue # <<>>
      /\ Turn.kind = "message" /\ inboxQueue' = q
  BY QueueGoes DEF InboxInv, TextBlock, RunTask, Turn
<1>1. /\ Turn \in Tasks /\ q \in Seq(Tasks) /\ ToSet(inboxQueue) = {Turn} \cup ToSet(q)
      /\ Len(inboxQueue) = 1 => ToSet(q) = {}
      /\ \A kind \in Kinds: Taken(inboxQueue, kind)
  BY <1>0, QueueGoes DEF InboxInv
<1>2. t \in Texts
  BY InboxAssumption
<1>3. user # NoPartner
  BY <1>0, <1>1 DEF InboxInv, ByScreen
<1> DEFINE M == inboxMessages
           A == Of(q, "message")
           B == Of(inboxAsked, "message")
           C == Of(q, "childAdded")
           E == <<t>>
           rest == (A \o B) \o C
           y == E \o rest
<1>4. M \in Seq(Texts) /\ A \in Seq(Texts) /\ B \in Seq(Texts) /\ C \in Seq(Texts)
  <2>1. "message" \in Kinds /\ "childAdded" \in Kinds
    BY DEF Kinds
  <2>2. A \in Seq(Texts) /\ C \in Seq(Texts)
    BY <1>1, <2>1, QueueLists DEF Subjects
  <2> QED BY <2>2, AskedLists DEF InboxInv, Types
<1>5. Chat = M \o (((E \o A) \o B) \o C)
  <2>1. Of(inboxQueue, "message") = <<t>> \o A /\ Of(inboxQueue, "childAdded") = C
    BY <1>0, <1>1 DEF Taken, Kinds, Turn
  <2> QED BY <2>1 DEF Chat, Reading
<1>6. Chat' = M \o rest
  BY <1>0 DEF Chat, Reading
<1>7. E \in Seq(Texts) /\ ToSet(E) = {t}
  BY <1>2 DEF ToSet
<1> HIDE DEF A, B, C, M, E, t
<1>8. rest \in Seq(Texts)
  <2>1. A \o B \in Seq(Texts)
    BY <1>4, ConcatProperties
  <2> QED BY <1>4, <2>1, ConcatProperties
<1>9. Chat = M \o y
  <2> DEFINE D == A \o B
  <2>1. D \in Seq(Texts)
    BY <1>4, ConcatProperties
  <2>2. (E \o A) \o B = E \o D
    <3>1. Regroups(E, A, B)
      BY <1>4, <1>7, Regrouping
    <3> QED BY <3>1 DEF Regroups
  <2> HIDE DEF D
  <2>3. (E \o D) \o C = E \o (D \o C)
    <3>1. Regroups(E, D, C)
      BY <1>4, <1>7, <2>1, Regrouping
    <3> QED BY <3>1 DEF Regroups
  <2> QED BY <1>5, <2>2, <2>3 DEF D
<1> HIDE DEF rest
<1>10. /\ y \in Seq(Texts) /\ ToSet(y) = {t} \cup ToSet(rest)
       /\ IsInjective(y) => IsInjective(rest) /\ t \notin ToSet(rest)
       /\ Follows(y, raised) => Follows(rest, raised)
  BY <1>7, <1>8, ConcatProperties, ConcatElements, ConcatOnce, FollowsConcat
<1> HIDE DEF y
<1>11. EachOnce'
  <2>1. ToSet(Chat) = ToSet(M) \cup ToSet(y) /\ ToSet(Chat') = ToSet(M) \cup ToSet(rest)
    BY <1>4, <1>6, <1>8, <1>9, <1>10, ConcatElements
  <2>2. IsInjective(Chat')
    <3>1. IsInjective(Chat)
      BY DEF InboxInv, EachOnce
    <3>2. IsInjective(M) /\ IsInjective(y) /\ ToSet(M) \cap ToSet(y) = {}
      BY <1>4, <1>9, <1>10, <3>1, ConcatOnce
    <3>3. IsInjective(M \o rest)
      BY <1>4, <1>8, <1>10, <3>2, ConcatOnce
    <3> QED BY <1>6, <3>3
  <2>3. Branch(user)' = Branch(user)
    BY <1>0 DEF Branch
  <2>4. t \in Missing
    BY DEF t
  <2> QED BY <1>0, <1>10, <2>1, <2>2, <2>3, <2>4 DEF InboxInv, EachOnce
<1>12. InOrder'
  <2> SUFFICES ASSUME straight' PROVE Follows(Chat', raised')
    BY DEF InOrder
  <2>1. Follows(M \o y, raised)
    BY <1>0, <1>9 DEF InboxInv, InOrder
  <2>2. /\ Follows(M, raised) /\ Follows(y, raised)
        /\ \A x \in ToSet(M), z \in ToSet(y): Precedes(raised, x, z)
    BY <1>4, <1>10, <2>1, FollowsConcat
  <2>3. Follows(M \o rest, raised)
    BY <1>4, <1>8, <1>10, <2>2, FollowsConcat
  <2> QED BY <1>0, <1>6, <2>3
<1>13. \A kind \in Kinds \ {"message"}: Of(inboxQueue', kind) = Of(inboxQueue, kind)
  BY <1>0, <1>1 DEF Taken, Turn
<1>14. RowsFollow' /\ ListingOnce'
  <2>1. Of(inboxQueue', "reload") = Of(inboxQueue, "reload") /\ Of(inboxQueue', "user") = Of(inboxQueue, "user")
    BY <1>13 DEF Kinds
  <2> QED BY <1>0, <2>1, RowsKept, ListingKept DEF InboxInv
<1>15. Types'
  BY <1>0, <1>1 DEF InboxInv, Types
<1>16. ByScreen' /\ AskedOnce'
  BY <1>0, <1>1, <1>3 DEF InboxInv, ByScreen, AskedOnce
<1> QED BY <1>11, <1>12, <1>14, <1>15, <1>16 DEF InboxInv

LEMMA TextStep ==
  ASSUME InboxInv, TextBlock PROVE InboxInv'
BY TextShown, TextMissing

LEMMA ReloadRowsStep ==
  ASSUME InboxInv, ReloadRowsBlock PROVE InboxInv'
<1>0. /\ sheet' = sheet /\ user' = user /\ contacts' = contacts /\ inboxMessages' = inboxMessages
      /\ rows' = inboxMessages /\ raised' = raised /\ loaded' = loaded /\ joined' = joined
      /\ inboxFiled' = inboxFiled /\ straight' = straight /\ inboxAsked' = inboxAsked /\ inboxQueue # <<>>
      /\ Turn.kind = "reload" /\ inboxQueue' = Tail(inboxQueue)
  BY QueueGoes DEF InboxInv, ReloadRowsBlock, RunTask, Turn
<1>1. /\ Turn \in Tasks /\ inboxQueue' \in Seq(Tasks) /\ ToSet(inboxQueue) = {Turn} \cup ToSet(inboxQueue')
      /\ Len(inboxQueue) = 1 => ToSet(inboxQueue') = {}
      /\ \A kind \in Kinds: Taken(inboxQueue, kind)
  BY <1>0, QueueGoes DEF InboxInv
<1>2. user # NoPartner
  BY <1>0, <1>1 DEF InboxInv, ByScreen
<1>3. \A kind \in Kinds \ {"reload"}: Of(inboxQueue', kind) = Of(inboxQueue, kind)
  BY <1>0, <1>1 DEF Taken, Turn
<1>4. EachOnce' /\ InOrder'
  <2>1. Chat' = Chat
    BY <1>0, <1>3 DEF Chat, Reading, Kinds
  <2> QED BY <1>0, <2>1, ChatKept DEF InboxInv, EachOnce
<1>5. ListingOnce'
  <2>1. Of(inboxQueue', "user") = Of(inboxQueue, "user")
    BY <1>3 DEF Kinds
  <2> QED BY <1>0, <2>1, ListingKept DEF InboxInv
<1>6. RowsFollow'
  <2>1. IsPrefix(inboxMessages, inboxMessages)
    <3>1. Len(inboxMessages) \in Nat
      BY LenProperties DEF InboxInv, Types
    <3> QED BY <3>1 DEF IsPrefix
  <2> QED BY <1>0, <2>1 DEF RowsFollow
<1>7. Types'
  BY <1>0, <1>1 DEF InboxInv, Types
<1>8. ByScreen' /\ AskedOnce'
  BY <1>0, <1>1, <1>2 DEF InboxInv, ByScreen, AskedOnce
<1> QED BY <1>4, <1>5, <1>6, <1>7, <1>8 DEF InboxInv

-----------------------------------------------------------------------------
(* The theorems.                                                           *)

LEMMA InboxStarts == InboxInit => InboxInv
<1> SUFFICES ASSUME InboxInit PROVE InboxInv
  OBVIOUS
<1>1. /\ user = NoPartner /\ inboxMessages = <<>> /\ rows = <<>> /\ raised = <<>> /\ inboxQueue = <<>>
      /\ inboxAsked = <<>> /\ contacts = <<>> /\ inboxFiled = {} /\ loaded \subseteq Contacts
  BY DEF InboxInit
<1>2. ToSet(<<>>) = {} /\ IsInjective(<<>>) /\ \A kind: Of(<<>>, kind) = <<>>
  BY OfNothing DEF ToSet, IsInjective
<1>3. Types
  <2>1. sheet = FALSE /\ joined \subseteq Contacts \cup {Me} /\ straight \in BOOLEAN
    BY DEF InboxInit
  <2>2. /\ contacts \in Seq(Contacts \cup {Me}) /\ inboxMessages \in Seq(Texts) /\ rows \in Seq(Texts)
        /\ raised \in Seq(Texts) /\ inboxAsked \in Seq(Requests) /\ inboxQueue \in Seq(Tasks)
    BY <1>1, EmptySeq
  <2> QED BY <1>1, <2>1, <2>2 DEF Types
<1>4. ByScreen /\ AskedOnce
  BY <1>1, <1>2 DEF ByScreen, AskedOnce
<1>5. Chat = <<>>
  BY <1>1, <1>2 DEF Chat, Reading
<1>6. EachOnce /\ InOrder
  BY <1>1, <1>2, <1>5 DEF EachOnce, InOrder, Follows, Branch
<1>7. ListingOnce
  <2>1. Listing = <<>>
    BY <1>1, <1>2 DEF Listing
  <2> QED BY <1>1, <1>2, <2>1 DEF ListingOnce
<1>8. RowsFollow
  <2>1. IsPrefix(<<>>, <<>>)
    BY DEF IsPrefix
  <2> QED BY <1>1, <2>1 DEF RowsFollow
<1> QED BY <1>3, <1>4, <1>6, <1>7, <1>8 DEF InboxInv

LEMMA InboxStep == InboxInv /\ [InboxNext]_inboxVars => InboxInv'
<1> SUFFICES ASSUME InboxInv, [InboxNext]_inboxVars PROVE InboxInv'
  OBVIOUS
<1>1. ASSUME NEW u \in Contacts, Join(u) PROVE InboxInv'
  BY <1>1, JoinStep
<1>2. ASSUME NEW t \in Texts, FileText(t) PROVE InboxInv'
  BY <1>2, FileTextStep
<1>3. ASSUME NEW i \in DOMAIN inboxAsked, AnswerRequest(i) PROVE InboxInv'
  BY <1>3, AnswerStep
<1>4. CASE Resume
  BY <1>4, ResumeStep
<1>5. CASE ShowContacts
  BY <1>5, ShowContactsStep
<1>6. CASE Dismiss
  BY <1>6, DismissStep
<1>7. CASE LeaveInbox
  BY <1>7, LeaveInboxStep
<1>8. CASE Send
  BY <1>8, SendStep
<1>9. ASSUME NEW i \in DOMAIN contacts, SelectContact(i) PROVE InboxInv'
  BY <1>9, SelectContactStep
<1>10. CASE InboxRuns
  BY <1>10, ContactStep, DismissedStep, EntryStep, TextStep, ReloadRowsStep DEF InboxRuns
<1>11. CASE UNCHANGED inboxVars
  <2>1. /\ sheet' = sheet /\ user' = user /\ contacts' = contacts /\ inboxMessages' = inboxMessages /\ rows' = rows
        /\ raised' = raised /\ loaded' = loaded /\ joined' = joined /\ inboxFiled' = inboxFiled
        /\ straight' = straight /\ inboxAsked' = inboxAsked /\ inboxQueue' = inboxQueue
    BY <1>11 DEF inboxVars
  <2>2. Types' /\ ByScreen' /\ AskedOnce' /\ RowsFollow'
    BY <2>1 DEF InboxInv, Types, ByScreen, AskedOnce, RowsFollow
  <2>3. EachOnce' /\ InOrder'
    <3>1. Chat' = Chat
      BY <2>1 DEF Chat, Reading
    <3> QED BY <2>1, <3>1, ChatKept DEF InboxInv, EachOnce
  <2>4. ListingOnce'
    BY <2>1, ListingKept DEF InboxInv
  <2> QED BY <2>2, <2>3, <2>4 DEF InboxInv
<1> QED BY <1>1, <1>2, <1>3, <1>4, <1>5, <1>6, <1>7, <1>8, <1>9, <1>10, <1>11 DEF InboxNext

LEMMA InboxImplies == InboxInv => Conversation
<1> SUFFICES ASSUME InboxInv PROVE Conversation
  OBVIOUS
<1>1. InboxTypeOK
  <2>1. \A i \in DOMAIN inboxAsked: inboxAsked[i] \in Requests
    BY ElementOfSeq, LenProperties DEF InboxInv, Types
  <2>2. \A i \in DOMAIN inboxQueue: inboxQueue[i] \in Tasks
    BY ElementOfSeq, LenProperties DEF InboxInv, Types
  <2>3. \A j \in Requests: j.kind \in {"users", "index", "message"}
    BY DEF Requests, Task
  <2>4. \A j \in Tasks: j.kind \in {"user", "dismissed", "childAdded", "message", "reload"}
    BY DEF Tasks, Task
  <2> QED BY <2>1, <2>2, <2>3, <2>4 DEF InboxInv, Types, InboxTypeOK
<1>2. ListedOnce
  <2> DEFINE w == Of(inboxQueue, "user")
             P == Contacts \cup {Me}
  <2>1. contacts \in Seq(P) /\ w \in Seq(P) /\ Listing = contacts \o w
    BY Typed DEF InboxInv, Types, Listing
  <2> HIDE DEF w, P
  <2>2. IsInjective(contacts \o w) => IsInjective(contacts)
    BY ONLY <2>1, ConcatOnce
  <2> QED BY <2>1, <2>2 DEF InboxInv, ListingOnce, ListedOnce
<1> QED BY <1>1, <1>2 DEF InboxInv, Conversation

\* The inductive invariant: besides what Conversation says, each block waits for
\* the screen it belongs to, no request is sent twice, and nobody is raised to
\* the sheet twice.
THEOREM ConversationInvariant == InboxSpec => []InboxInv
<1> QED BY InboxStarts, InboxStep, PTL DEF InboxSpec

\* For any number of contacts, texts and openings, and answers in any order:
\* every entry of an inbox's branch that was raised and has a message is in its
\* conversation or on its way, once (observeMessages, ContactInboxVC.swift:247-261);
\* in the order of the events where nobody else read the branch's messages when
\* the inbox was opened and the connection has stood since (readMessage,
\* ChatClient.swift:22-30); the collection view is behind by a reload that waits
\* at most (:213); and the sheet lists nobody twice, and not the user of the phone.
THEOREM ConversationsKept == InboxSpec => []Conversation
<1> QED BY ConversationInvariant, InboxImplies, PTL

=============================================================================

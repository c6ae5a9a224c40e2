----------------------- MODULE NativeEvaluationProofs -----------------------
(***************************************************************************)
(* Proofs about the native evaluation, for any number of harnesses, chunk   *)
(* size and linker limit, and whichever harnesses do not elaborate or link: *)
(* bisection excludes the offenders alone, and every harness is counted.    *)
(***************************************************************************)
EXTENDS NativeEvaluation, Integers, FiniteSetTheorems, SequenceTheorems, TLAPS

TypeInv ==
  /\ fate \in [Ids -> Fates] /\ limit \in 1..Count /\ chunk \in 1..Count
  /\ phase \in {"modules", "link", "run", "nothing", "reported"}
  /\ todo \in Seq(Seq(Ids)) /\ \A k \in DOMAIN todo : todo[k] # <<>>
  /\ bad \subseteq Ids /\ sources \subseteq Ids /\ pending \subseteq Ids
  /\ arms \in Seq(SUBSET Ids)
  /\ binary \in [Ids -> 0..Len(arms)]
  /\ passed \subseteq Ids /\ divergences \subseteq Ids
  /\ agg \in Nat /\ report \in [Problems -> SUBSET Ids]

\* Excluded are offenders, snapshots hold sound harnesses, and once the modules
\* are built a harness is excluded, in a snapshot, or in a chunk to come.
LinkOK ==
  /\ \A i \in bad : fate[i] # "sound"
  /\ \A i \in Ids : binary[i] # NoBinary => fate[i] = "sound" /\ i \in arms[binary[i]]
  /\ phase # "modules" =>
       \A i \in Ids : i \in bad \/ binary[i] # NoBinary \/ \E k \in DOMAIN todo : i \in Range(todo[k])
  /\ phase # "link" => todo = <<>>

\* The harnesses scored are those counted, each a pass or a divergence; only
\* sound ones pass.
ScoreOK ==
  /\ agg + Cardinality(pending) = Count
  /\ passed \cup divergences = Ids \ pending
  /\ passed \cap divergences = {}
  /\ \A i \in passed : fate[i] = "sound"
  /\ phase = "reported" => pending = {}
  /\ phase \notin {"run", "reported"} => pending = Ids /\ agg = 0
  /\ phase = "nothing" => \A i \in Ids : binary[i] = NoBinary

IInv == TypeInv /\ LinkOK /\ ScoreOK
-----------------------------------------------------------------------------
(* Slices. *)

\* The elements of S below c.
Below(S, c) == {d \in S : d < c}

\* The number of smaller elements is a place of its own for each element.
LEMMA BelowCounts ==
  ASSUME NEW S, S \subseteq Nat, IsFiniteSet(S), NEW c \in S
  PROVE  /\ Cardinality(Below(S, c)) \in 0..(Cardinality(S) - 1)
         /\ \A d \in S : d < c => Cardinality(Below(S, d)) < Cardinality(Below(S, c))
<1>1. ASSUME NEW R, NEW T \in SUBSET S, R \in SUBSET T, R # T
      PROVE  Cardinality(R) \in Nat /\ Cardinality(T) \in Nat /\ Cardinality(R) < Cardinality(T)
  <2>1. IsFiniteSet(T)
    BY FS_Subset
  <2>2. /\ IsFiniteSet(R) /\ Cardinality(R) <= Cardinality(T)
        /\ (Cardinality(T) = Cardinality(R) => T = R)
    BY <1>1, <2>1, FS_Subset
  <2>3. Cardinality(R) \in Nat /\ Cardinality(T) \in Nat
    BY <2>1, <2>2, FS_CardinalityType
  <2>4. QED
    BY <1>1, <2>2, <2>3
<1>2. Below(S, c) \in SUBSET S /\ c \notin Below(S, c)
  BY DEF Below
<1>3. ASSUME NEW d \in S, d < c
      PROVE  Below(S, d) \in SUBSET Below(S, c) /\ d \in Below(S, c) /\ d \notin Below(S, d)
  <2>1. (\A e \in S : e < d => e < c) /\ ~(d < d)
    BY <1>3
  <2>2. QED
    BY <1>3, <2>1 DEF Below
<1>4. Cardinality(Below(S, c)) \in Nat /\ Cardinality(S) \in Nat /\ Cardinality(Below(S, c)) < Cardinality(S)
  BY <1>1, <1>2
<1>5. QED
  BY <1>1, <1>2, <1>3, <1>4

\* InOrder lists the set.
LEMMA InOrderLists ==
  ASSUME NEW S, S \subseteq Nat, IsFiniteSet(S)
  PROVE  InOrder(S) \in Seq(S) /\ Range(InOrder(S)) = S
<1> DEFINE N == Cardinality(S)
           place == [c \in S |-> Cardinality(Below(S, c)) + 1]
<1>1. N \in Nat /\ IsFiniteSet(1..N) /\ Cardinality(1..N) = N
  BY FS_CardinalityType, FS_Interval
<1>2. place \in [S -> 1..N]
  <2>1. ASSUME NEW c \in S PROVE Cardinality(Below(S, c)) + 1 \in 1..N
    <3>1. Cardinality(Below(S, c)) \in 0..(N - 1)
      BY BelowCounts
    <3>2. QED
      BY <1>1, <3>1
  <2>2. QED
    BY <2>1
<1>3. \A c, d \in S : place[c] = place[d] => c = d
  <2>1. ASSUME NEW c \in S, NEW d \in S, d < c PROVE place[d] # place[c]
    <3>1. /\ Cardinality(Below(S, c)) \in 0..(N - 1) /\ Cardinality(Below(S, d)) \in 0..(N - 1)
          /\ Cardinality(Below(S, d)) < Cardinality(Below(S, c))
      BY <2>1, BelowCounts
    <3>2. QED
      BY <1>1, <3>1
  <2>2. \A c, d \in S : c < d \/ d < c \/ c = d
    OBVIOUS
  <2> HIDE DEF place
  <2>3. QED
    BY <2>1, <2>2
<1>4. \A n \in 1..N : \E c \in S : place[c] = n
  <2>1. place \in Injection(S, 1..N)
    BY <1>2, <1>3 DEF Injection, IsInjective
  <2>2. place \in Surjection(S, 1..N)
    BY <1>1, <2>1, FS_Injection
  <2>3. QED
    BY <2>2 DEF Surjection
<1>5. ASSUME NEW n \in 1..N PROVE InOrder(S)[n] \in S /\ place[InOrder(S)[n]] = n
  <2>1. PICK c \in S : place[c] = n
    BY <1>4
  <2>2. Cardinality(Below(S, c)) \in 0..(N - 1) /\ Cardinality(Below(S, c)) + 1 = n
    BY <2>1, BelowCounts
  <2>3. Cardinality(Below(S, c)) = n - 1
    BY <1>1, <2>2
  <2>4. InOrder(S)[n] \in S /\ Cardinality(Below(S, InOrder(S)[n])) = n - 1
    BY <2>3 DEF InOrder, Below
  <2>5. QED
    BY <1>1, <2>4
<1>6. InOrder(S) \in [1..N -> S]
  BY <1>5 DEF InOrder
<1>7. \E m \in Nat : InOrder(S) \in [1..m -> S]
  BY <1>1, <1>6
<1>8. InOrder(S) \in Seq(S)
  BY ONLY <1>7, SeqDef
<1>9. ASSUME NEW c \in S PROVE c \in Range(InOrder(S))
  <2>1. place[c] \in 1..N
    BY <1>2
  <2>2. InOrder(S)[place[c]] = c
    BY <1>3, <1>5, <2>1
  <2>3. QED
    BY <1>6, <2>1, <2>2 DEF Range
<1>10. Range(InOrder(S)) \subseteq S
  BY <1>6 DEF Range
<1>11. QED
  BY <1>8, <1>9, <1>10

\* A part of a sequence.
LEMMA Slice ==
  ASSUME NEW T, NEW s \in Seq(T), NEW a \in 1..Len(s), NEW b \in 1..Len(s), a <= b
  PROVE  /\ SubSeq(s, a, b) \in Seq(T) /\ SubSeq(s, a, b) # <<>>
         /\ \A j \in a..b : s[j] \in Range(SubSeq(s, a, b))
<1> DEFINE r == SubSeq(s, a, b)
<1>1. a \in 1..(Len(s) + 1) /\ b \in (a - 1)..Len(s)
  OBVIOUS
<1>2. r \in Seq(T) /\ Len(r) = b - a + 1 /\ \A i \in 1..(b - a + 1) : r[i] = s[a + i - 1]
  BY <1>1, SubSeqProperties
<1> HIDE DEF r
<1>3. DOMAIN r = 1..(b - a + 1) /\ b - a + 1 >= 1
  BY <1>2
<1>4. r # <<>>
  BY <1>2, <1>3
<1>5. ASSUME NEW j \in a..b PROVE s[j] \in Range(r)
  <2>1. j - a + 1 \in 1..(b - a + 1) /\ a + (j - a + 1) - 1 = j
    OBVIOUS
  <2>2. r[j - a + 1] = s[j]
    BY <1>2, <2>1
  <2>3. QED
    BY <1>3, <2>1, <2>2 DEF Range
<1>6. QED
  BY <1>2, <1>4, <1>5 DEF r

LEMMA Division ==
  ASSUME NEW a \in Nat, NEW c \in Nat \ {0}
  PROVE  a \div c \in Nat /\ (a \div c) * c <= a /\ a < (a \div c) * c + c
OBVIOUS

LEMMA Scale ==
  ASSUME NEW a \in Nat, NEW b \in Nat, NEW c \in Nat
  PROVE  a * c \in Nat /\ (a + 1) * c = a * c + c /\ (a <= b => a * c <= b * c)
OBVIOUS

LEMMA NextPlace ==
  ASSUME NEW q \in Nat, NEW Q \in Nat, q < Q
  PROVE  \E k \in 1..Q : k = q + 1 /\ k - 1 = q
<1>1. q + 1 \in 1..Q /\ q + 1 - 1 = q
  OBVIOUS
<1>2. QED
  BY <1>1

\* The slices are not empty and leave nothing out, whatever the last one's size.
LEMMA ChunksCover ==
  ASSUME chunk \in Nat \ {0}, NEW T, NEW s \in Seq(T)
  PROVE  /\ Chunks(s) \in Seq(Seq(T))
         /\ \A k \in DOMAIN Chunks(s) : Chunks(s)[k] # <<>>
         /\ \A i \in Range(s) : \E k \in DOMAIN Chunks(s) : i \in Range(Chunks(s)[k])
<1> DEFINE c == chunk
           n == Len(s)
           Q == (n + c - 1) \div c
           last(k) == IF k * c < n THEN k * c ELSE n
<1>1. n \in Nat /\ DOMAIN s = 1..n /\ c \in Nat \ {0} /\ n + c - 1 \in Nat
  OBVIOUS
<1>2. Q \in Nat /\ Q * c <= n + c - 1 /\ n + c - 1 < Q * c + c
  BY <1>1, Division
<1>3. Chunks(s) = [k \in 1..Q |-> SubSeq(s, (k - 1) * c + 1, last(k))]
  BY DEF Chunks
<1> HIDE DEF c, n, Q
<1>4. ASSUME NEW k \in 1..Q
      PROVE  /\ (k - 1) * c + 1 \in 1..n /\ last(k) \in 1..n /\ (k - 1) * c + 1 <= last(k)
             /\ (k - 1) * c \in Nat /\ k * c = (k - 1) * c + c
  <2>1. k \in Nat /\ k - 1 \in Nat /\ k - 1 + 1 = k /\ k <= Q
    BY <1>2
  <2>2. (k - 1) * c \in Nat /\ k * c = (k - 1) * c + c /\ k * c <= Q * c /\ k * c \in Nat
    BY <1>1, <1>2, <2>1, Scale
  <2>3. (k - 1) * c + 1 <= n
    <3> DEFINE x == (k - 1) * c
               y == k * c
               z == Q * c
    <3>1. x \in Nat /\ y = x + c /\ y <= z /\ z <= n + c - 1 /\ z \in Nat
      BY <1>1, <1>2, <2>2, Scale
    <3> HIDE DEF x, y, z
    <3>2. x + 1 <= n
      BY <1>1, <3>1
    <3>3. QED
      BY <3>2 DEF x
  <2>4. (k - 1) * c + 1 <= k * c
    <3> DEFINE x == (k - 1) * c
    <3>1. x \in Nat /\ k * c = x + c
      BY <2>2
    <3> HIDE DEF x
    <3>2. x + 1 <= k * c
      BY <1>1, <3>1
    <3>3. QED
      BY <3>2 DEF x
  <2>5. (k - 1) * c + 1 \in 1..n
    BY <1>1, <2>2, <2>3
  <2>6. CASE k * c < n
    <3>1. last(k) = k * c
      BY <2>6
    <3> DEFINE x == (k - 1) * c + 1
               y == k * c
    <3>2. x \in 1..n /\ y \in Nat /\ y < n /\ x <= y
      BY <2>2, <2>4, <2>5, <2>6
    <3> HIDE DEF x, y
    <3>3. y \in 1..n
      BY <1>1, <3>2
    <3>4. QED
      BY <2>2, <3>1, <3>2, <3>3 DEF x, y
  <2>7. CASE ~(k * c < n)
    <3>1. last(k) = n
      BY <2>7
    <3>2. n \in 1..n
      BY <1>1, <2>5
    <3>3. QED
      BY <2>2, <2>3, <2>5, <3>1, <3>2
  <2>8. QED
    BY <2>6, <2>7
<1>5. ASSUME NEW k \in 1..Q
      PROVE  /\ SubSeq(s, (k - 1) * c + 1, last(k)) \in Seq(T)
             /\ SubSeq(s, (k - 1) * c + 1, last(k)) # <<>>
             /\ \A j \in ((k - 1) * c + 1)..last(k) : s[j] \in Range(SubSeq(s, (k - 1) * c + 1, last(k)))
  <2> DEFINE a == (k - 1) * c + 1
             b == last(k)
  <2>1. a \in 1..n /\ b \in 1..n /\ a <= b
    BY <1>4
  <2> HIDE DEF a, b
  <2>2. /\ SubSeq(s, a, b) \in Seq(T) /\ SubSeq(s, a, b) # <<>>
        /\ \A j \in a..b : s[j] \in Range(SubSeq(s, a, b))
    BY <2>1, Slice DEF n
  <2>3. QED
    BY <2>2 DEF a, b
<1>6. ASSUME NEW j \in 1..n
      PROVE  \E k \in 1..Q : j \in ((k - 1) * c + 1)..last(k)
  <2> DEFINE q == (j - 1) \div c
             x == q * c
             z == Q * c
  <2>1. j - 1 \in Nat
    BY <1>1
  <2>2. q \in Nat /\ x <= j - 1 /\ j - 1 < x + c /\ x \in Nat
    BY <1>1, <2>1, Division, Scale
  <2>3. z \in Nat /\ n + c - 1 < z + c
    BY <1>1, <1>2, Scale
  <2> HIDE DEF q
  <2>4. (Q <= q => z <= x) /\ (q + 1) * c = x + c
    BY <1>1, <1>2, <2>2, Scale
  <2> HIDE DEF x, z
  <2>5. x < z
    BY <1>1, <2>1, <2>2, <2>3
  <2>6. q < Q
    BY <1>2, <2>2, <2>3, <2>4, <2>5
  <2>7. PICK k \in 1..Q : k = q + 1 /\ k - 1 = q
    BY <1>2, <2>2, <2>6, NextPlace
  <2>8. (k - 1) * c = x /\ k * c = x + c
    BY <2>4, <2>7 DEF x
  <2>9. x + 1 <= j /\ j <= x + c /\ j <= n
    BY <1>1, <2>1, <2>2
  <2>10. last(k) = IF x + c < n THEN x + c ELSE n
    BY <2>8
  <2> HIDE DEF last
  <2>11. j \in (x + 1)..last(k)
    BY <1>1, <2>2, <2>9, <2>10
  <2>12. QED
    BY <2>8, <2>11
<1> HIDE DEF last
<1>7. /\ DOMAIN Chunks(s) = 1..Q
      /\ \A k \in 1..Q : Chunks(s)[k] = SubSeq(s, (k - 1) * c + 1, last(k))
  BY <1>3
<1>8. Chunks(s) \in Seq(Seq(T))
  <2>1. Chunks(s) \in [1..Q -> Seq(T)]
    BY <1>3, <1>5
  <2>2. \E m \in Nat : Chunks(s) \in [1..m -> Seq(T)]
    BY <1>2, <2>1
  <2>3. QED
    BY ONLY <2>2, SeqDef
<1>9. ASSUME NEW i \in Range(s) PROVE \E k \in DOMAIN Chunks(s) : i \in Range(Chunks(s)[k])
  <2>1. PICK j \in 1..n : i = s[j]
    BY <1>1 DEF Range
  <2>2. PICK k \in 1..Q : j \in ((k - 1) * c + 1)..last(k)
    BY <1>6
  <2>3. i \in Range(Chunks(s)[k])
    BY <1>5, <1>7, <2>1, <2>2
  <2>4. QED
    BY <1>7, <2>3
<1>10. QED
  BY <1>5, <1>7, <1>8, <1>9

\* A sequence without its head.
LEMMA HeadTail ==
  ASSUME NEW T, NEW q \in Seq(T), q # <<>>
  PROVE  /\ 1 \in DOMAIN q /\ Head(q) = q[1] /\ Head(q) \in T /\ Tail(q) \in Seq(T)
         /\ \A k \in DOMAIN Tail(q) : k + 1 \in DOMAIN q /\ Tail(q)[k] = q[k + 1]
         /\ \A k \in DOMAIN q : k = 1 \/ (k - 1 \in DOMAIN Tail(q) /\ Tail(q)[k - 1] = q[k])
<1>1. /\ Len(q) \in Nat /\ Len(q) # 0 /\ DOMAIN q = 1..Len(q)
      /\ Tail(q) \in Seq(T) /\ Len(Tail(q)) = Len(q) - 1 /\ DOMAIN Tail(q) = 1..(Len(q) - 1)
      /\ Head(q) = q[1]
  OBVIOUS
<1>2. \A k \in 1..(Len(q) - 1) : k + 1 \in 1..Len(q) /\ Tail(q)[k] = q[k + 1]
  BY <1>1
<1>3. ASSUME NEW k \in DOMAIN q, k # 1 PROVE k - 1 \in DOMAIN Tail(q) /\ Tail(q)[k - 1] = q[k]
  <2>1. k - 1 \in 1..(Len(q) - 1) /\ k - 1 + 1 = k
    BY <1>1, <1>3
  <2>2. QED
    BY <1>1, <1>2, <2>1
<1>4. 1 \in DOMAIN q /\ q[1] \in T
  BY <1>1
<1>5. QED
  BY <1>1, <1>2, <1>3, <1>4

\* Two elements put before a sequence.
LEMMA TwoBefore ==
  ASSUME NEW T, NEW a \in T, NEW b \in T, NEW q \in Seq(T)
  PROVE  /\ <<a, b>> \o q \in Seq(T)
         /\ 1 \in DOMAIN (<<a, b>> \o q) /\ (<<a, b>> \o q)[1] = a
         /\ 2 \in DOMAIN (<<a, b>> \o q) /\ (<<a, b>> \o q)[2] = b
         /\ \A k \in DOMAIN q : k + 2 \in DOMAIN (<<a, b>> \o q) /\ (<<a, b>> \o q)[k + 2] = q[k]
         /\ \A k \in DOMAIN (<<a, b>> \o q) :
              (<<a, b>> \o q)[k] \in {a, b} \/ \E l \in DOMAIN q : (<<a, b>> \o q)[k] = q[l]
<1> DEFINE r == <<a, b>> \o q
<1>1. /\ Len(q) \in Nat /\ DOMAIN q = 1..Len(q) /\ r \in Seq(T)
      /\ Len(r) = Len(q) + 2 /\ DOMAIN r = 1..(Len(q) + 2) /\ r[1] = a /\ r[2] = b
  OBVIOUS
<1>2. ASSUME NEW k \in 1..Len(q) PROVE r[k + 2] = q[k]
  BY <1>1
<1> HIDE DEF r
<1>3. 1 \in DOMAIN r /\ 2 \in DOMAIN r /\ \A k \in DOMAIN q : k + 2 \in DOMAIN r
  BY <1>1
<1>4. ASSUME NEW k \in DOMAIN r PROVE r[k] \in {a, b} \/ \E l \in DOMAIN q : r[k] = q[l]
  <2>1. k = 1 \/ k = 2 \/ (k - 2 \in 1..Len(q) /\ k - 2 + 2 = k)
    BY <1>1
  <2>2. QED
    BY <1>1, <1>2, <2>1
<1>5. QED
  BY <1>1, <1>2, <1>3, <1>4 DEF r

LEMMA Push ==
  ASSUME NEW T, NEW q \in Seq(T), NEW e \in T
  PROVE  /\ Len(q) \in Nat /\ Append(q, e) \in Seq(T) /\ Len(Append(q, e)) = Len(q) + 1
         /\ Append(q, e)[Len(q) + 1] = e
         /\ \A k \in 1..Len(q) : Append(q, e)[k] = q[k]
OBVIOUS

\* The halves of a chunk are chunks, and hold what it held.
LEMMA Halves ==
  ASSUME NEW T, NEW ids \in Seq(T), Len(ids) > 1
  PROVE  LET mid == Len(ids) \div 2
             a == SubSeq(ids, 1, mid)
             b == SubSeq(ids, mid + 1, Len(ids))
         IN  /\ a \in Seq(T) /\ a # <<>> /\ b \in Seq(T) /\ b # <<>>
             /\ Range(ids) \subseteq Range(a) \cup Range(b)
<1> DEFINE n == Len(ids)
           mid == n \div 2
<1>1. n \in Nat /\ DOMAIN ids = 1..n /\ mid \in 1..(n - 1)
  OBVIOUS
<1> HIDE DEF mid, n
<1>2. 1 \in 1..n /\ mid \in 1..n /\ 1 <= mid /\ mid + 1 \in 1..n /\ n \in 1..n /\ mid + 1 <= n
  BY <1>1
<1>3. /\ SubSeq(ids, 1, mid) \in Seq(T) /\ SubSeq(ids, 1, mid) # <<>>
      /\ \A j \in 1..mid : ids[j] \in Range(SubSeq(ids, 1, mid))
  BY <1>2, Slice DEF n
<1>4. /\ SubSeq(ids, mid + 1, n) \in Seq(T) /\ SubSeq(ids, mid + 1, n) # <<>>
      /\ \A j \in (mid + 1)..n : ids[j] \in Range(SubSeq(ids, mid + 1, n))
  BY <1>2, Slice DEF n
<1>5. \A j \in 1..n : j \in 1..mid \/ j \in (mid + 1)..n
  BY <1>1
<1>6. Range(ids) \subseteq Range(SubSeq(ids, 1, mid)) \cup Range(SubSeq(ids, mid + 1, n))
  BY <1>1, <1>3, <1>4, <1>5 DEF Range
<1>7. QED
  BY <1>3, <1>4, <1>6 DEF mid, n
-----------------------------------------------------------------------------
(* Every step keeps the invariant. *)

LEMMA Numbers ==
  /\ Ids \subseteq Nat /\ IsFiniteSet(Ids) /\ Cardinality(Ids) = Count /\ Count \in Nat
  /\ \A S \in SUBSET Ids : IsFiniteSet(S) /\ S \subseteq Nat
<1>1. Count \in Nat /\ Ids = 1..Count
  BY CountAssumption DEF Ids
<1>2. 1 \in Int /\ Count \in Int
  BY <1>1
<1>3. IsFiniteSet(1..Count) /\ Cardinality(1..Count) = IF 1 > Count THEN 0 ELSE Count - 1 + 1
  BY <1>2, FS_Interval
<1>4. (IF 1 > Count THEN 0 ELSE Count - 1 + 1) = Count
  BY <1>1
<1>5. \A S \in SUBSET Ids : IsFiniteSet(S)
  BY <1>1, <1>3, FS_Subset
<1>6. QED
  BY <1>1, <1>3, <1>4, <1>5

LEMMA InitInv == Init => IInv
<1> SUFFICES ASSUME Init PROVE IInv
  OBVIOUS
<1>1. TypeInv
  <2>1. arms \in Seq(SUBSET Ids) /\ Len(arms) = 0 /\ todo \in Seq(Seq(Ids)) /\ DOMAIN todo = {}
    BY DEF Init
  <2>2. binary \in [Ids -> 0..Len(arms)]
    BY <2>1 DEF Init, NoBinary
  <2>3. QED
    BY <2>1, <2>2 DEF Init, TypeInv
<1>2. LinkOK
  BY DEF Init, LinkOK
<1>3. ScoreOK
  <2>1. 0 + Count = Count
    BY Numbers
  <2>2. QED
    BY <2>1, Numbers DEF Init, ScoreOK
<1>4. QED
  BY <1>1, <1>2, <1>3 DEF IInv

LEMMA BuildModulesKeeps == ASSUME IInv, BuildModules PROVE IInv'
<1> DEFINE ok == {i \in Ids : fate[i] # "no olean"}
<1>1. ok \subseteq Ids /\ InOrder(ok) \in Seq(ok) /\ Range(InOrder(ok)) = ok
  BY Numbers, InOrderLists
<1>2. chunk \in Nat \ {0}
  BY Numbers DEF IInv, TypeInv
<1>3. /\ phase = "modules" /\ phase' = "link" /\ sources' = Ids /\ bad' = Ids \ ok /\ todo' = Chunks(InOrder(ok))
      /\ UNCHANGED <<setting, binary, arms, scoring>>
  BY DEF BuildModules
<1> HIDE DEF ok
<1>4. InOrder(ok) \in Seq(Ids)
  BY <1>1
<1>5. /\ todo' \in Seq(Seq(Ids)) /\ \A k \in DOMAIN todo' : todo'[k] # <<>>
      /\ \A i \in ok : \E k \in DOMAIN todo' : i \in Range(todo'[k])
  BY <1>1, <1>2, <1>3, <1>4, ChunksCover
<1>6. TypeInv'
  BY <1>3, <1>5 DEF IInv, TypeInv, setting, scoring
<1>7. LinkOK'
  <2>1. \A i \in bad' : fate[i] # "sound"
    BY <1>3 DEF ok
  <2>2. \A i \in Ids : i \in bad' \/ i \in ok
    BY <1>3
  <2>3. QED
    BY <1>3, <1>5, <2>1, <2>2 DEF IInv, LinkOK, setting
<1>8. ScoreOK'
  BY <1>3 DEF IInv, ScoreOK, setting, scoring
<1>9. QED
  BY <1>6, <1>7, <1>8 DEF IInv

\* What holds of the chunk that is built next.
LEMMA AtChunk ==
  ASSUME IInv, todo # <<>>
  PROVE  /\ Head(todo) \in Seq(Ids) /\ Head(todo) # <<>> /\ Range(Head(todo)) \subseteq Ids
         /\ Tail(todo) \in Seq(Seq(Ids)) /\ \A k \in DOMAIN Tail(todo) : Tail(todo)[k] # <<>>
         /\ \A i \in Ids : (\E k \in DOMAIN todo : i \in Range(todo[k])) =>
              i \in Range(Head(todo)) \/ \E k \in DOMAIN Tail(todo) : i \in Range(Tail(todo)[k])
         /\ Links(Head(todo)) => \A i \in Range(Head(todo)) : fate[i] = "sound"
         /\ ~Links(Head(todo)) /\ Len(Head(todo)) = 1 => \A i \in Range(Head(todo)) : fate[i] # "sound"
<1>1. /\ 1 \in DOMAIN todo /\ Head(todo) = todo[1] /\ Head(todo) \in Seq(Ids) /\ Tail(todo) \in Seq(Seq(Ids))
      /\ \A k \in DOMAIN Tail(todo) : k + 1 \in DOMAIN todo /\ Tail(todo)[k] = todo[k + 1]
      /\ \A k \in DOMAIN todo : k = 1 \/ (k - 1 \in DOMAIN Tail(todo) /\ Tail(todo)[k - 1] = todo[k])
  BY HeadTail DEF IInv, TypeInv
<1>2. Head(todo) # <<>> /\ \A k \in DOMAIN Tail(todo) : Tail(todo)[k] # <<>>
  BY <1>1 DEF IInv, TypeInv
<1>3. ASSUME NEW i \in Ids, NEW k \in DOMAIN todo, i \in Range(todo[k])
      PROVE  i \in Range(Head(todo)) \/ \E l \in DOMAIN Tail(todo) : i \in Range(Tail(todo)[l])
  BY <1>1, <1>3
<1> DEFINE ids == Head(todo)
<1> HIDE DEF ids
<1>4. ids \in Seq(Ids) => Range(ids) \subseteq Ids
  BY DEF Range
<1>5. Links(ids) => \A i \in Range(ids) : fate[i] = "sound"
  BY DEF Links, Range
<1>6. ids \in Seq(Ids) /\ ~Links(ids) /\ Len(ids) = 1 => \A i \in Range(ids) : fate[i] # "sound"
  <2> SUFFICES ASSUME ids \in Seq(Ids), ~Links(ids), Len(ids) = 1 PROVE \A i \in Range(ids) : fate[i] # "sound"
    OBVIOUS
  <2>1. DOMAIN ids = 1..1 /\ Len(ids) <= limit
    BY Numbers DEF IInv, TypeInv
  <2>2. \A k \in 1..1 : k = 1
    OBVIOUS
  <2>3. PICK k \in DOMAIN ids : fate[ids[k]] # "sound"
    BY <2>1 DEF Links
  <2>4. QED
    BY <2>1, <2>2, <2>3 DEF Range
<1>7. QED
  BY <1>1, <1>2, <1>3, <1>4, <1>5, <1>6 DEF ids

LEMMA LinkedKeeps == ASSUME IInv, Linked PROVE IInv'
<1> DEFINE R == Range(Head(todo))
           n == Len(arms)
<1>1. /\ todo # <<>> /\ phase = "link" /\ Links(Head(todo))
      /\ sources' = R /\ arms' = Append(arms, R) /\ todo' = Tail(todo)
      /\ binary' = [i \in Ids |-> IF i \in R THEN n + 1 ELSE binary[i]]
      /\ UNCHANGED <<setting, phase, bad, scoring>>
  BY DEF Linked
<1>2. /\ R \subseteq Ids /\ Tail(todo) \in Seq(Seq(Ids)) /\ \A k \in DOMAIN Tail(todo) : Tail(todo)[k] # <<>>
      /\ \A i \in R : fate[i] = "sound"
      /\ \A i \in Ids : (\E k \in DOMAIN todo : i \in Range(todo[k])) =>
           i \in R \/ \E k \in DOMAIN Tail(todo) : i \in Range(Tail(todo)[k])
  BY <1>1, AtChunk
<1> HIDE DEF R
<1>3. /\ n \in Nat /\ arms' \in Seq(SUBSET Ids) /\ Len(arms') = n + 1 /\ arms'[n + 1] = R
      /\ \A k \in 1..n : arms'[k] = arms[k]
  <2>1. arms \in Seq(SUBSET Ids) /\ R \in SUBSET Ids
    BY <1>2 DEF IInv, TypeInv
  <2>2. QED
    BY <1>1, <2>1, Push
<1> HIDE DEF n
<1>4. /\ binary \in [Ids -> 0..n]
      /\ \A i \in Ids : binary[i] # NoBinary => fate[i] = "sound" /\ i \in arms[binary[i]]
  BY DEF IInv, TypeInv, LinkOK, n
<1>5. binary' \in [Ids -> 0..(n + 1)]
  BY <1>1, <1>3, <1>4
<1>6. ASSUME NEW i \in Ids
      PROVE  /\ binary'[i] # NoBinary => fate[i] = "sound" /\ i \in arms'[binary'[i]]
             /\ binary[i] # NoBinary => binary'[i] # NoBinary
             /\ i \in R => binary'[i] # NoBinary
  <2>1. binary'[i] = IF i \in R THEN n + 1 ELSE binary[i]
    BY <1>1
  <2>2. CASE i \in R
    BY <1>2, <1>3, <2>1, <2>2 DEF NoBinary
  <2>3. CASE i \notin R
    <3>1. binary[i] # NoBinary => binary[i] \in 1..n
      BY <1>3, <1>4 DEF NoBinary
    <3>2. QED
      BY <1>3, <1>4, <2>1, <2>3, <3>1
  <2>4. QED
    BY <2>2, <2>3
<1>7. TypeInv'
  BY <1>1, <1>2, <1>3, <1>5 DEF IInv, TypeInv, setting, scoring
<1>8. LinkOK'
  BY <1>1, <1>2, <1>6 DEF IInv, LinkOK, setting
<1>9. ScoreOK'
  BY <1>1 DEF IInv, ScoreOK, setting, scoring
<1>10. QED
  BY <1>7, <1>8, <1>9 DEF IInv

LEMMA IsolatedKeeps == ASSUME IInv, Isolated PROVE IInv'
<1> DEFINE R == Range(Head(todo))
<1>1. /\ todo # <<>> /\ phase = "link" /\ ~Links(Head(todo)) /\ Len(Head(todo)) = 1
      /\ sources' = R /\ bad' = bad \cup R /\ todo' = Tail(todo)
      /\ UNCHANGED <<setting, phase, binary, arms, scoring>>
  BY DEF Isolated
<1>2. /\ R \subseteq Ids /\ Tail(todo) \in Seq(Seq(Ids)) /\ \A k \in DOMAIN Tail(todo) : Tail(todo)[k] # <<>>
      /\ \A i \in R : fate[i] # "sound"
      /\ \A i \in Ids : (\E k \in DOMAIN todo : i \in Range(todo[k])) =>
           i \in R \/ \E k \in DOMAIN Tail(todo) : i \in Range(Tail(todo)[k])
  BY <1>1, AtChunk
<1> HIDE DEF R
<1>3. TypeInv'
  BY <1>1, <1>2 DEF IInv, TypeInv, setting, scoring
<1>4. LinkOK'
  BY <1>1, <1>2 DEF IInv, LinkOK, setting
<1>5. ScoreOK'
  BY <1>1 DEF IInv, ScoreOK, setting, scoring
<1>6. QED
  BY <1>3, <1>4, <1>5 DEF IInv

LEMMA BisectKeeps == ASSUME IInv, Bisect PROVE IInv'
<1> DEFINE ids == Head(todo)
           mid == Len(ids) \div 2
           a == SubSeq(ids, 1, mid)
           b == SubSeq(ids, mid + 1, Len(ids))
<1>1. /\ todo # <<>> /\ phase = "link" /\ Len(ids) > 1
      /\ sources' = Range(ids) /\ todo' = <<a, b>> \o Tail(todo)
      /\ UNCHANGED <<setting, phase, bad, binary, arms, scoring>>
  BY DEF Bisect
<1>2. /\ ids \in Seq(Ids) /\ Range(ids) \subseteq Ids
      /\ Tail(todo) \in Seq(Seq(Ids)) /\ \A k \in DOMAIN Tail(todo) : Tail(todo)[k] # <<>>
      /\ \A i \in Ids : (\E k \in DOMAIN todo : i \in Range(todo[k])) =>
           i \in Range(ids) \/ \E k \in DOMAIN Tail(todo) : i \in Range(Tail(todo)[k])
  BY <1>1, AtChunk
<1> HIDE DEF ids
<1>3. /\ a \in Seq(Ids) /\ a # <<>> /\ b \in Seq(Ids) /\ b # <<>>
      /\ Range(ids) \subseteq Range(a) \cup Range(b)
  BY <1>1, <1>2, Halves
<1> HIDE DEF a, b
<1>4. /\ todo' \in Seq(Seq(Ids))
      /\ 1 \in DOMAIN todo' /\ todo'[1] = a /\ 2 \in DOMAIN todo' /\ todo'[2] = b
      /\ \A k \in DOMAIN Tail(todo) : k + 2 \in DOMAIN todo' /\ todo'[k + 2] = Tail(todo)[k]
      /\ \A k \in DOMAIN todo' : todo'[k] \in {a, b} \/ \E l \in DOMAIN Tail(todo) : todo'[k] = Tail(todo)[l]
  <2> DEFINE T == Seq(Ids)
             q == Tail(todo)
  <2>1. a \in T /\ b \in T /\ q \in Seq(T)
    BY <1>2, <1>3
  <2> HIDE DEF T, q
  <2>2. /\ <<a, b>> \o q \in Seq(T)
        /\ 1 \in DOMAIN (<<a, b>> \o q) /\ (<<a, b>> \o q)[1] = a
        /\ 2 \in DOMAIN (<<a, b>> \o q) /\ (<<a, b>> \o q)[2] = b
        /\ \A k \in DOMAIN q : k + 2 \in DOMAIN (<<a, b>> \o q) /\ (<<a, b>> \o q)[k + 2] = q[k]
        /\ \A k \in DOMAIN (<<a, b>> \o q) :
             (<<a, b>> \o q)[k] \in {a, b} \/ \E l \in DOMAIN q : (<<a, b>> \o q)[k] = q[l]
    BY <2>1, TwoBefore
  <2>3. todo' = <<a, b>> \o q
    BY <1>1 DEF q
  <2>4. QED
    BY <2>2, <2>3 DEF T, q
<1>5. ASSUME NEW k \in DOMAIN todo' PROVE todo'[k] # <<>>
  <2>1. todo'[k] = a \/ todo'[k] = b \/ \E l \in DOMAIN Tail(todo) : todo'[k] = Tail(todo)[l]
    BY <1>4
  <2>2. QED
    BY <1>2, <1>3, <2>1
<1>6. ASSUME NEW i \in Ids, \E k \in DOMAIN todo : i \in Range(todo[k])
      PROVE  \E k \in DOMAIN todo' : i \in Range(todo'[k])
  <2>1. CASE i \in Range(ids)
    BY <1>3, <1>4, <2>1
  <2>2. CASE \E k \in DOMAIN Tail(todo) : i \in Range(Tail(todo)[k])
    BY <1>4, <2>2
  <2>3. QED
    BY <1>2, <1>6, <2>1, <2>2
<1>7. TypeInv'
  BY <1>1, <1>2, <1>4, <1>5 DEF IInv, TypeInv, setting, scoring
<1>8. LinkOK'
  BY <1>1, <1>6 DEF IInv, LinkOK, setting
<1>9. ScoreOK'
  BY <1>1 DEF IInv, ScoreOK, setting, scoring
<1>10. QED
  BY <1>7, <1>8, <1>9 DEF IInv

LEMMA ScoreKeeps ==
  ASSUME IInv, NEW i \in pending, NEW pass \in BOOLEAN, Score(i, pass)
  PROVE  IInv'
<1>1. /\ phase = "run" /\ (pass => Runnable(i))
      /\ pending' = pending \ {i}
      /\ passed' = IF pass THEN passed \cup {i} ELSE passed
      /\ divergences' = IF pass THEN divergences ELSE divergences \cup {i}
      /\ report' = [report EXCEPT ![ProblemOf[i]] = {i}]
      /\ agg' = agg + 1
      /\ UNCHANGED <<setting, phase, linking>>
  BY DEF Score
<1>2. i \in Ids /\ pending \subseteq Ids
  BY DEF IInv, TypeInv
<1>3. TypeInv'
  <2>1. report' \in [Problems -> SUBSET Ids]
    BY <1>1, <1>2 DEF IInv, TypeInv
  <2>2. passed' \subseteq Ids /\ divergences' \subseteq Ids /\ pending' \subseteq Ids /\ agg' \in Nat
    BY <1>1, <1>2 DEF IInv, TypeInv
  <2>3. QED
    BY <1>1, <2>1, <2>2 DEF IInv, TypeInv, setting, linking
<1>4. LinkOK'
  BY <1>1 DEF IInv, LinkOK, setting, linking
<1>5. ScoreOK'
  <2>1. IsFiniteSet(pending)
    BY <1>2, Numbers
  <2>2. Cardinality(pending') = Cardinality(pending) - 1 /\ Cardinality(pending) \in Nat
    BY <1>1, <2>1, FS_RemoveElement, FS_CardinalityType
  <2>3. agg' + Cardinality(pending') = Count
    BY <1>1, <2>2 DEF IInv, TypeInv, ScoreOK
  <2>4. pass => fate[i] = "sound"
    BY <1>1, <1>2 DEF Runnable, IInv, LinkOK
  <2>5. passed' \cup divergences' = Ids \ pending' /\ passed' \cap divergences' = {}
    BY <1>1, <1>2 DEF IInv, ScoreOK
  <2>6. \A k \in passed' : fate'[k] = "sound"
    BY <1>1, <2>4 DEF IInv, ScoreOK, setting
  <2>7. QED
    BY <1>1, <2>3, <2>5, <2>6 DEF ScoreOK
<1>6. QED
  BY <1>3, <1>4, <1>5 DEF IInv

\* In every state of every evaluation: what is excluded is an offender, what is
\* in a snapshot is sound and has an arm there, and the summary is of the
\* harnesses scored (build_chunk, evaluate_native).
THEOREM NativeInvariant == Spec => []IInv
<1>1. ASSUME IInv, [Next]_vars PROVE IInv'
  <2>1. CASE BuildModules
    BY <1>1, <2>1, BuildModulesKeeps
  <2>2. CASE Linked
    BY <1>1, <2>2, LinkedKeeps
  <2>3. CASE Isolated
    BY <1>1, <2>3, IsolatedKeeps
  <2>4. CASE Bisect
    BY <1>1, <2>4, BisectKeeps
  <2>5. CASE AllLinked
    BY <1>1, <2>5 DEF AllLinked, IInv, TypeInv, LinkOK, ScoreOK, setting, linking, scoring
  <2>6. CASE \E i \in pending : Score(i, TRUE) \/ Score(i, FALSE)
    BY <1>1, <2>6, ScoreKeeps
  <2>7. CASE WriteReport
    BY <1>1, <2>7 DEF WriteReport, IInv, TypeInv, LinkOK, ScoreOK, setting, scoring
  <2>8. CASE UNCHANGED vars
    BY <1>1, <2>8 DEF vars, IInv, TypeInv, LinkOK, ScoreOK, setting, linking, scoring
  <2>9. QED
    BY <1>1, <2>1, <2>2, <2>3, <2>4, <2>5, <2>6, <2>7, <2>8 DEF Next
<1>2. QED
  BY InitInv, <1>1, PTL DEF Spec

\* Every variable keeps its range; no more harnesses are counted than there are.
THEOREM TypeCorrect == Spec => []TypeOK
<1>1. ASSUME IInv PROVE TypeOK
  <2>1. Cardinality(pending) \in Nat /\ Count \in Nat
    BY <1>1, Numbers, FS_CardinalityType DEF IInv, TypeInv
  <2>2. agg \in 0..Count
    BY <1>1, <2>1 DEF IInv, TypeInv, ScoreOK
  <2>3. QED
    BY <1>1, <2>2 DEF IInv, TypeInv, TypeOK
<1>2. QED
  BY <1>1, NativeInvariant, PTL

\* "A chunk that fails is bisected down to the individual offending module(s),
\* which are marked compile_fail; everything else still runs" (build_chunk), for
\* any chunk size and linker limit.
THEOREM OffendersAlone == Spec => []OnlyOffendersExcluded
<1>1. ASSUME IInv PROVE OnlyOffendersExcluded
  <2>1. SUFFICES ASSUME phase \in {"run", "nothing", "reported"}, NEW i \in Ids
                 PROVE  IF fate[i] = "sound"
                          THEN i \notin bad /\ binary[i] # NoBinary /\ i \in arms[binary[i]]
                          ELSE i \in bad /\ binary[i] = NoBinary
    BY DEF OnlyOffendersExcluded
  <2>2. todo = <<>> /\ phase # "modules"
    BY <1>1, <2>1 DEF IInv, LinkOK
  <2>3. DOMAIN todo = {}
    BY <2>2
  <2>4. i \in bad \/ binary[i] # NoBinary
    BY <1>1, <2>2, <2>3 DEF IInv, LinkOK
  <2>5. QED
    BY <1>1, <2>4 DEF IInv, LinkOK
<1>2. QED
  BY <1>1, NativeInvariant, PTL

\* An evaluation with a report has counted every harness once, each a pass or a
\* divergence, the excluded ones as divergences; one without a report counts none,
\* and had none that could run (evaluate_native).
THEOREM AllCounted == Spec => []EveryHarnessCounted
<1>1. ASSUME IInv, phase = "reported"
      PROVE  /\ agg = Count
             /\ passed \cup divergences = Ids /\ passed \cap divergences = {}
             /\ \A i \in Ids : fate[i] # "sound" => i \in divergences
  <2>1. pending = {}
    BY <1>1 DEF IInv, ScoreOK
  <2>2. agg = Count
    <3>1. Cardinality(pending) = 0
      BY <2>1, FS_EmptySet
    <3>2. QED
      BY <1>1, <3>1, Numbers DEF IInv, TypeInv, ScoreOK
  <2>3. QED
    BY <1>1, <2>1, <2>2 DEF IInv, ScoreOK
<1>2. ASSUME IInv, phase = "nothing"
      PROVE  /\ agg = 0 /\ passed = {} /\ divergences = {}
             /\ \A i \in Ids : fate[i] # "sound"
  <2>1. pending = Ids /\ agg = 0 /\ \A i \in Ids : binary[i] = NoBinary
    BY <1>2 DEF IInv, ScoreOK
  <2>2. passed \cup divergences = {}
    BY <1>2, <2>1 DEF IInv, ScoreOK
  <2>3. todo = <<>> /\ DOMAIN todo = {}
    BY <1>2 DEF IInv, LinkOK
  <2>4. ASSUME NEW i \in Ids PROVE fate[i] # "sound"
    <3>1. i \in bad
      BY <1>2, <2>1, <2>3 DEF IInv, LinkOK
    <3>2. QED
      BY <1>2, <3>1 DEF IInv, LinkOK
  <2>5. QED
    BY <2>1, <2>2, <2>4
<1>3. IInv => EveryHarnessCounted
  BY <1>1, <1>2 DEF EveryHarnessCounted
<1>4. QED
  BY <1>3, NativeInvariant, PTL
=============================================================================

-------------------------- MODULE PruneTestsProofs --------------------------
(***************************************************************************)
(* Proofs about the reference batch and prune_tests, for every finite set of *)
(* cases and whatever the reference does on each: the results of a batch     *)
(* stay aligned with its cases and cost one child each, and pruning touches  *)
(* no case the reference answers.                                           *)
(***************************************************************************)
EXTENDS PruneTests, FiniteSetTheorems, SequenceTheorems, TLAPS

\* A sequence of numbers, smallest first.
Increasing(list) == \A j, k \in DOMAIN list : j < k => list[j] < list[k]

\* The results under way are those of the cases from `at` on, in order.
PipeOK ==
  \A n \in DOMAIN pipe :
    /\ pipe[n].idx = at + n - 1
    /\ pipe[n].res \in Allowed(batch[pipe[n].idx])

\* A child exists while the parent receives or reaps.  It is at the case after
\* the results it sent, or died of that case; the parent stops at a case only
\* when the case is to blame, and judges a batch only when it is through.
ChildOK ==
  /\ IF parent \in {"receive", "reap"}
       THEN \/ child = at + Len(pipe)
            \/ /\ child = Ended /\ at + Len(pipe) \in DOMAIN batch
               /\ kind[batch[at + Len(pipe)]] = "memory"
       ELSE child = NoChild /\ pipe = <<>>
  /\ parent = "receive" => at <= Len(batch)
  /\ parent = "reap" /\ at <= Len(batch) => kind[batch[at]] \in {"memory", "hangs", "slow"}
  /\ parent \in {"judged", "tests.json", "written", "excluded.json"} => at = Ended

Drops == {k \in DOMAIN results : results[k] = Dropped}

\* Each child but the one at work was paid for by a dropped case.
ForkOK ==
  /\ forks <= 1 + Cardinality(Drops)
  /\ parent = "fork" /\ at <= Len(batch) => forks <= Cardinality(Drops)

BatchInv == BatchTypeOK /\ PipeOK /\ ChildOK /\ Aligned /\ ForkOK

\* A case that may be excluded.
Faulty(c) == c \in Unparsable \/ kind[c] # "value"

\* A file is cut off while it is written, and after a kill in its write.
CutOK ==
  /\ cut \subseteq Files /\ hit \subseteq Files
  /\ \A f \in cut : parent = f \/ f \in hit
  /\ parent = "written" => "tests.json" \notin cut

\* The lists the files were last filled with lack no good case; the cases out of
\* spec are faulty, and gone from tests.json before they are written to excluded.json.
PruneInv ==
  /\ tests \in Seq(Cases) /\ excluded \subseteq Cases /\ reasons \subseteq Cases
  /\ passes \in 0..MaxPasses
  /\ \A c \in Cases \ Unparsable : kind[c] = "value" => c \in Range(tests)
  /\ \A c \in excluded : c \notin Range(tests) /\ Faulty(c)
  /\ Increasing(tests)
  /\ \A c \in reasons : Faulty(c)
  /\ parent \in {"written", "excluded.json"} => reasons \cap Range(tests) = {}

\* The elements of S below c.
Below(S, c) == {d \in S : d < c}
-----------------------------------------------------------------------------
(* Sorting and filtering, the two operators the lists are built with. *)

\* The number of smaller elements is a place of its own for each element.
LEMMA BelowCounts ==
  ASSUME NEW S, S \subseteq Nat, IsFiniteSet(S), NEW c \in S
  PROVE  /\ IsFiniteSet(Below(S, c))
         /\ Cardinality(Below(S, c)) \in 0..(Cardinality(S) - 1)
         /\ \A d \in S : d < c => Cardinality(Below(S, d)) < Cardinality(Below(S, c))
<1>1. /\ IsFiniteSet(Below(S, c)) /\ Cardinality(Below(S, c)) \in Nat /\ Cardinality(S) \in Nat
      /\ Cardinality(Below(S, c)) < Cardinality(S)
  <2>1. Below(S, c) \in SUBSET S /\ c \notin Below(S, c)
    BY DEF Below
  <2>2. /\ IsFiniteSet(Below(S, c)) /\ Cardinality(Below(S, c)) <= Cardinality(S)
        /\ (Cardinality(S) = Cardinality(Below(S, c)) => S = Below(S, c))
    BY <2>1, FS_Subset
  <2>3. Cardinality(Below(S, c)) \in Nat /\ Cardinality(S) \in Nat
    BY <2>2, FS_CardinalityType
  <2>4. Cardinality(Below(S, c)) # Cardinality(S)
    BY <2>1, <2>2
  <2>5. QED
    BY <2>2, <2>3, <2>4
<1>2. ASSUME NEW d \in S, d < c
      PROVE  Cardinality(Below(S, d)) < Cardinality(Below(S, c))
  <2>1. Below(S, d) \in SUBSET Below(S, c) /\ d \in Below(S, c) /\ d \notin Below(S, d)
    <3>1. (\A e \in S : e < d => e < c) /\ ~(d < d)
      BY <1>2
    <3>2. Below(S, d) \subseteq Below(S, c)
      BY <3>1 DEF Below
    <3>3. QED
      BY <1>2, <3>1, <3>2 DEF Below
  <2>2. /\ IsFiniteSet(Below(S, d)) /\ Cardinality(Below(S, d)) <= Cardinality(Below(S, c))
        /\ (Cardinality(Below(S, c)) = Cardinality(Below(S, d)) => Below(S, c) = Below(S, d))
    BY <1>1, <2>1, FS_Subset
  <2>3. Cardinality(Below(S, d)) \in Nat
    BY <2>2, FS_CardinalityType
  <2>4. Cardinality(Below(S, d)) # Cardinality(Below(S, c))
    BY <2>1, <2>2
  <2>5. QED
    BY <1>1, <2>2, <2>3, <2>4
<1>3. QED
  BY <1>1, <1>2

\* InOrder lists the set: every element once, smallest first.
LEMMA InOrderLists ==
  ASSUME NEW S, S \subseteq Nat, IsFiniteSet(S)
  PROVE  /\ Cardinality(S) \in Nat
         /\ InOrder(S) \in [1..Cardinality(S) -> S]
         /\ Increasing(InOrder(S))
         /\ \A c \in S : \E n \in DOMAIN InOrder(S) : InOrder(S)[n] = c
<1> DEFINE N == Cardinality(S)
           place == [c \in S |-> Cardinality(Below(S, c)) + 1]
<1>1. N \in Nat /\ IsFiniteSet(1..N) /\ Cardinality(1..N) = N
  BY FS_CardinalityType, FS_Interval
<1>2. place \in [S -> 1..N] /\ \A c, d \in S : d < c => place[d] < place[c]
  <2>1. ASSUME NEW c \in S PROVE Cardinality(Below(S, c)) + 1 \in 1..N
    <3>1. Cardinality(Below(S, c)) \in 0..(N - 1)
      BY BelowCounts
    <3>2. QED
      BY <1>1, <3>1
  <2>2. ASSUME NEW c \in S, NEW d \in S, d < c PROVE place[d] < place[c]
    <3>1. /\ Cardinality(Below(S, c)) \in 0..(N - 1) /\ Cardinality(Below(S, d)) \in 0..(N - 1)
          /\ Cardinality(Below(S, d)) < Cardinality(Below(S, c))
      BY <2>2, BelowCounts
    <3>2. QED
      BY <1>1, <3>1
  <2>3. QED
    BY <2>1, <2>2
<1>3. \A c, d \in S : place[c] = place[d] => c = d
  BY <1>1, <1>2
<1>4. place \in Surjection(S, 1..N)
  <2>1. place \in Injection(S, 1..N)
    BY <1>2, <1>3 DEF Injection, IsInjective
  <2>2. QED
    BY <1>1, <2>1, FS_Injection
<1>5. \A n \in 1..N : \E c \in S : place[c] = n
  BY <1>4 DEF Surjection
<1>6. ASSUME NEW n \in 1..N PROVE InOrder(S)[n] \in S /\ place[InOrder(S)[n]] = n
  <2>1. \E c \in S : Cardinality({d \in S : d < c}) = n - 1
    <3>1. PICK c \in S : place[c] = n
      BY <1>5
    <3>2. Cardinality(Below(S, c)) \in 0..(N - 1) /\ Cardinality(Below(S, c)) + 1 = n
      BY <3>1, BelowCounts
    <3>3. Cardinality(Below(S, c)) = n - 1
      BY <1>1, <3>2
    <3>4. QED
      BY <3>3 DEF Below
  <2>2. InOrder(S)[n] \in S /\ Cardinality(Below(S, InOrder(S)[n])) = n - 1
    BY <2>1 DEF InOrder, Below
  <2>3. QED
    BY <1>1, <2>2
<1>7. InOrder(S) \in [1..N -> S]
  BY <1>6 DEF InOrder
<1>8. Increasing(InOrder(S))
  <2>1. SUFFICES ASSUME NEW j \in 1..N, NEW k \in 1..N, j < k, ~(InOrder(S)[j] < InOrder(S)[k])
                 PROVE  FALSE
    BY <1>7 DEF Increasing
  <2>2. PICK c \in S, d \in S : c = InOrder(S)[j] /\ d = InOrder(S)[k] /\ place[c] = j /\ place[d] = k
    BY <1>6
  <2>3. c \in Nat /\ d \in Nat /\ ~(c < d)
    BY <2>1, <2>2
  <2>4. d < c \/ c = d
    BY <2>3
  <2>5. QED
    BY <1>1, <1>2, <2>1, <2>2, <2>4
<1>9. ASSUME NEW c \in S PROVE \E n \in DOMAIN InOrder(S) : InOrder(S)[n] = c
  <2>1. place[c] \in 1..N
    BY <1>2
  <2>2. InOrder(S)[place[c]] = c
    BY <1>3, <1>6, <2>1
  <2>3. QED
    BY <1>7, <2>1, <2>2
<1>10. QED
  BY <1>1, <1>7, <1>8, <1>9

\* A function on 1..n is a sequence.
LEMMA FunctionIsSeq ==
  ASSUME NEW T, NEW n \in Nat, NEW f \in [1..n -> T]
  PROVE  f \in Seq(T)
<1>1. \E m \in Nat : f \in [1..m -> T]
  OBVIOUS
<1>2. QED
  BY ONLY <1>1, SeqDef

\* Without keeps exactly the cases that are not in R, in their order.
LEMMA WithoutKeeps ==
  ASSUME NEW T, NEW list \in Seq(T), NEW R
  PROVE  /\ Without(list, R) \in Seq(T)
         /\ Range(Without(list, R)) = Range(list) \ R
         /\ T \subseteq Nat /\ Increasing(list) => Increasing(Without(list, R))
<1> DEFINE S == {k \in DOMAIN list : list[k] \notin R}
           kept == InOrder(S)
<1>1. Len(list) \in Nat /\ DOMAIN list = 1..Len(list) /\ \A k \in DOMAIN list : list[k] \in T
  OBVIOUS
<1>2. S \subseteq Nat /\ S \subseteq DOMAIN list /\ IsFiniteSet(S)
  <2>1. IsFiniteSet(1..Len(list)) /\ S \in SUBSET (1..Len(list))
    BY <1>1, FS_Interval
  <2>2. QED
    BY <1>1, <2>1, FS_Subset
<1>3. /\ Cardinality(S) \in Nat /\ kept \in [1..Cardinality(S) -> S] /\ Increasing(kept)
      /\ \A c \in S : \E n \in DOMAIN kept : kept[n] = c
  BY <1>2, InOrderLists
<1> HIDE DEF kept
<1>4. Without(list, R) = [n \in DOMAIN kept |-> list[kept[n]]]
  BY DEF Without, kept
<1>5. /\ DOMAIN Without(list, R) = 1..Cardinality(S)
      /\ \A n \in 1..Cardinality(S) : kept[n] \in S /\ Without(list, R)[n] = list[kept[n]]
  BY <1>3, <1>4
<1>6. Without(list, R) \in Seq(T)
  <2>1. \A n \in 1..Cardinality(S) : Without(list, R)[n] \in T
    BY <1>1, <1>2, <1>5
  <2>2. Without(list, R) \in [1..Cardinality(S) -> T]
    BY <1>3, <1>4, <2>1
  <2>3. QED
    BY ONLY <1>3, <2>2, FunctionIsSeq
<1>7. Range(Without(list, R)) = Range(list) \ R
  <2>1. ASSUME NEW c \in Range(Without(list, R)) PROVE c \in Range(list) /\ c \notin R
    BY <1>2, <1>5, <2>1 DEF Range
  <2>2. ASSUME NEW c \in Range(list), c \notin R PROVE c \in Range(Without(list, R))
    <3>1. PICK k \in DOMAIN list : list[k] = c
      BY DEF Range
    <3>2. k \in S
      BY <2>2, <3>1
    <3>3. PICK n \in 1..Cardinality(S) : kept[n] = k
      BY <1>3, <3>2
    <3>4. QED
      BY <1>5, <3>1, <3>3 DEF Range
  <2>3. QED
    BY <2>1, <2>2
<1>8. ASSUME Increasing(list) PROVE Increasing(Without(list, R))
  <2>1. SUFFICES ASSUME NEW j \in 1..Cardinality(S), NEW k \in 1..Cardinality(S), j < k
                 PROVE  list[kept[j]] < list[kept[k]]
    BY <1>5 DEF Increasing
  <2>2. kept[j] \in DOMAIN list /\ kept[k] \in DOMAIN list
    BY <1>5
  <2>3. kept[j] < kept[k]
    BY <1>3, <2>1 DEF Increasing
  <2>4. QED
    BY <1>8, <2>2, <2>3 DEF Increasing
<1>9. QED
  BY <1>6, <1>7, <1>8
-----------------------------------------------------------------------------
(* The batch. *)

\* The shapes the invariant gives.
LEMMA Shapes ==
  ASSUME BatchTypeOK
  PROVE  /\ Len(batch) \in Nat /\ DOMAIN batch = 1..Len(batch)
         /\ \A k \in DOMAIN batch : batch[k] \in Cases
         /\ DOMAIN results = 1..Len(batch)
         /\ at \in 1..(Len(batch) + 1) /\ child \in 0..(Len(batch) + 1)
         /\ Len(pipe) \in Nat /\ DOMAIN pipe = 1..Len(pipe)
BY DEF BatchTypeOK, Ended

\* A queue loses its first element and keeps the rest.
LEMMA Pop ==
  ASSUME NEW T, NEW q \in Seq(T), q # <<>>
  PROVE  /\ Len(q) \in Nat /\ Len(q) >= 1 /\ DOMAIN q = 1..Len(q)
         /\ Head(q) = q[1] /\ q[1] \in T
         /\ Tail(q) \in Seq(T) /\ Len(Tail(q)) = Len(q) - 1
         /\ DOMAIN Tail(q) = 1..Len(Tail(q))
         /\ \A n \in 1..Len(Tail(q)) : Tail(q)[n] = q[n + 1]
OBVIOUS

\* No verdict is taken for a drop.
LEMMA Distinct ==
  ASSUME NEW c
  PROVE  NotRun # Dropped /\ Value(c) # Dropped /\ Raised(c) # Dropped
<1>1. /\ NotRun.why = "not-run" /\ Dropped.why = "timeout-or-oom"
      /\ Value(c).why = "returned" /\ Raised(c).why = "raised"
  BY DEF NotRun, Dropped, Value, Raised
<1>2. QED
  BY <1>1

\* What a case may get is a verdict, and nothing but what it does decides.
LEMMA AllowedVerdicts ==
  ASSUME NEW c \in Cases, kind[c] \in Kinds
  PROVE  /\ Allowed(c) \subseteq Verdicts
         /\ kind[c] = "raises" => Raised(c) \in Allowed(c)
         /\ kind[c] \in {"value", "slow"} => Value(c) \in Allowed(c)
         /\ kind[c] \in {"memory", "hangs", "slow"} => Dropped \in Allowed(c)
BY DEF Allowed, Verdicts, Kinds

\* As long as the program does what it does, a case's verdicts stay.
LEMMA AllowedStays ==
  ASSUME kind' = kind, NEW c
  PROVE  Allowed(c)' = Allowed(c)
BY DEF Allowed

\* A drop stays, and one more drop pays for one more child.
LEMMA DropsGrow ==
  ASSUME NEW n \in Nat, DOMAIN results = 1..n, DOMAIN results' = 1..n,
         \A k \in 1..n : results[k] = Dropped => results'[k] = Dropped
  PROVE  /\ Cardinality(Drops) \in Nat /\ Cardinality(Drops') \in Nat
         /\ Cardinality(Drops) <= Cardinality(Drops')
         /\ (\E k \in 1..n : results[k] # Dropped /\ results'[k] = Dropped)
              => Cardinality(Drops) + 1 <= Cardinality(Drops')
<1>1. Drops \subseteq Drops' /\ Drops' \subseteq 1..n
  BY DEF Drops, Dropped
<1>2. IsFiniteSet(Drops') /\ IsFiniteSet(Drops)
  <2>1. IsFiniteSet(1..n)
    BY FS_Interval
  <2>2. QED
    BY <1>1, <2>1, FS_Subset
<1>3. /\ Cardinality(Drops) \in Nat /\ Cardinality(Drops') \in Nat
      /\ Cardinality(Drops) <= Cardinality(Drops')
      /\ (Cardinality(Drops') = Cardinality(Drops) => Drops' = Drops)
  BY <1>1, <1>2, FS_CardinalityType, FS_Subset
<1>4. ASSUME NEW k \in 1..n, results[k] # Dropped, results'[k] = Dropped
      PROVE  Cardinality(Drops) # Cardinality(Drops')
  <2>1. k \in Drops' /\ k \notin Drops
    BY <1>4 DEF Drops, Dropped
  <2>2. QED
    BY <1>3, <2>1
<1>5. ASSUME NEW k \in 1..n, results[k] # Dropped, results'[k] = Dropped
      PROVE  Cardinality(Drops) + 1 <= Cardinality(Drops')
  BY <1>3, <1>4, <1>5
<1>6. QED
  BY <1>3, <1>5

\* The parent records the first result sent: it is that of the case it waits for.
LEMMA ReceiveKeeps ==
  ASSUME BatchInv, Receive
  PROVE  BatchInv'
<1> DEFINE Results == [idx : DOMAIN batch, res : Verdicts]
<1>1. /\ Len(batch) \in Nat /\ DOMAIN batch = 1..Len(batch) /\ DOMAIN results = 1..Len(batch)
      /\ at \in 1..(Len(batch) + 1) /\ Len(pipe) \in Nat /\ DOMAIN pipe = 1..Len(pipe)
      /\ \A k \in DOMAIN batch : batch[k] \in Cases
  BY Shapes DEF BatchInv
<1>2. /\ kind' = kind /\ batch' = batch /\ child' = child /\ forks' = forks
      /\ parent = "receive" /\ pipe # <<>> /\ pipe' = Tail(pipe)
  BY DEF Receive
<1>3. /\ pipe \in Seq(Results) /\ Len(pipe) >= 1 /\ Head(pipe) = pipe[1] /\ pipe[1] \in Results
      /\ pipe' \in Seq(Results) /\ Len(pipe') = Len(pipe) - 1
      /\ DOMAIN pipe' = 1..Len(pipe')
      /\ \A n \in 1..Len(pipe') : pipe'[n] = pipe[n + 1]
  <2>1. pipe \in Seq(Results)
    BY DEF BatchInv, BatchTypeOK
  <2> HIDE DEF Results
  <2>2. QED
    BY <1>2, <2>1, Pop
<1>4. Head(pipe).idx = at /\ at \in DOMAIN batch /\ Head(pipe).res \in Allowed(batch[at])
      /\ Head(pipe).res \in Verdicts
  <2>1. Head(pipe).idx \in DOMAIN batch /\ Head(pipe).res \in Verdicts
    BY <1>3
  <2>2. pipe[1].idx = at + 1 - 1 /\ pipe[1].res \in Allowed(batch[pipe[1].idx])
    <3>1. 1 \in DOMAIN pipe
      BY <1>1, <1>3
    <3>2. QED
      BY <3>1 DEF BatchInv, PipeOK
  <2>3. Head(pipe).idx = at
    BY <1>1, <1>3, <2>2
  <2>4. Head(pipe).res = pipe[1].res /\ pipe[1].idx = at
    BY <1>3, <2>3
  <2>5. QED
    BY <2>1, <2>2, <2>3, <2>4
<1>5. /\ at' = at + 1 /\ parent' = IF at = Len(batch) THEN "reap" ELSE "receive"
      /\ results' = [results EXCEPT ![at] = Head(pipe).res]
  BY <1>4 DEF Receive
<1>6. /\ DOMAIN results' = 1..Len(batch) /\ results'[at] = Head(pipe).res
      /\ \A k \in 1..Len(batch) : k # at => results'[k] = results[k]
  BY <1>1, <1>4, <1>5
<1>7. results[at] = NotRun
  BY <1>1, <1>4 DEF BatchInv, Aligned
<1>8. BatchTypeOK'
  <2>1. results' \in [DOMAIN batch -> Verdicts]
    BY <1>1, <1>4, <1>5 DEF BatchInv, BatchTypeOK
  <2>2. at' \in 1..(Len(batch') + 1)
    BY <1>1, <1>2, <1>4, <1>5
  <2>3. QED
    BY <1>1, <1>2, <1>3, <1>5, <2>1, <2>2 DEF BatchInv, BatchTypeOK, Ended
<1>9. PipeOK'
  <2>1. SUFFICES ASSUME NEW n \in 1..Len(pipe')
                 PROVE  /\ pipe'[n].idx = at' + n - 1
                        /\ pipe'[n].res \in Allowed(batch[pipe'[n].idx])
    BY <1>2, <1>3 DEF PipeOK, Allowed
  <2>2. n + 1 \in DOMAIN pipe /\ pipe'[n] = pipe[n + 1]
    <3>1. Len(pipe') = Len(pipe) - 1 /\ pipe'[n] = pipe[n + 1]
      BY <1>3
    <3>2. n + 1 \in 1..Len(pipe)
      BY <1>1, <3>1
    <3>3. QED
      BY <1>1, <3>1, <3>2
  <2>3. QED
    BY <1>1, <1>5, <2>2 DEF BatchInv, PipeOK
<1>10. ChildOK'
  <2>1. \/ child = at + Len(pipe)
        \/ /\ child = Ended /\ at + Len(pipe) \in DOMAIN batch
           /\ kind[batch[at + Len(pipe)]] = "memory"
    BY <1>2 DEF BatchInv, ChildOK
  <2>2. at' + Len(pipe') = at + Len(pipe)
    <3>1. Len(pipe') = Len(pipe) - 1 /\ at' = at + 1
      BY <1>3, <1>5
    <3>2. QED
      BY <1>1, <3>1
  <2>3. (parent' = "receive" => at' <= Len(batch)) /\ (parent' = "reap" => at' = Len(batch) + 1)
    BY <1>1, <1>4, <1>5
  <2>4. parent' \in {"receive", "reap"}
    BY <1>5
  <2>5. QED
    BY <1>1, <1>2, <2>1, <2>2, <2>3, <2>4 DEF ChildOK, Ended
<1>11. Aligned'
  <2>1. SUFFICES ASSUME NEW k \in 1..Len(batch)
                 PROVE  IF k < at' THEN results'[k] \in Allowed(batch[k]) ELSE results'[k] = NotRun
    BY <1>1, <1>2 DEF Aligned, Allowed
  <2>2. IF k < at THEN results[k] \in Allowed(batch[k]) ELSE results[k] = NotRun
    BY <1>1 DEF BatchInv, Aligned
  <2>3. CASE k = at
    BY <1>1, <1>4, <1>5, <1>6, <2>3
  <2>4. CASE k # at
    BY <1>1, <1>4, <1>5, <1>6, <2>2, <2>4
  <2>5. QED
    BY <2>3, <2>4
<1>12. ForkOK'
  <2>1. results[at] # Dropped
    BY <1>7, Distinct
  <2>2. /\ Cardinality(Drops) \in Nat /\ Cardinality(Drops') \in Nat
        /\ Cardinality(Drops) <= Cardinality(Drops')
    BY <1>1, <1>6, <2>1, DropsGrow
  <2>3. forks \in Nat /\ forks <= 1 + Cardinality(Drops) /\ parent' # "fork"
    BY <1>5 DEF BatchInv, BatchTypeOK, ForkOK
  <2>4. QED
    BY <1>2, <2>2, <2>3 DEF ForkOK
<1>13. QED
  BY <1>8, <1>9, <1>10, <1>11, <1>12 DEF BatchInv

\* The case the stream stopped at is dropped, and pays for the child to come.
LEMMA ReapKeeps ==
  ASSUME BatchInv, Reap
  PROVE  BatchInv'
<1>1. /\ Len(batch) \in Nat /\ DOMAIN batch = 1..Len(batch) /\ DOMAIN results = 1..Len(batch)
      /\ at \in 1..(Len(batch) + 1)
      /\ \A k \in DOMAIN batch : batch[k] \in Cases
  BY Shapes DEF BatchInv
<1>2. /\ kind' = kind /\ batch' = batch /\ forks' = forks
      /\ parent = "reap" /\ parent' = "fork" /\ child' = NoChild /\ pipe' = <<>>
  BY DEF Reap
<1>3. DOMAIN results' = 1..Len(batch) /\ at' \in 1..(Len(batch) + 1)
  BY <1>1 DEF Reap
<1>4. \A k \in 1..Len(batch) : k # at => results'[k] = results[k]
  BY <1>1 DEF Reap
<1>5. CASE at \in 1..Len(batch)
  <2>1. results[at] = NotRun
    BY <1>1, <1>5 DEF BatchInv, Aligned
  <2>2. at' = at + 1 /\ results'[at] = Dropped
    BY <1>1, <1>5, <2>1 DEF Reap
  <2>3. kind[batch[at]] \in {"memory", "hangs", "slow"}
    BY <1>1, <1>2, <1>5 DEF BatchInv, ChildOK
  <2>4. Dropped \in Allowed(batch[at])
    BY <1>1, <1>5, <2>3, AllowedVerdicts DEF BatchInv, BatchTypeOK
  <2>5. results' \in [DOMAIN batch -> Verdicts]
    <3>1. Dropped \in Verdicts
      BY DEF Verdicts
    <3>2. results' = [results EXCEPT ![at] = Dropped]
      BY <1>1, <1>5, <2>1 DEF Reap
    <3>3. QED
      BY <3>1, <3>2 DEF BatchInv, BatchTypeOK
  <2>6. Aligned'
    <3>1. SUFFICES ASSUME NEW k \in 1..Len(batch)
                   PROVE  IF k < at' THEN results'[k] \in Allowed(batch[k])
                                     ELSE results'[k] = NotRun
      BY <1>1, <1>2 DEF Aligned, Allowed
    <3>2. IF k < at THEN results[k] \in Allowed(batch[k]) ELSE results[k] = NotRun
      BY <1>1 DEF BatchInv, Aligned
    <3>3. CASE k = at
      BY <1>1, <2>2, <2>4, <3>3
    <3>4. CASE k # at
      BY <1>1, <1>4, <2>2, <3>2, <3>4
    <3>5. QED
      BY <3>3, <3>4
  <2>7. ForkOK'
    <3>1. /\ Cardinality(Drops) \in Nat /\ Cardinality(Drops') \in Nat
          /\ Cardinality(Drops) + 1 <= Cardinality(Drops')
      <4>1. results[at] # Dropped
        BY <2>1, Distinct
      <4>2. QED
        BY <1>1, <1>3, <1>4, <1>5, <2>2, <4>1, DropsGrow
    <3>2. forks \in Nat /\ forks <= 1 + Cardinality(Drops)
      BY DEF BatchInv, BatchTypeOK, ForkOK
    <3>3. QED
      BY <1>2, <3>1, <3>2 DEF ForkOK
  <2>8. QED
    BY <1>1, <1>2, <1>3, <2>5, <2>6, <2>7
       DEF BatchInv, BatchTypeOK, PipeOK, ChildOK, Ended, NoChild
<1>6. CASE at = Len(batch) + 1
  <2>1. at' = at /\ results' = results /\ ~(at <= Len(batch))
    BY <1>1, <1>6 DEF Reap
  <2>2. Aligned'
    BY <1>1, <1>2, <2>1 DEF BatchInv, Aligned, Allowed
  <2>3. ForkOK'
    BY <1>2, <2>1 DEF BatchInv, ForkOK, Drops, Dropped
  <2>4. QED
    BY <1>1, <1>2, <2>1, <2>2, <2>3
       DEF BatchInv, BatchTypeOK, PipeOK, ChildOK, Ended, NoChild
<1>7. QED
  BY <1>1, <1>5, <1>6

\* The child sends the result of the case it is at.
LEMMA SendKeeps ==
  ASSUME BatchInv, Send
  PROVE  BatchInv'
<1> DEFINE Results == [idx : DOMAIN batch, res : Verdicts]
           res == IF kind[batch[child]] = "raises" THEN Raised(batch[child]) ELSE Value(batch[child])
           msg == [idx |-> child, res |-> res]
<1>1. /\ Len(batch) \in Nat /\ DOMAIN batch = 1..Len(batch) /\ DOMAIN results = 1..Len(batch)
      /\ at \in 1..(Len(batch) + 1) /\ Len(pipe) \in Nat /\ DOMAIN pipe = 1..Len(pipe)
      /\ \A k \in DOMAIN batch : batch[k] \in Cases
  BY Shapes DEF BatchInv
<1>2. /\ kind' = kind /\ batch' = batch /\ forks' = forks /\ parent' = parent
      /\ at' = at /\ results' = results
      /\ child \in DOMAIN batch /\ child' = child + 1
      /\ kind[batch[child]] \in {"value", "raises", "slow"}
  BY DEF Send
<1>3. pipe' = Append(pipe, msg)
  BY DEF Send
<1>4. parent \in {"receive", "reap"} /\ child = at + Len(pipe)
  BY <1>1, <1>2 DEF BatchInv, ChildOK, Ended, NoChild
<1>5. res \in Allowed(batch[child]) /\ res \in Verdicts
  <2>1. batch[child] \in Cases /\ kind[batch[child]] \in Kinds
    BY <1>1, <1>2 DEF BatchInv, BatchTypeOK
  <2>2. QED
    BY <1>2, <2>1, AllowedVerdicts
<1> HIDE DEF res
<1>6. msg \in Results /\ msg.idx = child /\ msg.res = res
  BY <1>2, <1>5
<1>7. /\ pipe' \in Seq(Results) /\ Len(pipe') = Len(pipe) + 1 /\ DOMAIN pipe' = 1..(Len(pipe) + 1)
      /\ pipe'[Len(pipe) + 1] = msg /\ \A n \in 1..Len(pipe) : pipe'[n] = pipe[n]
  <2>1. pipe \in Seq(Results)
    BY DEF BatchInv, BatchTypeOK
  <2> HIDE DEF Results, msg
  <2>2. QED
    BY <1>1, <1>3, <1>6, <2>1
<1> HIDE DEF msg
<1>8. PipeOK'
  <2>1. SUFFICES ASSUME NEW n \in 1..(Len(pipe) + 1)
                 PROVE  /\ pipe'[n].idx = at + n - 1
                        /\ pipe'[n].res \in Allowed(batch[pipe'[n].idx])
    BY <1>2, <1>7 DEF PipeOK, Allowed
  <2>2. CASE n = Len(pipe) + 1
    <3>1. pipe'[n].idx = child /\ pipe'[n].res = res
      BY <1>6, <1>7, <2>2
    <3>2. child = at + n - 1
      BY <1>1, <1>4, <2>2
    <3>3. QED
      BY <1>5, <3>1, <3>2
  <2>3. CASE n \in 1..Len(pipe)
    BY <1>1, <1>7, <2>3 DEF BatchInv, PipeOK
  <2>4. QED
    BY <1>1, <2>2, <2>3
<1>9. ChildOK'
  <2>1. child' = at' + Len(pipe')
    BY <1>1, <1>2, <1>4, <1>7
  <2>2. parent' \in {"receive", "reap"}
    BY <1>2, <1>4
  <2>3. /\ parent' = "receive" => at' <= Len(batch')
        /\ parent' = "reap" /\ at' <= Len(batch')
             => kind'[batch'[at']] \in {"memory", "hangs", "slow"}
    BY <1>2 DEF BatchInv, ChildOK
  <2>4. QED
    BY <2>1, <2>2, <2>3 DEF ChildOK
<1>10. Aligned' /\ ForkOK'
  BY <1>2 DEF BatchInv, Aligned, Allowed, ForkOK, Drops, Dropped
<1>11. BatchTypeOK'
  <2>1. child' \in 0..(Len(batch) + 1)
    BY <1>1, <1>2
  <2>2. QED
    BY <1>2, <1>7, <2>1 DEF BatchInv, BatchTypeOK, Ended
<1>12. QED
  BY <1>8, <1>9, <1>10, <1>11 DEF BatchInv

\* A fresh batch has no result, no child and no fork.
LEMMA BeginKeeps ==
  ASSUME BatchInv, NEW cases \in Seq(Cases), Begin(cases)
  PROVE  BatchInv'
<1>1. /\ Len(cases) \in Nat /\ DOMAIN cases = 1..Len(cases)
      /\ \A k \in DOMAIN cases : cases[k] \in Cases
  OBVIOUS
<1>2. /\ kind' = kind /\ batch' = cases /\ at' = 1 /\ forks' = 0 /\ parent' = "fork"
      /\ results' = [k \in DOMAIN cases |-> NotRun]
  BY DEF Begin
<1>3. child' = NoChild /\ pipe' = <<>>
  BY DEF BatchInv, ChildOK, Begin
<1>4. results' \in [DOMAIN batch' -> Verdicts] /\ \A k \in DOMAIN cases : results'[k] = NotRun
  BY <1>2 DEF Verdicts
<1>5. Cardinality(Drops') \in Nat
  <2>1. Drops' \in SUBSET (1..Len(cases))
    BY <1>1, <1>2 DEF Drops
  <2>2. IsFiniteSet(1..Len(cases))
    BY <1>1, FS_Interval
  <2>3. QED
    BY <2>1, <2>2, FS_Subset, FS_CardinalityType
<1>6. BatchTypeOK'
  BY <1>1, <1>2, <1>3, <1>4 DEF BatchInv, BatchTypeOK, Ended, NoChild
<1>7. PipeOK' /\ ChildOK'
  BY <1>2, <1>3 DEF PipeOK, ChildOK
<1>8. Aligned'
  <2>1. \A k \in DOMAIN cases : ~(k < 1)
    BY <1>1
  <2>2. QED
    BY <1>2, <1>4, <2>1 DEF Aligned
<1>9. ForkOK'
  BY <1>2, <1>5 DEF ForkOK
<1>10. QED
  BY <1>6, <1>7, <1>8, <1>9 DEF BatchInv

\* A child starts at the case the parent waits for.
LEMMA ForkKeeps ==
  ASSUME BatchInv, Fork
  PROVE  BatchInv'
<1>1. /\ Len(batch) \in Nat /\ at \in 1..(Len(batch) + 1) /\ at <= Len(batch)
  BY Shapes DEF BatchInv, Fork
<1>2. /\ kind' = kind /\ batch' = batch /\ at' = at /\ results' = results
      /\ parent = "fork" /\ parent' = "receive" /\ child' = at /\ pipe' = <<>>
      /\ forks' = forks + 1
  BY DEF Fork
<1>3. BatchTypeOK'
  BY <1>1, <1>2 DEF BatchInv, BatchTypeOK, Ended
<1>4. PipeOK' /\ Aligned'
  <2>1. PipeOK'
    BY <1>2 DEF PipeOK
  <2>2. Aligned'
    BY <1>2 DEF BatchInv, Aligned, Allowed
  <2>3. QED
    BY <2>1, <2>2
<1>5. ChildOK'
  <2>1. child' = at' + Len(pipe')
    BY <1>1, <1>2
  <2>2. QED
    BY <1>1, <1>2, <2>1 DEF ChildOK
<1>6. ForkOK'
  <2>1. Drops' = Drops /\ Cardinality(Drops) \in Nat
    BY <1>1, <1>2, Shapes, DropsGrow DEF BatchInv, Drops, Dropped
  <2>2. forks \in Nat /\ forks <= Cardinality(Drops)
    BY <1>1, <1>2 DEF BatchInv, BatchTypeOK, ForkOK
  <2>3. QED
    BY <1>2, <2>1, <2>2 DEF ForkOK
<1>7. QED
  BY <1>3, <1>4, <1>5, <1>6 DEF BatchInv

\* A child dies of the case it is at, and of nothing it sent.
LEMMA ChildDiesKeeps ==
  ASSUME BatchInv, ChildDies
  PROVE  BatchInv'
<1>1. Len(batch) \in Nat /\ DOMAIN batch = 1..Len(batch)
  BY Shapes DEF BatchInv
<1>2. /\ kind' = kind /\ batch' = batch /\ at' = at /\ results' = results /\ pipe' = pipe
      /\ forks' = forks /\ parent' = parent /\ child' = Ended
      /\ child \in DOMAIN batch /\ kind[batch[child]] = "memory"
  BY DEF ChildDies
<1>3. parent \in {"receive", "reap"} /\ child = at + Len(pipe)
  BY <1>1, <1>2 DEF BatchInv, ChildOK, Ended, NoChild
<1>4. BatchTypeOK'
  BY <1>1, <1>2 DEF BatchInv, BatchTypeOK, Ended
<1>5. PipeOK' /\ Aligned' /\ ForkOK'
  BY <1>2 DEF BatchInv, PipeOK, Aligned, Allowed, ForkOK, Drops, Dropped
<1>6. ChildOK'
  BY <1>2, <1>3 DEF BatchInv, ChildOK, Ended
<1>7. QED
  BY <1>4, <1>5, <1>6 DEF BatchInv

\* The parent gives a child up only at a case that may be to blame.
LEMMA StopKeeps ==
  ASSUME BatchInv, Stall \/ EndOfStream
  PROVE  BatchInv'
<1>1. /\ Len(batch) \in Nat /\ DOMAIN batch = 1..Len(batch) /\ at \in 1..(Len(batch) + 1)
      /\ Len(pipe) \in Nat
  BY Shapes DEF BatchInv
<1>2. /\ kind' = kind /\ batch' = batch /\ at' = at /\ results' = results /\ pipe' = pipe
      /\ forks' = forks /\ child' = child
      /\ parent = "receive" /\ parent' = "reap" /\ pipe = <<>>
  BY DEF Stall, EndOfStream
<1>3. at + Len(pipe) = at /\ at \in DOMAIN batch
  BY <1>1, <1>2 DEF BatchInv, ChildOK
<1>4. kind[batch[at]] \in {"memory", "hangs", "slow"}
  <2>1. child = at \/ kind[batch[at]] = "memory"
    BY <1>2, <1>3 DEF BatchInv, ChildOK
  <2>2. CASE Stall
    BY <2>1, <2>2 DEF Stall
  <2>3. CASE EndOfStream
    <3>1. child # at
      BY <1>1, <1>3, <2>3 DEF EndOfStream, Ended
    <3>2. QED
      BY <2>1, <3>1
  <2>4. QED
    BY <2>2, <2>3
<1>5. BatchTypeOK'
  BY <1>2 DEF BatchInv, BatchTypeOK, Ended
<1>6. PipeOK' /\ Aligned' /\ ForkOK'
  BY <1>2 DEF BatchInv, PipeOK, Aligned, Allowed, ForkOK, Drops, Dropped
<1>7. ChildOK'
  BY <1>2, <1>4 DEF BatchInv, ChildOK, Ended
<1>8. QED
  BY <1>5, <1>6, <1>7 DEF BatchInv

\* A batch that is through is judged, and the files are written.
LEMMA AfterKeeps ==
  ASSUME BatchInv, UNCHANGED <<kind, batch, at, results, child, pipe, forks>>,
         \/ parent' = parent
         \/ parent = "fork" /\ at > Len(batch) /\ parent' = "judged"
         \/ parent = "judged" /\ parent' \in {"idle", "tests.json"}
         \/ parent = "tests.json" /\ parent' = "written"
         \/ parent = "written" /\ parent' = "excluded.json"
         \/ parent = "excluded.json" /\ parent' = "idle"
  PROVE  BatchInv'
<1>1. Len(batch) \in Nat /\ at \in 1..(Len(batch) + 1)
  BY Shapes DEF BatchInv
<1>2. BatchTypeOK'
  BY DEF BatchInv, BatchTypeOK, Ended
<1>3. PipeOK' /\ Aligned'
  BY DEF BatchInv, PipeOK, Aligned, Allowed
<1>4. ChildOK'
  BY <1>1 DEF BatchInv, ChildOK, Ended
<1>5. ForkOK'
  BY DEF BatchInv, ForkOK, Drops, Dropped
<1>6. QED
  BY <1>2, <1>3, <1>4, <1>5 DEF BatchInv

\* The command forgets the batch it was interrupted in.
LEMMA InterruptKeeps ==
  ASSUME kind \in [Cases -> Kinds], kind' = kind, batch' = <<>>, at' = 1, results' = <<>>,
         child' = NoChild, pipe' = <<>>, forks' = 0, parent' = "idle"
  PROVE  BatchInv'
<1>1. Drops' = {}
  BY DEF Drops
<1>2. Cardinality(Drops') = 0
  BY <1>1, FS_EmptySet
<1>3. QED
  BY <1>2 DEF BatchInv, BatchTypeOK, PipeOK, ChildOK, Aligned, ForkOK, Ended, NoChild

\* Init: no batch yet, all cases in tests.json.
LEMMA InitInv ==
  ASSUME Init
  PROVE  BatchInv /\ PruneInv /\ CutOK
<1>1. BatchInv
  <2>1. Drops = {}
    BY DEF Init, BInit, Drops
  <2>2. Cardinality(Drops) = 0
    BY <2>1, FS_EmptySet
  <2>3. QED
    BY <2>2 DEF Init, BInit, BatchInv, BatchTypeOK, PipeOK, ChildOK, Aligned, ForkOK, Ended, NoChild
<1>2. /\ Cardinality(Cases) \in Nat /\ tests \in [1..Cardinality(Cases) -> Cases]
      /\ Increasing(tests) /\ \A c \in Cases : \E n \in DOMAIN tests : tests[n] = c
  BY CasesAssumption, InOrderLists DEF Init
<1>3. tests \in Seq(Cases) /\ \A c \in Cases : c \in Range(tests)
  BY <1>2, FunctionIsSeq DEF Range
<1>4. excluded = {} /\ reasons = {} /\ passes = 0 /\ parent = "idle" /\ MaxPasses \in Nat
  BY PruneAssumption DEF Init, BInit
<1>5. PruneInv
  BY <1>2, <1>3, <1>4 DEF PruneInv
<1>6. CutOK
  BY DEF Init, BInit, CutOK
<1>7. QED
  BY <1>1, <1>5, <1>6

\* Every step keeps the batch in order.
LEMMA NextBatch ==
  ASSUME BatchInv, PruneInv, [Next]_vars
  PROVE  BatchInv'
<1>1. CASE Read
  <2>1. Without(tests, Unparsable) \in Seq(Cases)
    BY WithoutKeeps DEF PruneInv
  <2>2. QED
    BY <1>1, <2>1, BeginKeeps DEF Read
<1>2. CASE Fork
  BY <1>2, ForkKeeps
<1>3. CASE Receive
  BY <1>3, ReceiveKeeps
<1>4. CASE Stall \/ EndOfStream
  BY <1>4, StopKeeps
<1>5. CASE Reap
  BY <1>5, ReapKeeps
<1>6. CASE Judged
  BY <1>6, AfterKeeps DEF Judged
<1>7. CASE OpenTests \/ WriteTests
  BY <1>7, AfterKeeps DEF OpenTests, WriteTests, Opening, Filled
<1>8. CASE OpenExcluded \/ WriteExcluded
  BY <1>8, AfterKeeps DEF OpenExcluded, WriteExcluded, Opening, Filled
<1>9. CASE Send
  BY <1>9, SendKeeps
<1>10. CASE ChildDies
  BY <1>10, ChildDiesKeeps
<1>11. CASE Interrupt
  BY <1>11, InterruptKeeps DEF Interrupt, BatchInv, BatchTypeOK
<1>12. CASE ReadRaises \/ UNCHANGED vars
  BY <1>12, AfterKeeps DEF ReadRaises, vars, batchVars
<1>13. QED
  BY <1>1, <1>2, <1>3, <1>4, <1>5, <1>6, <1>7, <1>8, <1>9, <1>10, <1>11, <1>12
     DEF Next, Step, Batch, Child

\* A judged batch rejects faulty cases only, and each by its own name.
LEMMA RejectedFaulty ==
  ASSUME BatchInv, parent = "judged"
  PROVE  Rejected \subseteq Cases /\ \A c \in Rejected : Faulty(c)
<1>1. /\ Len(batch) \in Nat /\ DOMAIN batch = 1..Len(batch) /\ DOMAIN results = 1..Len(batch)
      /\ \A k \in DOMAIN batch : batch[k] \in Cases
  BY Shapes DEF BatchInv
<1>2. at = Len(batch) + 1
  BY DEF BatchInv, ChildOK, Ended
<1>3. SUFFICES ASSUME NEW k \in DOMAIN results, ~results[k].ok
               PROVE  batch[k] \in Cases /\ kind[batch[k]] # "value"
  BY DEF Rejected, Faulty
<1>4. results[k] \in Allowed(batch[k])
  BY <1>1, <1>2 DEF BatchInv, Aligned
<1>5. ASSUME kind[batch[k]] = "value" PROVE FALSE
  <2>1. results[k] = Value(batch[k])
    BY <1>4, <1>5 DEF Allowed
  <2>2. Value(batch[k]).ok
    BY DEF Value
  <2>3. QED
    BY <1>3, <2>1, <2>2
<1>6. QED
  BY <1>1, <1>5

\* Every step keeps the contents of the two files in order.
LEMMA NextPrune ==
  ASSUME BatchInv, PruneInv, [Next]_vars
  PROVE  PruneInv'
<1>1. CASE Read
  <2>1. /\ kind' = kind /\ tests' = tests /\ excluded' = excluded /\ parent' = "fork"
        /\ passes' = passes + 1 /\ passes < MaxPasses
        /\ reasons' = {c \in Range(tests) : c \in Unparsable}
    BY <1>1 DEF Read, Begin, files
  <2>2. passes' \in 0..MaxPasses
    BY <2>1, PruneAssumption DEF PruneInv
  <2>3. reasons' \subseteq Cases /\ \A c \in reasons' : c \in Unparsable
    BY <2>1, PruneAssumption
  <2>4. QED
    BY <2>1, <2>2, <2>3 DEF PruneInv, Faulty, Increasing
<1>2. CASE ReadRaises
  <2>1. /\ kind' = kind /\ tests' = tests /\ excluded' = excluded /\ parent' = parent
        /\ passes' = passes + 1 /\ passes < MaxPasses /\ reasons' = reasons
    BY <1>2 DEF ReadRaises, files, batchVars
  <2>2. passes' \in 0..MaxPasses
    BY <2>1, PruneAssumption DEF PruneInv
  <2>3. QED
    BY <2>1, <2>2 DEF PruneInv, Faulty, Increasing
<1>3. CASE OpenTests
  <2> DEFINE all == reasons \cup Rejected
  <2>1. /\ kind' = kind /\ tests' = tests /\ excluded' = excluded /\ passes' = passes
        /\ parent = "judged" /\ parent' \in {"idle", "tests.json"} /\ reasons' = all
    BY <1>3 DEF OpenTests, Opening
  <2>2. all \subseteq Cases /\ \A c \in all : Faulty(c)
    BY <2>1, RejectedFaulty DEF PruneInv
  <2> HIDE DEF all
  <2>3. QED
    BY <2>1, <2>2 DEF PruneInv, Faulty, Increasing
<1>4. CASE WriteTests
  <2>1. /\ kind' = kind /\ excluded' = excluded /\ passes' = passes /\ reasons' = reasons
        /\ tests' = Without(tests, reasons) /\ parent' = "written"
    BY <1>4 DEF WriteTests
  <2>2. /\ tests \in Seq(Cases) /\ Increasing(tests)
        /\ \A c \in Cases \ Unparsable : kind[c] = "value" => c \in Range(tests)
        /\ \A c \in excluded : c \notin Range(tests) /\ Faulty(c)
        /\ \A c \in reasons : Faulty(c)
    BY DEF PruneInv
  <2>3. /\ tests' \in Seq(Cases) /\ Increasing(tests')
        /\ Range(tests') = Range(tests) \ reasons
    BY <2>1, <2>2, WithoutKeeps, CasesAssumption
  <2>4. \A c \in Cases \ Unparsable : kind[c] = "value" => c \notin reasons
    BY <2>2 DEF Faulty
  <2>5. reasons' \cap Range(tests') = {}
    BY <2>1, <2>3
  <2>6. Increasing(tests)'
    BY <2>3 DEF Increasing
  <2>7. QED
    BY <2>1, <2>2, <2>3, <2>4, <2>5, <2>6 DEF PruneInv, Faulty
<1>5. CASE WriteExcluded
  BY <1>5 DEF WriteExcluded, Filled, PruneInv, Faulty, Increasing
<1>6. CASE /\ UNCHANGED <<kind, tests, excluded, reasons, passes>>
           /\ parent' \in {"written", "excluded.json"} => parent \in {"written", "excluded.json"}
  BY <1>6 DEF PruneInv, Faulty, Increasing
<1>7. QED
  BY <1>1, <1>2, <1>3, <1>4, <1>5, <1>6
     DEF Next, Step, Batch, Child, Fork, Receive, Stall, EndOfStream, Reap, Judged, Send,
         ChildDies, OpenExcluded, Opening, Interrupt, files, vars, batchVars

\* No file is cut off but by a kill in its write.
LEMMA NextCut ==
  ASSUME CutOK, [Next]_vars
  PROVE  CutOK'
<1> USE DEF CutOK, Files
<1>1. CASE OpenTests
  BY <1>1 DEF OpenTests, Opening
<1>2. CASE WriteTests
  BY <1>2 DEF WriteTests, Filled
<1>3. CASE OpenExcluded
  BY <1>3 DEF OpenExcluded, Opening
<1>4. CASE WriteExcluded
  BY <1>4 DEF WriteExcluded, Filled
<1>5. CASE Interrupt
  BY <1>5 DEF Interrupt
<1>6. CASE /\ UNCHANGED <<cut, hit>>
           /\ (parent' = parent \/ (parent \notin Files /\ parent' # "written"))
  BY <1>6
<1>7. \A f \in Files : f \notin {"idle", "fork", "receive", "reap"}
  OBVIOUS
<1>8. QED
  BY <1>1, <1>2, <1>3, <1>4, <1>5, <1>6, <1>7
     DEF Next, Step, Read, Begin, ReadRaises, Batch, Child, Fork, Receive, Stall, EndOfStream, Reap,
         Judged, Send, ChildDies, files, vars, batchVars
-----------------------------------------------------------------------------
(* What every behaviour of the command satisfies. *)

LEMMA PruneInvariant == Spec => [](BatchInv /\ PruneInv /\ CutOK)
<1>1. Init => BatchInv /\ PruneInv /\ CutOK
  BY InitInv
<1>2. BatchInv /\ PruneInv /\ CutOK /\ [Next]_vars => (BatchInv /\ PruneInv /\ CutOK)'
  BY NextBatch, NextPrune, NextCut
<1>3. QED
  BY <1>1, <1>2, PTL DEF Spec

\* Every variable stays in its range: the parent never waits for a case behind
\* the end of the batch, and no result is sent for a case that is not in it.
THEOREM TypeCorrect == Spec => []TypeOK
<1>1. BatchInv /\ PruneInv /\ CutOK => TypeOK
  BY DEF BatchInv, PruneInv, CutOK, TypeOK
<1>2. QED
  BY <1>1, PruneInvariant, PTL

\* Whatever the children die of, each case gets a verdict of its own, and a
\* good case never the drop of a neighbour.
THEOREM ResultsAligned == Spec => []Aligned
<1>1. BatchInv => Aligned
  BY DEF BatchInv
<1>2. QED
  BY <1>1, PruneInvariant, PTL

\* A batch of any length costs one child, and one more for each dropped case.
THEOREM ForksPaidFor == Spec => []OneForkPerBomb
<1>1. BatchInv => OneForkPerBomb
  BY DEF BatchInv, ForkOK, Drops, OneForkPerBomb
<1>2. QED
  BY <1>1, PruneInvariant, PTL

\* Pruning never removes a case the reference answers in time, nor reorders
\* the rest, however often the command runs and wherever it is killed, except
\* within the write of tests.json itself, which is truncated first (prune_tests).
THEOREM GoodCasesKept == Spec => []GoodCasesStay
<1>1. PruneInv /\ CutOK => GoodCasesStay
  BY DEF PruneInv, CutOK, GoodCasesStay, Increasing, Faulty
<1>2. QED
  BY <1>1, PruneInvariant, PTL
=============================================================================

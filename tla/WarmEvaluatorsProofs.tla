------------------------ MODULE WarmEvaluatorsProofs ------------------------
(***************************************************************************)
(* Proofs about the interpreted evaluation, for any threads, evaluators,     *)
(* problems and REBOOT_EVERY, whatever the Lean processes do: no answer is   *)
(* taken for another solution's, each problem gets one verdict (the          *)
(* refinement of OneVerdict), no process is overused, no evaluator is lost   *)
(* and the report is complete.                                              *)
(***************************************************************************)
EXTENDS WarmEvaluators, Integers, FiniteSetTheorems, SequenceTheorems, TLAPS

AllPaths == UNION {Paths(p) : p \in Problems}
AnyOutcome == Failures \cup {Answer(x) : x \in Problems \X Nat}
Evaluating == {"boot", "booting", "write", "read"}
Preparing == {"boot", "booting", "write"}

\* No element twice.
Once(q) == \A i, j \in DOMAIN q : q[i] = q[j] => i = j

TypeInv ==
  /\ todo \in Seq(Problems) /\ pool \in Seq(Evaluators)
  /\ pc \in [Threads -> {"idle", "problem"} \cup Evaluating]
  /\ mine \in [Threads -> Evaluators \cup {NoOne}]
  /\ prob \in [Threads -> Problems \cup {NoOne}]
  /\ got \in [Threads -> Seq(AnyOutcome)]
  /\ bootLock \in Threads \cup {NoOne}
  /\ evals \in [Evaluators -> Nat]
  /\ child \in [Evaluators -> [state : {"none", "booting", "ready", "dead"}, served : Nat]]
  /\ inbox \in [Evaluators -> Seq(Problems \X Nat)]
  /\ lines \in [Evaluators -> Seq(AnyOutcome \cup {Eof})]
  /\ main \in {"collect", "close", "divergences", "done", "raised"}
  /\ \A r \in finished : r[1] \in Problems /\ r[2] \in Results(r[1])
  /\ DOMAIN verdict = Problems
  /\ \A p \in Problems : verdict[p] \in Results(p) \cup {Undecided}

\* An evaluator has one holder: the pool or one thread.
HoldersOK ==
  /\ \A t \in Threads : mine[t] = NoOne <=> pc[t] = "idle"
  /\ \A t, u \in Threads : mine[t] # NoOne /\ mine[t] = mine[u] => t = u
  /\ Once(pool) /\ \A t \in Threads : mine[t] \notin Range(pool)
  /\ main = "collect" => \A w \in Evaluators : w \in Range(pool) \/ \E t \in Threads : mine[t] = w

\* A problem is in one place: to be taken, with one thread, finished, decided.
ProblemsOK ==
  /\ \A t \in Threads : prob[t] = NoOne <=> pc[t] = "idle"
  /\ \A t, u \in Threads : prob[t] # NoOne /\ prob[t] = prob[u] => t = u
  /\ Once(todo) /\ \A t \in Threads : prob[t] \notin Range(todo)
  /\ \A p \in Problems : (p \in Range(todo) \/ \E t \in Threads : prob[t] = p)
       => verdict[p] = Undecided /\ \A r \in finished : r[1] # p
  /\ \A r \in finished : verdict[r[1]] = Undecided
  /\ \A r, s \in finished : r[1] = s[1] => r = s
  /\ main # "collect" => \A p \in Problems : verdict[p] # Undecided

\* Outcomes are those of the problem's own solutions, in their order.
OutcomesOK ==
  \A t \in Threads :
    /\ pc[t] = "idle" => got[t] = <<>>
    /\ pc[t] # "idle" =>
         /\ Len(got[t]) <= Solutions[prob[t]]
         /\ \A k \in DOMAIN got[t] : got[t][k] \in Outcomes(<<prob[t], k>>)
    /\ pc[t] \in Evaluating => Len(got[t]) < Solutions[prob[t]]

\* An evaluator that owes no answer has empty pipes; one that is read owes
\* exactly the answer the thread waits for, or has died of it.
Quiet(w) ==
  /\ inbox[w] = <<>>
  /\ lines[w] = IF child[w].state = "dead" THEN <<Eof>> ELSE <<>>

Owes(w, path) ==
  \/ child[w].state = "ready" /\ inbox[w] = <<path>> /\ lines[w] = <<>>
  \/ child[w].state = "dead" /\ inbox[w] = <<path>> /\ lines[w] = <<Eof>>
  \/ child[w].state = "ready" /\ inbox[w] = <<>> /\ lines[w] = <<Answer(path)>>
  \/ child[w].state = "dead" /\ inbox[w] = <<>> /\ lines[w] = <<Answer(path), Eof>>

PipesOK ==
  /\ \A w \in Evaluators : (\A t \in Threads : mine[t] = w => pc[t] # "read") => Quiet(w)
  /\ \A t \in Threads : pc[t] = "read" => Owes(mine[t], Path(t))

\* How many evaluations since the last scheduled reboot, at most.
Used(n) == IF n = 0 THEN 0 ELSE ((n - 1) % RebootEvery) + 1

\* The count runs ahead of the process by the evaluation in preparation.
RebootOK ==
  /\ \A w \in Evaluators :
       /\ child[w].served <= evals[w]
       /\ RebootEvery > 0 => child[w].served <= Used(evals[w])
  /\ \A t \in Threads : pc[t] \in Preparing =>
       /\ child[mine[t]].served < evals[mine[t]]
       /\ RebootEvery > 0 => child[mine[t]].served < Used(evals[mine[t]])

\* The solutions whose evaluation may have begun.
Started ==
  {x \in AllPaths :
     /\ x[1] \notin Range(todo)
     /\ \A t \in Threads : prob[t] = x[1] =>
          x[2] <= IF pc[t] \in Evaluating THEN Len(got[t]) + 1 ELSE Len(got[t])}

Evaluated == {p \in Problems : verdict[p] \notin {Undecided, Exception}}

CountOK ==
  /\ \A w \in Evaluators : evals[w] <= Cardinality(Started)
  /\ solutions = TotalOf(Evaluated)

ReportOK ==
  Written => file.problems = Reported /\ file.solutions = solutions

IInv ==
  TypeInv /\ HoldersOK /\ ProblemsOK /\ OutcomesOK /\ PipesOK /\ RebootOK /\ CountOK /\ ReportOK
-----------------------------------------------------------------------------
(* Sequences and records. *)

LEMMA Pop ==
  ASSUME NEW T, NEW q \in Seq(T), q # <<>>
  PROVE  /\ Len(q) \in Nat /\ Len(q) >= 1 /\ DOMAIN q = 1..Len(q)
         /\ Head(q) = q[1] /\ q[1] \in T
         /\ Tail(q) \in Seq(T) /\ Len(Tail(q)) = Len(q) - 1
         /\ DOMAIN Tail(q) = 1..Len(Tail(q))
         /\ \A n \in 1..Len(Tail(q)) : Tail(q)[n] = q[n + 1]
OBVIOUS

LEMMA Push ==
  ASSUME NEW T, NEW q \in Seq(T), NEW e \in T
  PROVE  /\ Len(q) \in Nat /\ DOMAIN q = 1..Len(q)
         /\ Append(q, e) \in Seq(T) /\ Len(Append(q, e)) = Len(q) + 1
         /\ DOMAIN Append(q, e) = 1..(Len(q) + 1)
         /\ Append(q, e)[Len(q) + 1] = e
         /\ \A n \in 1..Len(q) : Append(q, e)[n] = q[n]
OBVIOUS

\* A queue without duplicates gives up its first element for good.
LEMMA PopOnce ==
  ASSUME NEW T, NEW q \in Seq(T), q # <<>>, Once(q)
  PROVE  /\ Head(q) \in Range(q) /\ Once(Tail(q))
         /\ Range(Tail(q)) = Range(q) \ {Head(q)}
<1>1. /\ Len(q) \in Nat /\ Len(q) >= 1 /\ DOMAIN q = 1..Len(q)
      /\ Head(q) = q[1] /\ Len(Tail(q)) = Len(q) - 1 /\ DOMAIN Tail(q) = 1..Len(Tail(q))
      /\ \A n \in 1..Len(Tail(q)) : Tail(q)[n] = q[n + 1]
  BY Pop
<1>2. \A n \in 1..Len(Tail(q)) : n + 1 \in 1..Len(q)
  BY <1>1
<1>3. Head(q) \in Range(q)
  BY <1>1 DEF Range
<1>4. Once(Tail(q))
  <2>1. SUFFICES ASSUME NEW i \in 1..Len(Tail(q)), NEW j \in 1..Len(Tail(q)),
                        Tail(q)[i] = Tail(q)[j]
                 PROVE  i = j
    BY <1>1 DEF Once
  <2>2. i + 1 \in DOMAIN q /\ j + 1 \in DOMAIN q /\ q[i + 1] = q[j + 1]
    BY <1>1, <1>2, <2>1
  <2>3. i + 1 = j + 1
    BY <2>2 DEF Once
  <2>4. QED
    BY <2>3
<1>5. Range(Tail(q)) \subseteq Range(q) \ {Head(q)}
  <2>1. SUFFICES ASSUME NEW n \in 1..Len(Tail(q))
                 PROVE  Tail(q)[n] \in Range(q) /\ Tail(q)[n] # Head(q)
    BY <1>1 DEF Range
  <2>2. n + 1 \in DOMAIN q /\ 1 \in DOMAIN q /\ n + 1 # 1
    BY <1>1, <1>2
  <2>3. q[n + 1] # q[1]
    BY <2>2 DEF Once
  <2>4. QED
    BY <1>1, <2>2, <2>3 DEF Range
<1>6. Range(q) \ {Head(q)} \subseteq Range(Tail(q))
  <2>1. SUFFICES ASSUME NEW n \in 1..Len(q), q[n] # Head(q)
                 PROVE  q[n] \in Range(Tail(q))
    BY <1>1 DEF Range
  <2>2. n # 1
    BY <1>1, <2>1
  <2>3. n - 1 \in 1..Len(Tail(q)) /\ (n - 1) + 1 = n
    BY <1>1, <2>2
  <2>4. Tail(q)[n - 1] = q[n]
    BY <1>1, <2>3
  <2>5. QED
    BY <1>1, <2>3, <2>4 DEF Range
<1>7. QED
  BY <1>3, <1>4, <1>5, <1>6

\* A queue without duplicates takes one element more.
LEMMA PushOnce ==
  ASSUME NEW T, NEW q \in Seq(T), NEW e \in T, e \notin Range(q), Once(q)
  PROVE  Once(Append(q, e)) /\ Range(Append(q, e)) = Range(q) \cup {e}
<1>1. /\ Len(q) \in Nat /\ DOMAIN q = 1..Len(q)
      /\ DOMAIN Append(q, e) = 1..(Len(q) + 1)
      /\ Append(q, e)[Len(q) + 1] = e
      /\ \A n \in 1..Len(q) : Append(q, e)[n] = q[n]
  BY Push
<1>2. \A n \in 1..(Len(q) + 1) : n = Len(q) + 1 \/ n \in 1..Len(q)
  BY <1>1
<1>3. \A n \in 1..Len(q) : n \in 1..(Len(q) + 1)
  BY <1>1
<1>4. Len(q) + 1 \in 1..(Len(q) + 1)
  BY <1>1
<1>5. \A n \in 1..Len(q) : q[n] # e
  BY <1>1 DEF Range
<1>6. Once(Append(q, e))
  BY <1>1, <1>2, <1>5 DEF Once
<1>7. Range(Append(q, e)) = Range(q) \cup {e}
  <2>1. ASSUME NEW n \in 1..(Len(q) + 1) PROVE Append(q, e)[n] \in Range(q) \cup {e}
    BY <1>1, <1>2 DEF Range
  <2>2. ASSUME NEW n \in 1..Len(q) PROVE q[n] \in Range(Append(q, e))
    BY <1>1, <1>3 DEF Range
  <2>3. e \in Range(Append(q, e))
    BY <1>1, <1>4 DEF Range
  <2>4. QED
    BY <1>1, <2>1, <2>2, <2>3 DEF Range
<1>8. QED
  BY <1>6, <1>7

\* SetToSeq lists a finite set, each element once.
LEMMA SetToSeqLists ==
  ASSUME NEW S, IsFiniteSet(S)
  PROVE  SetToSeq(S) \in Seq(S) /\ Once(SetToSeq(S)) /\ Range(SetToSeq(S)) = S
<1>1. Cardinality(S) \in Nat /\ ExistsBijection(1..Cardinality(S), S)
  BY FS_CardinalityType
<1>2. \E f \in [1..Cardinality(S) -> S] : IsInjective(f)
  BY <1>1 DEF ExistsBijection, Bijection, Injection, IsInjective
<1>3. SetToSeq(S) \in [1..Cardinality(S) -> S] /\ IsInjective(SetToSeq(S))
  BY <1>2 DEF SetToSeq
<1>4. \E n \in Nat : SetToSeq(S) \in [1..n -> S]
  BY <1>1, <1>3
<1>5. SetToSeq(S) \in Seq(S)
  BY ONLY <1>4, SeqDef
<1>6. Once(SetToSeq(S))
  BY <1>3 DEF Once, IsInjective
<1>7. SetToSeq(S) \in Surjection(1..Cardinality(S), S)
  <2>1. SetToSeq(S) \in Injection(1..Cardinality(S), S)
    BY <1>3 DEF Injection
  <2>2. Cardinality(1..Cardinality(S)) = Cardinality(S)
    BY <1>1, FS_Interval
  <2>3. QED
    BY <2>1, <2>2, FS_Injection
<1>8. Range(SetToSeq(S)) = S
  BY <1>3, <1>7 DEF Range, Surjection
<1>9. QED
  BY <1>5, <1>6, <1>8
-----------------------------------------------------------------------------
(* Types. *)

\* A thread that works has an evaluator and a problem.
LEMMA Working ==
  ASSUME IInv, NEW t \in Threads, pc[t] # "idle"
  PROVE  /\ mine[t] \in Evaluators /\ prob[t] \in Problems
         /\ got[t] \in Seq(AnyOutcome) /\ Len(got[t]) \in Nat
         /\ Solutions[prob[t]] \in Nat /\ Len(got[t]) <= Solutions[prob[t]]
         /\ Path(t) = <<prob[t], Len(got[t]) + 1>> /\ Path(t) \in Problems \X Nat
<1>1. mine[t] \in Evaluators /\ prob[t] \in Problems
  BY DEF IInv, TypeInv, HoldersOK, ProblemsOK
<1>2. got[t] \in Seq(AnyOutcome) /\ Len(got[t]) \in Nat
  BY DEF IInv, TypeInv
<1>3. Solutions[prob[t]] \in Nat /\ Len(got[t]) <= Solutions[prob[t]]
  BY <1>1, EvaluatorsAssumption DEF IInv, OutcomesOK
<1>4. Path(t) = <<prob[t], Len(got[t]) + 1>>
  BY DEF Path
<1>5. QED
  BY <1>1, <1>2, <1>3, <1>4

\* What a thread may record.
LEMMA AnyOutcomes ==
  /\ Failed("timeout") \in AnyOutcome /\ Failed("died") \in AnyOutcome
  /\ Failed("boot failed") \in AnyOutcome
  /\ \A x \in Problems \X Nat : Answer(x) \in AnyOutcome
BY DEF AnyOutcome, Failures, Failed

\* A recorded outcome.
LEMMA ReturnsType ==
  ASSUME TypeInv, NEW t \in Threads, NEW o \in AnyOutcome, Returns(t, o)
  PROVE  /\ got' \in [Threads -> Seq(AnyOutcome)]
         /\ pc' \in [Threads -> {"idle", "problem"} \cup Evaluating]
<1>1. got \in [Threads -> Seq(AnyOutcome)] /\ Append(got[t], o) \in Seq(AnyOutcome)
  BY DEF TypeInv
<1>2. got' = [got EXCEPT ![t] = Append(got[t], o)]
  BY DEF Returns
<1>3. pc' \in [Threads -> {"idle", "problem"} \cup Evaluating]
  BY DEF Returns, Goto, TypeInv
<1>4. QED
  BY <1>1, <1>2, <1>3

\* A killed child leaves nothing behind.
LEMMA KillType ==
  ASSUME TypeInv, NEW w \in Evaluators, Kill(w)
  PROVE  /\ child' \in [Evaluators -> [state : {"none", "booting", "ready", "dead"}, served : Nat]]
         /\ inbox' \in [Evaluators -> Seq(Problems \X Nat)]
         /\ lines' \in [Evaluators -> Seq(AnyOutcome \cup {Eof})]
         /\ child'[w] = Gone /\ inbox'[w] = <<>> /\ lines'[w] = <<>>
         /\ \A v \in Evaluators : v # w =>
              child'[v] = child[v] /\ inbox'[v] = inbox[v] /\ lines'[v] = lines[v]
<1>1. Gone \in [state : {"none", "booting", "ready", "dead"}, served : Nat]
  BY DEF Gone
<1>2. child' \in [Evaluators -> [state : {"none", "booting", "ready", "dead"}, served : Nat]]
  BY <1>1 DEF TypeInv, Kill
<1>3. inbox' \in [Evaluators -> Seq(Problems \X Nat)]
  <2>1. <<>> \in Seq(Problems \X Nat)
    OBVIOUS
  <2>2. QED
    BY <2>1 DEF TypeInv, Kill
<1>4. lines' \in [Evaluators -> Seq(AnyOutcome \cup {Eof})]
  <2>1. <<>> \in Seq(AnyOutcome \cup {Eof})
    OBVIOUS
  <2>2. QED
    BY <2>1 DEF TypeInv, Kill
<1>5. /\ child'[w] = Gone /\ inbox'[w] = <<>> /\ lines'[w] = <<>>
      /\ \A v \in Evaluators : v # w =>
           child'[v] = child[v] /\ inbox'[v] = inbox[v] /\ lines'[v] = lines[v]
  BY DEF TypeInv, Kill
<1>6. QED
  BY <1>2, <1>3, <1>4, <1>5

\* The outcomes of a whole problem are one of its results.
LEMMA WholeResult ==
  ASSUME IInv, NEW t \in Threads, pc[t] = "problem", Len(got[t]) = Solutions[prob[t]]
  PROVE  got[t] \in Results(prob[t])
<1>1. prob[t] \in Problems /\ got[t] \in Seq(AnyOutcome) /\ Solutions[prob[t]] \in Nat
  BY Working
<1>2. DOMAIN got[t] = 1..Solutions[prob[t]]
  BY <1>1
<1>3. \A k \in 1..Solutions[prob[t]] :
        got[t][k] \in Outcomes(<<prob[t], k>>) /\ <<prob[t], k>> \in Paths(prob[t])
  BY <1>2 DEF IInv, OutcomesOK, Paths
<1>4. got[t] \in [1..Solutions[prob[t]] -> UNION {Outcomes(x) : x \in Paths(prob[t])}]
  <2>1. \A k \in 1..Solutions[prob[t]] : got[t][k] \in UNION {Outcomes(x) : x \in Paths(prob[t])}
    BY <1>3
  <2>2. QED
    BY <1>1, <1>2, <2>1
<1>5. QED
  BY <1>1, <1>3, <1>4 DEF Results, ResultsOf

LEMMA ExceptionResult ==
  ASSUME NEW p \in Problems
  PROVE  Exception \in Results(p)
BY DEF Results, ResultsOf

\* A problem given back, with one of its results.
LEMMA ReturnType ==
  ASSUME IInv, NEW t \in Threads, pc[t] = "problem", NEW r \in Results(prob[t]), Return(t, r)
  PROVE  TypeInv'
<1>1. mine[t] \in Evaluators /\ prob[t] \in Problems
  BY Working
<1>2. pool' \in Seq(Evaluators)
  BY <1>1 DEF IInv, TypeInv, Return
<1>3. got' \in [Threads -> Seq(AnyOutcome)]
  <2>1. <<>> \in Seq(AnyOutcome)
    OBVIOUS
  <2>2. QED
    BY <2>1 DEF IInv, TypeInv, Return
<1>4. /\ pc' \in [Threads -> {"idle", "problem"} \cup Evaluating]
      /\ mine' \in [Threads -> Evaluators \cup {NoOne}]
      /\ prob' \in [Threads -> Problems \cup {NoOne}]
  BY DEF IInv, TypeInv, Return, Goto
<1>5. \A x \in finished' : x[1] \in Problems /\ x[2] \in Results(x[1])
  <2>1. finished' = finished \cup {<<prob[t], r>>}
    BY DEF Return
  <2>2. <<prob[t], r>>[1] = prob[t] /\ <<prob[t], r>>[2] = r
    OBVIOUS
  <2>3. \A x \in finished : x[1] \in Problems /\ x[2] \in Results(x[1])
    BY DEF IInv, TypeInv
  <2>4. QED
    BY <1>1, <2>1, <2>2, <2>3
<1>6. UNCHANGED <<todo, bootLock, evals, backends, merging>>
  BY DEF Return
<1>7. QED
  BY <1>2, <1>3, <1>4, <1>5, <1>6 DEF IInv, TypeInv, backends, merging

\* The steps of a thread keep every variable in its range.
LEMMA StepType ==
  ASSUME IInv, NEW t \in Threads, Step(t) \/ Raise(t)
  PROVE  TypeInv'
<1> DEFINE w == mine[t]
<1>1. CASE Take(t)
  <2>1. /\ Head(todo) \in Problems /\ todo' \in Seq(Problems)
        /\ Head(pool) \in Evaluators /\ pool' \in Seq(Evaluators)
    BY <1>1, Pop DEF IInv, TypeInv, Take
  <2>2. <<>> \in Seq(AnyOutcome)
    OBVIOUS
  <2>3. /\ pc' \in [Threads -> {"idle", "problem"} \cup Evaluating]
        /\ mine' \in [Threads -> Evaluators \cup {NoOne}]
        /\ prob' \in [Threads -> Problems \cup {NoOne}]
        /\ got' \in [Threads -> Seq(AnyOutcome)]
    BY <1>1, <2>1, <2>2 DEF IInv, TypeInv, Take, Goto
  <2>4. UNCHANGED <<bootLock, evals, backends, finished, merging>>
    BY <1>1 DEF Take
  <2>5. QED
    BY <2>1, <2>3, <2>4 DEF IInv, TypeInv, backends, merging
<1>2. CASE Finish(t)
  BY <1>2, WholeResult, ReturnType DEF Finish
<1>3. CASE Raise(t)
  <2>1. Exception \in Results(prob[t])
    BY <1>3, Working, ExceptionResult DEF Raise
  <2>2. QED
    BY <1>3, <2>1, ReturnType DEF Raise
<1>4. CASE RunStdio(t)
  <2>1. pc[t] # "idle"
    BY <1>4 DEF RunStdio, Pending
  <2>2. PICK o \in {Answer(Path(t)), Failed("timeout"), Failed("died")} : Returns(t, o)
    BY <1>4 DEF RunStdio
  <2>3. o \in AnyOutcome
    BY <2>1, AnyOutcomes, Working
  <2>4. UNCHANGED <<todo, pool, mine, prob, bootLock, evals, backends, finished, merging>>
    BY <1>4 DEF RunStdio
  <2>5. QED
    BY <2>2, <2>3, <2>4, ReturnsType DEF IInv, TypeInv, backends, merging
<1>5. CASE Eval(t)
  <2>1. pc[t] = "problem" /\ w \in Evaluators
    BY <1>5, Working DEF Eval, Pending
  <2>2. /\ child' \in [Evaluators -> [state : {"none", "booting", "ready", "dead"}, served : Nat]]
        /\ inbox' \in [Evaluators -> Seq(Problems \X Nat)]
        /\ lines' \in [Evaluators -> Seq(AnyOutcome \cup {Eof})]
    <3>1. Kill(w) \/ UNCHANGED backends
      BY <1>5 DEF Eval
    <3>2. QED
      BY <2>1, <3>1, KillType DEF IInv, TypeInv, backends
  <2>3. evals' \in [Evaluators -> Nat]
    <3>1. evals' = [evals EXCEPT ![w] = evals[w] + 1]
      BY <1>5 DEF Eval
    <3>2. evals \in [Evaluators -> Nat] /\ evals[w] + 1 \in Nat
      BY <2>1 DEF IInv, TypeInv
    <3>3. QED
      BY <3>1, <3>2
  <2>4. pc' \in [Threads -> {"idle", "problem"} \cup Evaluating]
    <3>1. PICK l \in {"boot", "write"} : pc' = [pc EXCEPT ![t] = l]
      BY <1>5 DEF Eval, Goto
    <3>2. l \in Evaluating
      BY DEF Evaluating
    <3>3. QED
      BY <3>1, <3>2 DEF IInv, TypeInv
  <2>5. UNCHANGED <<todo, pool, mine, prob, got, bootLock, finished, merging>>
    BY <1>5 DEF Eval
  <2>6. QED
    BY <2>2, <2>3, <2>4, <2>5 DEF IInv, TypeInv, merging
<1>6. CASE Boot(t)
  <2>1. w \in Evaluators /\ <<>> \in Seq(Problems \X Nat) /\ <<>> \in Seq(AnyOutcome \cup {Eof})
    BY <1>6, Working DEF Boot
  <2>2. child' \in [Evaluators -> [state : {"none", "booting", "ready", "dead"}, served : Nat]]
    BY <1>6, <2>1 DEF Boot, IInv, TypeInv
  <2>3. /\ inbox' \in [Evaluators -> Seq(Problems \X Nat)]
        /\ lines' \in [Evaluators -> Seq(AnyOutcome \cup {Eof})]
    BY <1>6, <2>1 DEF Boot, IInv, TypeInv
  <2>4. pc' \in [Threads -> {"idle", "problem"} \cup Evaluating] /\ bootLock' \in Threads \cup {NoOne}
    BY <1>6 DEF Boot, Goto, IInv, TypeInv, Evaluating
  <2>5. UNCHANGED <<todo, pool, mine, prob, got, evals, finished, merging>>
    BY <1>6 DEF Boot
  <2>6. QED
    BY <2>2, <2>3, <2>4, <2>5 DEF IInv, TypeInv, merging
<1>7. CASE Booted(t)
  BY <1>7 DEF Booted, Goto, IInv, TypeInv, Evaluating, backends, merging
<1>8. ASSUME NEW why \in {"boot failed", "died", "timeout"}, pc[t] # "idle",
             Kill(w), Returns(t, Failed(why)),
             UNCHANGED <<todo, pool, mine, prob, evals, finished, merging>>,
             bootLock' \in Threads \cup {NoOne}
      PROVE  TypeInv'
  <2>1. w \in Evaluators /\ Failed(why) \in AnyOutcome
    BY <1>8, Working, AnyOutcomes
  <2>2. QED
    BY <1>8, <2>1, ReturnsType, KillType DEF IInv, TypeInv, merging
<1>9. CASE BootFails(t)
  BY <1>8, <1>9 DEF BootFails
<1>10. CASE WriteBroken(t)
  BY <1>8, <1>10 DEF WriteBroken, IInv, TypeInv
<1>11. CASE ReadEof(t)
  BY <1>8, <1>11 DEF ReadEof, IInv, TypeInv
<1>12. CASE Timeout(t)
  BY <1>8, <1>12 DEF Timeout, IInv, TypeInv
<1>13. CASE Write(t)
  <2>1. w \in Evaluators /\ Path(t) \in Problems \X Nat
    BY <1>13, Working DEF Write
  <2>2. inbox' \in [Evaluators -> Seq(Problems \X Nat)]
    <3>1. Append(inbox[w], Path(t)) \in Seq(Problems \X Nat)
      BY <2>1 DEF IInv, TypeInv
    <3>2. QED
      BY <1>13, <2>1, <3>1 DEF Write, IInv, TypeInv
  <2>3. child' \in [Evaluators -> [state : {"none", "booting", "ready", "dead"}, served : Nat]]
    <3>1. child[w] \in [state : {"none", "booting", "ready", "dead"}, served : Nat]
      BY <2>1 DEF IInv, TypeInv
    <3>2. [child[w] EXCEPT !.served = @ + 1]
            \in [state : {"none", "booting", "ready", "dead"}, served : Nat]
      BY <3>1
    <3>3. child' = [child EXCEPT ![w] = [child[w] EXCEPT !.served = @ + 1]]
      BY <1>13 DEF Write
    <3>4. QED
      BY <2>1, <3>2, <3>3 DEF IInv, TypeInv
  <2>4. pc' \in [Threads -> {"idle", "problem"} \cup Evaluating]
    BY <1>13 DEF Write, Goto, IInv, TypeInv, Evaluating
  <2>5. UNCHANGED <<todo, pool, mine, prob, got, bootLock, evals, lines, finished, merging>>
    BY <1>13 DEF Write
  <2>6. QED
    BY <2>2, <2>3, <2>4, <2>5 DEF IInv, TypeInv, merging
<1>14. CASE Read(t)
  <2>1. w \in Evaluators /\ pc[t] = "read"
    BY <1>14, Working DEF Read
  <2>2. lines[w] \in Seq(AnyOutcome \cup {Eof}) /\ lines[w] # <<>>
    BY <1>14, <2>1 DEF Read, IInv, TypeInv
  <2>3. Head(lines[w]) \in AnyOutcome /\ Tail(lines[w]) \in Seq(AnyOutcome \cup {Eof})
    BY <1>14, <2>2, Pop DEF Read
  <2>4. lines' \in [Evaluators -> Seq(AnyOutcome \cup {Eof})]
    BY <1>14, <2>1, <2>3 DEF Read, IInv, TypeInv
  <2>5. Returns(t, Head(lines[w]))
    BY <1>14 DEF Read
  <2>6. UNCHANGED <<todo, pool, mine, prob, bootLock, evals, child, inbox, finished, merging>>
    BY <1>14 DEF Read
  <2>7. QED
    BY <2>3, <2>4, <2>5, <2>6, ReturnsType DEF IInv, TypeInv, merging
<1>15. QED
  BY <1>1, <1>2, <1>3, <1>4, <1>5, <1>6, <1>7, <1>9, <1>10, <1>11, <1>12, <1>13, <1>14 DEF Step

\* So do the Lean processes.
LEMMA ChildType ==
  ASSUME IInv, NEW w \in Evaluators, Ready(w) \/ Serve(w) \/ Die(w)
  PROVE  TypeInv'
<1> DEFINE Child == [state : {"none", "booting", "ready", "dead"}, served : Nat]
<1>1. UNCHANGED <<workers, finished, merging>>
  BY DEF Ready, Serve, Die
<1>2. child' \in [Evaluators -> Child]
  <2>1. child[w] \in Child
    BY DEF IInv, TypeInv
  <2>2. [child[w] EXCEPT !.state = "ready"] \in Child /\ [child[w] EXCEPT !.state = "dead"] \in Child
    BY <2>1
  <2>3. \/ child' = [child EXCEPT ![w] = [child[w] EXCEPT !.state = "ready"]]
        \/ child' = [child EXCEPT ![w] = [child[w] EXCEPT !.state = "dead"]]
        \/ child' = child
    BY DEF Ready, Serve, Die
  <2>4. QED
    BY <2>2, <2>3 DEF IInv, TypeInv
<1>3. /\ inbox' \in [Evaluators -> Seq(Problems \X Nat)]
      /\ lines' \in [Evaluators -> Seq(AnyOutcome \cup {Eof})]
  <2>1. CASE Ready(w)
    BY <2>1 DEF Ready, IInv, TypeInv
  <2>2. CASE Serve(w)
    <3>1. inbox[w] \in Seq(Problems \X Nat) /\ inbox[w] # <<>>
      BY <2>2 DEF Serve, IInv, TypeInv
    <3>2. Head(inbox[w]) \in Problems \X Nat /\ Tail(inbox[w]) \in Seq(Problems \X Nat)
      BY <3>1, Pop
    <3>3. Answer(Head(inbox[w])) \in AnyOutcome \cup {Eof}
      BY <3>2, AnyOutcomes
    <3>4. Append(lines[w], Answer(Head(inbox[w]))) \in Seq(AnyOutcome \cup {Eof})
      BY <3>3 DEF IInv, TypeInv
    <3>5. QED
      BY <2>2, <3>2, <3>4 DEF Serve, IInv, TypeInv
  <2>3. CASE Die(w)
    <3>1. Append(lines[w], Eof) \in Seq(AnyOutcome \cup {Eof})
      BY DEF IInv, TypeInv
    <3>2. QED
      BY <2>3, <3>1 DEF Die, IInv, TypeInv
  <2>4. QED
    BY <2>1, <2>2, <2>3
<1>4. QED
  BY <1>1, <1>2, <1>3 DEF IInv, TypeInv, workers, merging

\* And the main thread.
LEMMA MainType ==
  ASSUME IInv, Main
  PROVE  TypeInv'
<1>1. ASSUME NEW r \in finished, Merge(r[1], r[2]) PROVE TypeInv'
  <2>1. r[1] \in Problems /\ r[2] \in Results(r[1])
    BY DEF IInv, TypeInv
  <2>2. /\ finished' \subseteq finished /\ verdict' = [verdict EXCEPT ![r[1]] = r[2]]
        /\ UNCHANGED <<workers, backends, main>>
    BY <1>1 DEF Merge
  <2>3. DOMAIN verdict' = Problems /\ \A p \in Problems : verdict'[p] \in Results(p) \cup {Undecided}
    BY <2>1, <2>2 DEF IInv, TypeInv
  <2>4. QED
    BY <2>2, <2>3 DEF IInv, TypeInv, workers, backends
<1>2. CASE Collected
  BY <1>2 DEF Collected, IInv, TypeInv, workers, backends
<1>3. CASE Close
  <2>1. Head(pool) \in Evaluators /\ pool' \in Seq(Evaluators)
    BY <1>3, Pop DEF Close, IInv, TypeInv
  <2>2. QED
    BY <1>3, <2>1, KillType DEF Close, IInv, TypeInv, merging
<1>4. CASE WriteReport \/ WriteDivergences
  BY <1>4 DEF WriteReport, WriteDivergences, IInv, TypeInv, workers, backends
<1>5. QED
  BY <1>1, <1>2, <1>3, <1>4 DEF Main

\* Every step does.
LEMMA NextType ==
  ASSUME IInv, [Next]_vars
  PROVE  TypeInv'
<1>1. ASSUME UNCHANGED vars PROVE TypeInv'
  BY <1>1 DEF IInv, TypeInv, vars, workers, backends, merging
<1>2. QED
  BY <1>1, StepType, ChildType, MainType DEF Next
-----------------------------------------------------------------------------
(* Who holds what. *)

\* The steps between taking a problem and giving it back.
Inner(t) ==
  \/ RunStdio(t) \/ Eval(t) \/ Boot(t) \/ Booted(t) \/ BootFails(t)
  \/ Write(t) \/ WriteBroken(t) \/ Read(t) \/ ReadEof(t) \/ Timeout(t)

LEMMA InnerStep ==
  ASSUME IInv, NEW t \in Threads, Inner(t)
  PROVE  /\ UNCHANGED <<todo, pool, mine, prob, finished, merging>>
         /\ pc[t] # "idle" /\ pc' = [pc EXCEPT ![t] = pc'[t]]
         /\ pc'[t] \in {"problem"} \cup Evaluating
         /\ \A u \in Threads : pc'[u] = "idle" <=> pc[u] = "idle"
<1>1. UNCHANGED <<todo, pool, mine, prob, finished, merging>>
  BY DEF Inner, RunStdio, Eval, Boot, Booted, BootFails, Write, WriteBroken, Read, ReadEof, Timeout
<1>2. pc[t] # "idle"
  BY DEF Inner, RunStdio, Eval, Boot, Booted, BootFails, Write, WriteBroken, Read, ReadEof,
         Timeout, Pending
<1>3. \E l \in {"problem"} \cup Evaluating : pc' = [pc EXCEPT ![t] = l]
  BY DEF Inner, RunStdio, Eval, Boot, Booted, BootFails, Write, WriteBroken, Read, ReadEof,
         Timeout, Returns, Goto, Evaluating
<1>4. PICK l \in {"problem"} \cup Evaluating : pc' = [pc EXCEPT ![t] = l]
  BY <1>3
<1>5. l # "idle"
  BY DEF Evaluating
<1>6. pc \in [Threads -> {"idle", "problem"} \cup Evaluating]
  BY DEF IInv, TypeInv
<1>7. pc'[t] = l
  BY <1>4, <1>6
<1>8. QED
  BY <1>1, <1>2, <1>4, <1>5, <1>6, <1>7

\* The states between which nothing changes hands.
LEMMA SameHolders ==
  ASSUME IInv,
         todo' = todo, pool' = pool, mine' = mine, prob' = prob,
         finished' = finished, verdict' = verdict,
         \A u \in Threads : (pc'[u] = "idle") <=> (pc[u] = "idle"),
         \/ main' = main
         \/ main' # "collect" /\ \A p \in Problems : verdict[p] # Undecided
  PROVE  HoldersOK' /\ ProblemsOK'
<1>1. HoldersOK'
  BY DEF IInv, HoldersOK, Once, Range
<1>2. ProblemsOK'
  BY DEF IInv, ProblemsOK, Once, Range, Undecided
<1>3. QED
  BY <1>1, <1>2

\* A thread takes the first problem and the first evaluator.
LEMMA TakeHolders ==
  ASSUME IInv, NEW t \in Threads, Take(t)
  PROVE  HoldersOK' /\ ProblemsOK'
<1> DEFINE w == Head(pool)
           p == Head(todo)
<1>1. /\ pool \in Seq(Evaluators) /\ pool # <<>> /\ todo \in Seq(Problems) /\ todo # <<>>
      /\ Once(pool) /\ Once(todo)
  BY DEF IInv, TypeInv, HoldersOK, ProblemsOK, Take
<1>2. /\ w \in Evaluators /\ w \in Range(pool) /\ pool' = Tail(pool) /\ Once(pool')
      /\ Range(pool') = Range(pool) \ {w}
  BY <1>1, Pop, PopOnce DEF Take
<1>3. /\ p \in Problems /\ p \in Range(todo) /\ todo' = Tail(todo) /\ Once(todo')
      /\ Range(todo') = Range(todo) \ {p}
  BY <1>1, Pop, PopOnce DEF Take
<1>4. w # NoOne /\ p # NoOne
  BY <1>2, <1>3, EvaluatorsAssumption
<1>5. /\ mine' = [mine EXCEPT ![t] = w] /\ prob' = [prob EXCEPT ![t] = p]
      /\ pc' = [pc EXCEPT ![t] = "problem"] /\ pc[t] = "idle"
      /\ UNCHANGED <<finished, main, verdict>>
  BY DEF Take, Goto, merging
<1>6. /\ mine'[t] = w /\ prob'[t] = p /\ pc'[t] = "problem"
      /\ \A u \in Threads : u # t => mine'[u] = mine[u] /\ prob'[u] = prob[u] /\ pc'[u] = pc[u]
  BY <1>5 DEF IInv, TypeInv
<1>7. \A u \in Threads : mine[u] # w /\ prob[u] # p
  BY <1>2, <1>3 DEF IInv, HoldersOK, ProblemsOK
<1> HIDE DEF w, p
<1>8. HoldersOK'
  <2>1. \A u \in Threads : mine'[u] = NoOne <=> pc'[u] = "idle"
    BY <1>4, <1>6 DEF IInv, HoldersOK
  <2>2. \A u, v \in Threads : mine'[u] # NoOne /\ mine'[u] = mine'[v] => u = v
    BY <1>6, <1>7 DEF IInv, HoldersOK
  <2>3. \A u \in Threads : mine'[u] \notin Range(pool')
    BY <1>2, <1>6 DEF IInv, HoldersOK
  <2>4. main' = "collect" =>
          \A v \in Evaluators : v \in Range(pool') \/ \E u \in Threads : mine'[u] = v
    <3>1. SUFFICES ASSUME main = "collect", NEW v \in Evaluators, v \notin Range(pool')
                   PROVE  \E u \in Threads : mine'[u] = v
      BY <1>5
    <3>2. CASE v = w
      BY <1>6, <3>2
    <3>3. CASE v # w
      <4>1. PICK u \in Threads : mine[u] = v
        BY <1>2, <3>1, <3>3 DEF IInv, HoldersOK
      <4>2. u # t
        BY <1>5, <4>1, EvaluatorsAssumption DEF IInv, HoldersOK
      <4>3. QED
        BY <1>6, <4>1, <4>2
    <3>4. QED
      BY <3>2, <3>3
  <2>5. QED
    BY <1>2, <2>1, <2>2, <2>3, <2>4 DEF HoldersOK
<1>9. ProblemsOK'
  <2>1. \A u \in Threads : prob'[u] = NoOne <=> pc'[u] = "idle"
    BY <1>4, <1>6 DEF IInv, ProblemsOK
  <2>2. \A u, v \in Threads : prob'[u] # NoOne /\ prob'[u] = prob'[v] => u = v
    BY <1>6, <1>7 DEF IInv, ProblemsOK
  <2>3. \A u \in Threads : prob'[u] \notin Range(todo')
    BY <1>3, <1>6 DEF IInv, ProblemsOK
  <2>4. \A q \in Problems : (q \in Range(todo') \/ \E u \in Threads : prob'[u] = q)
          => verdict'[q] = Undecided /\ \A r \in finished' : r[1] # q
    <3>1. SUFFICES ASSUME NEW q \in Problems, q \in Range(todo') \/ \E u \in Threads : prob'[u] = q
                   PROVE  q \in Range(todo) \/ \E u \in Threads : prob[u] = q
      BY <1>5 DEF IInv, ProblemsOK
    <3>2. QED
      BY <1>3, <1>6, <3>1
  <2>5. main' # "collect" => \A q \in Problems : verdict'[q] # Undecided
    BY <1>5 DEF IInv, ProblemsOK
  <2>6. QED
    BY <1>3, <1>5, <2>1, <2>2, <2>3, <2>4, <2>5 DEF IInv, ProblemsOK
<1>10. QED
  BY <1>8, <1>9

\* A thread gives both back.
LEMMA ReturnHolders ==
  ASSUME IInv, NEW t \in Threads, pc[t] = "problem", NEW x \in Results(prob[t]), Return(t, x)
  PROVE  HoldersOK' /\ ProblemsOK'
<1> DEFINE w == mine[t]
           p == prob[t]
<1>1. w \in Evaluators /\ p \in Problems
  BY Working
<1>2. w \notin Range(pool) /\ p \notin Range(todo) /\ pool \in Seq(Evaluators) /\ Once(pool)
  BY DEF IInv, TypeInv, HoldersOK, ProblemsOK
<1>3. pool' = Append(pool, w) /\ Once(pool') /\ Range(pool') = Range(pool) \cup {w}
  BY <1>1, <1>2, PushOnce DEF Return
<1>4. w # NoOne /\ p # NoOne
  BY <1>1, EvaluatorsAssumption
<1>5. /\ mine' = [mine EXCEPT ![t] = NoOne] /\ prob' = [prob EXCEPT ![t] = NoOne]
      /\ pc' = [pc EXCEPT ![t] = "idle"]
      /\ finished' = finished \cup {<<p, x>>}
      /\ UNCHANGED <<todo, main, verdict>>
  BY DEF Return, Goto, merging
<1>6. /\ mine'[t] = NoOne /\ prob'[t] = NoOne /\ pc'[t] = "idle"
      /\ \A u \in Threads : u # t => mine'[u] = mine[u] /\ prob'[u] = prob[u] /\ pc'[u] = pc[u]
  BY <1>5 DEF IInv, TypeInv
<1>7. \A u \in Threads : u # t => mine[u] # w /\ prob[u] # p
  BY <1>4 DEF IInv, HoldersOK, ProblemsOK
<1>8. verdict[p] = Undecided /\ \A r \in finished : r[1] # p
  BY <1>1 DEF IInv, ProblemsOK
<1>9. <<p, x>>[1] = p
  OBVIOUS
<1> HIDE DEF w, p
<1>10. HoldersOK'
  <2>1. \A u \in Threads : mine'[u] = NoOne <=> pc'[u] = "idle"
    BY <1>6 DEF IInv, HoldersOK
  <2>2. \A u, v \in Threads : mine'[u] # NoOne /\ mine'[u] = mine'[v] => u = v
    BY <1>6 DEF IInv, HoldersOK
  <2>3. \A u \in Threads : mine'[u] \notin Range(pool')
    <3>1. NoOne \notin Range(pool')
      BY <1>1, <1>2, <1>3, EvaluatorsAssumption DEF Range
    <3>2. QED
      BY <1>3, <1>6, <1>7, <3>1 DEF IInv, HoldersOK
  <2>4. main' = "collect" =>
          \A v \in Evaluators : v \in Range(pool') \/ \E u \in Threads : mine'[u] = v
    <3>1. SUFFICES ASSUME main = "collect", NEW v \in Evaluators, v \notin Range(pool')
                   PROVE  \E u \in Threads : mine'[u] = v
      BY <1>5
    <3>2. PICK u \in Threads : mine[u] = v
      BY <1>3, <3>1 DEF IInv, HoldersOK
    <3>3. u # t
      BY <1>3, <3>1, <3>2 DEF w
    <3>4. QED
      BY <1>6, <3>2, <3>3
  <2>5. QED
    BY <1>3, <2>1, <2>2, <2>3, <2>4 DEF HoldersOK
<1>11. ProblemsOK'
  <2>1. \A u \in Threads : prob'[u] = NoOne <=> pc'[u] = "idle"
    BY <1>6 DEF IInv, ProblemsOK
  <2>2. \A u, v \in Threads : prob'[u] # NoOne /\ prob'[u] = prob'[v] => u = v
    BY <1>6 DEF IInv, ProblemsOK
  <2>3. \A u \in Threads : prob'[u] \notin Range(todo')
    <3>1. NoOne \notin Range(todo)
      BY EvaluatorsAssumption DEF IInv, TypeInv, Range
    <3>2. QED
      BY <1>5, <1>6, <3>1 DEF IInv, ProblemsOK
  <2>4. \A q \in Problems : (q \in Range(todo') \/ \E u \in Threads : prob'[u] = q)
          => verdict'[q] = Undecided /\ \A r \in finished' : r[1] # q
    <3>1. SUFFICES ASSUME NEW q \in Problems, q \in Range(todo') \/ \E u \in Threads : prob'[u] = q
                   PROVE  q # p /\ (q \in Range(todo) \/ \E u \in Threads : prob[u] = q)
      BY <1>5, <1>9 DEF IInv, ProblemsOK
    <3>2. CASE q \in Range(todo')
      BY <1>2, <1>5, <3>2 DEF p
    <3>3. CASE \E u \in Threads : prob'[u] = q
      <4>1. PICK u \in Threads : prob'[u] = q
        BY <3>3
      <4>2. u # t
        BY <1>6, <4>1, EvaluatorsAssumption
      <4>3. QED
        BY <1>6, <1>7, <4>1, <4>2
    <3>4. QED
      BY <3>1, <3>2, <3>3
  <2>5. \A r \in finished' : verdict'[r[1]] = Undecided
    BY <1>5, <1>8, <1>9 DEF IInv, ProblemsOK
  <2>6. \A r, s \in finished' : r[1] = s[1] => r = s
    BY <1>5, <1>8, <1>9 DEF IInv, ProblemsOK
  <2>7. main' # "collect" => \A q \in Problems : verdict'[q] # Undecided
    BY <1>5 DEF IInv, ProblemsOK
  <2>8. QED
    BY <1>5, <2>1, <2>2, <2>3, <2>4, <2>5, <2>6, <2>7 DEF IInv, ProblemsOK
<1>12. QED
  BY <1>10, <1>11

\* The main thread decides a problem once, and closes evaluators nobody holds.
LEMMA MainHolders ==
  ASSUME IInv, Main
  PROVE  HoldersOK' /\ ProblemsOK'
<1>1. ASSUME NEW r \in finished, Merge(r[1], r[2]) PROVE HoldersOK' /\ ProblemsOK'
  <2> DEFINE p == r[1]
  <2>1. p \in Problems /\ verdict[p] = Undecided /\ DOMAIN verdict = Problems
    BY DEF IInv, TypeInv, ProblemsOK
  <2>2. /\ main = "collect" /\ verdict' = [verdict EXCEPT ![p] = r[2]]
        /\ finished' = finished \ {<<r[1], r[2]>>} /\ <<r[1], r[2]>> \in finished
        /\ UNCHANGED <<workers, backends, main>>
    BY <1>1 DEF Merge
  <2>3. <<r[1], r[2]>>[1] = p
    OBVIOUS
  <2>4. r = <<r[1], r[2]>>
    BY <2>2, <2>3 DEF IInv, ProblemsOK
  <2>5. \A s \in finished' : s \in finished /\ s[1] # p
    BY <2>2, <2>4 DEF IInv, ProblemsOK
  <2>6. \A q \in Problems : q # p => verdict'[q] = verdict[q]
    BY <2>1, <2>2
  <2>7. p \notin Range(todo) /\ \A t \in Threads : prob[t] # p
    BY <2>1 DEF IInv, ProblemsOK
  <2> HIDE DEF p
  <2>8. HoldersOK'
    BY <2>2 DEF IInv, HoldersOK, workers, Once, Range
  <2>9. ProblemsOK'
    <3>1. \A q \in Problems : (q \in Range(todo') \/ \E t \in Threads : prob'[t] = q)
            => verdict'[q] = Undecided /\ \A s \in finished' : s[1] # q
      <4>1. SUFFICES ASSUME NEW q \in Problems, q \in Range(todo) \/ \E t \in Threads : prob[t] = q
                     PROVE  verdict'[q] = Undecided /\ \A s \in finished' : s[1] # q
        BY <2>2 DEF workers, Range
      <4>2. q # p /\ verdict[q] = Undecided
        BY <2>7, <4>1 DEF IInv, ProblemsOK
      <4>3. QED
        BY <2>5, <2>6, <4>1, <4>2 DEF IInv, ProblemsOK
    <3>2. \A s \in finished' : verdict'[s[1]] = Undecided
      BY <2>5, <2>6 DEF IInv, TypeInv, ProblemsOK
    <3>3. \A s, u \in finished' : s[1] = u[1] => s = u
      BY <2>5 DEF IInv, ProblemsOK
    <3>4. UNCHANGED <<pc, prob, todo>> /\ main' = "collect"
      BY <2>2 DEF workers
    <3>5. QED
      BY <3>1, <3>2, <3>3, <3>4 DEF IInv, ProblemsOK, Once, Range
  <2>10. QED
    BY <2>8, <2>9
<1>2. CASE Collected \/ WriteReport \/ WriteDivergences
  <2>1. /\ UNCHANGED <<workers, finished, verdict>> /\ main' # "collect"
        /\ \A p \in Problems : verdict[p] # Undecided
    BY <1>2 DEF Collected, WriteReport, WriteDivergences, IInv, ProblemsOK
  <2>2. QED
    BY <2>1, SameHolders DEF workers
<1>3. CASE Close
  <2>1. /\ pool' = Tail(pool) /\ pool # <<>> /\ main = "close" /\ pool \in Seq(Evaluators)
        /\ UNCHANGED <<todo, pc, mine, prob, finished, merging>>
    BY <1>3 DEF Close, IInv, TypeInv
  <2>2. Once(pool') /\ Range(pool') = Range(pool) \ {Head(pool)}
    BY <2>1, PopOnce DEF IInv, HoldersOK
  <2>3. HoldersOK'
    BY <2>1, <2>2 DEF IInv, HoldersOK, merging
  <2>4. ProblemsOK'
    BY <2>1 DEF IInv, ProblemsOK, merging, Once, Range
  <2>5. QED
    BY <2>3, <2>4
<1>4. QED
  BY <1>1, <1>2, <1>3 DEF Main

LEMMA NextHolders ==
  ASSUME IInv, [Next]_vars
  PROVE  HoldersOK' /\ ProblemsOK'
<1>1. ASSUME NEW t \in Threads, Take(t) PROVE HoldersOK' /\ ProblemsOK'
  BY <1>1, TakeHolders
<1>2. ASSUME NEW t \in Threads, Finish(t) \/ Raise(t) PROVE HoldersOK' /\ ProblemsOK'
  <2>1. pc[t] = "problem" /\ prob[t] \in Problems
    BY <1>2, Working DEF Finish, Raise
  <2>2. PICK x \in Results(prob[t]) : Return(t, x)
    BY <1>2, <2>1, WholeResult, ExceptionResult DEF Finish, Raise
  <2>3. QED
    BY <2>1, <2>2, ReturnHolders
<1>3. ASSUME NEW t \in Threads, Inner(t) PROVE HoldersOK' /\ ProblemsOK'
  <2>1. /\ UNCHANGED <<todo, pool, mine, prob, finished, verdict>> /\ main' = main
        /\ \A u \in Threads : pc'[u] = "idle" <=> pc[u] = "idle"
    BY <1>3, InnerStep DEF merging
  <2>2. QED
    BY <2>1, SameHolders
<1>4. ASSUME NEW w \in Evaluators, Ready(w) \/ Serve(w) \/ Die(w) PROVE HoldersOK' /\ ProblemsOK'
  <2>1. UNCHANGED <<todo, pool, pc, mine, prob, finished, verdict>> /\ main' = main
    BY <1>4 DEF Ready, Serve, Die, workers, merging
  <2>2. QED
    BY <2>1, SameHolders
<1>5. CASE Main
  BY <1>5, MainHolders
<1>6. CASE UNCHANGED vars
  <2>1. UNCHANGED <<todo, pool, pc, mine, prob, finished, verdict>> /\ main' = main
    BY <1>6 DEF vars, workers, merging
  <2>2. QED
    BY <2>1, SameHolders
<1>7. QED
  BY <1>1, <1>2, <1>3, <1>4, <1>5, <1>6 DEF Next, Step, Inner
-----------------------------------------------------------------------------
(* Outcomes. *)

\* What a thread may record is an outcome of the solution it is at.
LEMMA ReturnsOutcome ==
  ASSUME IInv, NEW t \in Threads, pc[t] # "idle", Len(got[t]) < Solutions[prob[t]],
         NEW o \in Outcomes(Path(t)), Returns(t, o), prob' = prob
  PROVE  OutcomesOK'
<1>1. /\ prob[t] \in Problems /\ got[t] \in Seq(AnyOutcome) /\ Len(got[t]) \in Nat
      /\ Solutions[prob[t]] \in Nat /\ Path(t) = <<prob[t], Len(got[t]) + 1>>
      /\ Path(t) \in Problems \X Nat
  BY Working
<1>2. o \in AnyOutcome
  BY <1>1, AnyOutcomes DEF Outcomes, AnyOutcome
<1>3. /\ got' = [got EXCEPT ![t] = Append(got[t], o)] /\ pc' = [pc EXCEPT ![t] = "problem"]
  BY DEF Returns, Goto
<1>4. /\ got'[t] = Append(got[t], o) /\ pc'[t] = "problem"
      /\ \A u \in Threads : u # t => got'[u] = got[u] /\ pc'[u] = pc[u]
  BY <1>3 DEF IInv, TypeInv
<1>5. /\ Len(got'[t]) = Len(got[t]) + 1 /\ DOMAIN got'[t] = 1..(Len(got[t]) + 1)
      /\ got'[t][Len(got[t]) + 1] = o
      /\ DOMAIN got[t] = 1..Len(got[t]) /\ \A k \in 1..Len(got[t]) : got'[t][k] = got[t][k]
  BY <1>1, <1>2, <1>4, Push
<1>6. Len(got'[t]) <= Solutions[prob[t]]
  BY <1>1, <1>5
<1>7. \A k \in DOMAIN got'[t] : got'[t][k] \in Outcomes(<<prob[t], k>>)
  <2>1. \A k \in 1..(Len(got[t]) + 1) : k = Len(got[t]) + 1 \/ k \in 1..Len(got[t])
    BY <1>1
  <2>2. \A k \in 1..Len(got[t]) : got[t][k] \in Outcomes(<<prob[t], k>>)
    BY <1>5 DEF IInv, OutcomesOK
  <2>3. QED
    BY <1>1, <1>5, <2>1, <2>2
<1>8. "problem" \notin Evaluating
  BY DEF Evaluating
<1>9. QED
  BY <1>4, <1>6, <1>7, <1>8 DEF IInv, OutcomesOK

\* An outcome is a failure or the answer read, and that is the one owed.
LEMMA OwedAnswer ==
  ASSUME IInv, NEW t \in Threads, Read(t)
  PROVE  Head(lines[mine[t]]) = Answer(Path(t))
<1>1. /\ pc[t] = "read" /\ lines[mine[t]] # <<>> /\ Head(lines[mine[t]]) # Eof
  BY DEF Read
<1>2. Owes(mine[t], Path(t))
  BY <1>1 DEF IInv, PipesOK
<1>3. /\ Head(<<Eof>>) = Eof /\ Head(<<Answer(Path(t))>>) = Answer(Path(t))
      /\ Head(<<Answer(Path(t)), Eof>>) = Answer(Path(t))
  OBVIOUS
<1>4. QED
  BY <1>1, <1>2, <1>3 DEF Owes

LEMMA NextOutcomes ==
  ASSUME IInv, [Next]_vars
  PROVE  OutcomesOK'
<1>1. ASSUME UNCHANGED <<pc, prob, got>> PROVE OutcomesOK'
  BY <1>1 DEF IInv, OutcomesOK
<1>2. ASSUME NEW t \in Threads, Take(t) PROVE OutcomesOK'
  <2>1. /\ pc' = [pc EXCEPT ![t] = "problem"] /\ prob' = [prob EXCEPT ![t] = Head(todo)]
        /\ got' = [got EXCEPT ![t] = <<>>]
    BY <1>2 DEF Take, Goto
  <2>2. /\ pc'[t] = "problem" /\ prob'[t] = Head(todo) /\ got'[t] = <<>>
        /\ \A u \in Threads : u # t => pc'[u] = pc[u] /\ prob'[u] = prob[u] /\ got'[u] = got[u]
    BY <2>1 DEF IInv, TypeInv
  <2>3. prob'[t] \in Problems
    BY <1>2, <2>2, Pop DEF Take, IInv, TypeInv
  <2>4. Solutions[prob'[t]] \in Nat /\ Len(<<>>) = 0
    BY <2>3, EvaluatorsAssumption
  <2>5. "problem" \notin Evaluating /\ \A k \in DOMAIN <<>> : FALSE
    BY DEF Evaluating
  <2>6. QED
    BY <2>2, <2>4, <2>5 DEF IInv, OutcomesOK
<1>3. ASSUME NEW t \in Threads, Finish(t) \/ Raise(t) PROVE OutcomesOK'
  <2>1. /\ pc' = [pc EXCEPT ![t] = "idle"] /\ prob' = [prob EXCEPT ![t] = NoOne]
        /\ got' = [got EXCEPT ![t] = <<>>]
    BY <1>3 DEF Finish, Raise, Return, Goto
  <2>2. /\ pc'[t] = "idle" /\ got'[t] = <<>>
        /\ \A u \in Threads : u # t => pc'[u] = pc[u] /\ prob'[u] = prob[u] /\ got'[u] = got[u]
    BY <2>1 DEF IInv, TypeInv
  <2>3. "idle" \notin Evaluating
    BY DEF Evaluating
  <2>4. QED
    BY <2>2, <2>3 DEF IInv, OutcomesOK
<1>4. ASSUME NEW t \in Threads, Eval(t) \/ Boot(t) \/ Booted(t) \/ Write(t) PROVE OutcomesOK'
  <2>1. UNCHANGED <<prob, got>> /\ pc[t] # "idle"
    BY <1>4 DEF Eval, Boot, Booted, Write, Pending
  <2>2. Len(got[t]) < Solutions[prob[t]]
    BY <1>4 DEF Eval, Boot, Booted, Write, Pending, IInv, OutcomesOK, Evaluating
  <2>3. /\ pc'[t] # "idle"
        /\ \A u \in Threads : u # t => pc'[u] = pc[u]
    BY <1>4 DEF Eval, Boot, Booted, Write, Goto, IInv, TypeInv
  <2>4. QED
    BY <2>1, <2>2, <2>3 DEF IInv, OutcomesOK
<1>5. ASSUME NEW t \in Threads, RunStdio(t) PROVE OutcomesOK'
  <2>1. PICK o \in {Answer(Path(t)), Failed("timeout"), Failed("died")} : Returns(t, o)
    BY <1>5 DEF RunStdio
  <2>2. o \in Outcomes(Path(t))
    <3>1. \A why \in {"died", "timeout"} : Failed(why) \in Outcomes(Path(t))
      BY DEF Outcomes, Failures, Failed
    <3>2. Answer(Path(t)) \in Outcomes(Path(t))
      BY DEF Outcomes
    <3>3. QED
      BY <3>1, <3>2
  <2>3. pc[t] # "idle" /\ Len(got[t]) < Solutions[prob[t]] /\ prob' = prob
    BY <1>5 DEF RunStdio, Pending
  <2>4. QED
    BY <2>1, <2>2, <2>3, ReturnsOutcome
<1>6. ASSUME NEW t \in Threads, BootFails(t) \/ WriteBroken(t) \/ ReadEof(t) \/ Timeout(t) \/ Read(t)
      PROVE  OutcomesOK'
  <2>1. pc[t] # "idle" /\ prob' = prob
    BY <1>6 DEF BootFails, WriteBroken, ReadEof, Timeout, Read
  <2>2. Len(got[t]) < Solutions[prob[t]]
    BY <1>6 DEF BootFails, WriteBroken, ReadEof, Timeout, Read, IInv, OutcomesOK, Evaluating
  <2>3. PICK o : Returns(t, o) /\ o \in Outcomes(Path(t))
    <3>1. CASE BootFails(t) \/ WriteBroken(t) \/ ReadEof(t) \/ Timeout(t)
      <4>1. \A why \in {"boot failed", "died", "timeout"} : Failed(why) \in Outcomes(Path(t))
        BY DEF Outcomes, Failures, Failed
      <4>2. QED
        BY <3>1, <4>1 DEF BootFails, WriteBroken, ReadEof, Timeout
    <3>2. CASE Read(t)
      <4>1. Answer(Path(t)) \in Outcomes(Path(t))
        BY DEF Outcomes
      <4>2. QED
        BY <3>2, <4>1, OwedAnswer DEF Read
    <3>3. QED
      BY <1>6, <3>1, <3>2
  <2>4. QED
    BY <2>1, <2>2, <2>3, ReturnsOutcome
<1>7. ASSUME NEW w \in Evaluators, Ready(w) \/ Serve(w) \/ Die(w) PROVE OutcomesOK'
  BY <1>1, <1>7 DEF Ready, Serve, Die, workers
<1>8. CASE Main
  BY <1>1, <1>8 DEF Main, Merge, Collected, Close, WriteReport, WriteDivergences, workers
<1>9. CASE UNCHANGED vars
  BY <1>1, <1>9 DEF vars, workers
<1>10. QED
  BY <1>2, <1>3, <1>4, <1>5, <1>6, <1>7, <1>8, <1>9 DEF Next, Step
-----------------------------------------------------------------------------
(* Pipes. *)

\* The short queues a child's pipes hold.
LEMMA ShortQueues ==
  ASSUME NEW a, NEW b
  PROVE  /\ <<a>> # <<>> /\ Head(<<a>>) = a /\ Tail(<<a>>) = <<>> /\ Append(<<>>, a) = <<a>>
         /\ <<a, b>> # <<>> /\ Head(<<a, b>>) = a /\ Tail(<<a, b>>) = <<b>>
         /\ Append(<<a>>, b) = <<a, b>>
<1>1. <<a>> # <<>> /\ Head(<<a>>) = a /\ Append(<<>>, a) = <<a>>
  OBVIOUS
<1>2. Tail(<<a>>) = <<>>
  OBVIOUS
<1>3. <<a, b>> # <<>> /\ Head(<<a, b>>) = a
  OBVIOUS
<1>4. Tail(<<a, b>>) = <<b>>
  OBVIOUS
<1>5. Append(<<a>>, b) = <<a, b>>
  <2>1. <<a>> \in Seq({a, b}) /\ <<a, b>> \in Seq({a, b}) /\ b \in {a, b}
    OBVIOUS
  <2>2. /\ Append(<<a>>, b) \in Seq({a, b}) /\ Len(Append(<<a>>, b)) = 2
        /\ Append(<<a>>, b)[1] = a /\ Append(<<a>>, b)[2] = b
    <3>1. Len(<<a>>) = 1 /\ <<a>>[1] = a
      OBVIOUS
    <3>2. QED
      BY <2>1, <3>1, AppendProperties
  <2>3. Len(<<a, b>>) = 2 /\ <<a, b>>[1] = a /\ <<a, b>>[2] = b
    OBVIOUS
  <2>4. \A i \in 1..2 : Append(<<a>>, b)[i] = <<a, b>>[i]
    <3>1. \A i \in 1..2 : i = 1 \/ i = 2
      OBVIOUS
    <3>2. QED
      BY <2>2, <2>3, <3>1
  <2>5. QED
    BY <2>1, <2>2, <2>3, <2>4, SeqEqual
<1>6. QED
  BY <1>1, <1>2, <1>3, <1>4, <1>5

LEMMA AnswerIsNotEof == \A x : Answer(x) # Eof
<1>1. \A x : Answer(x).kind = "answer" /\ Eof.kind = "eof"
  BY DEF Answer, Eof
<1>2. QED
  BY <1>1

\* An evaluator whose thread does not read owes nothing.
LEMMA HeldQuiet ==
  ASSUME IInv, NEW t \in Threads, pc[t] # "idle", pc[t] # "read"
  PROVE  Quiet(mine[t])
<1>1. mine[t] \in Evaluators /\ \A u \in Threads : mine[u] = mine[t] => u = t
  BY Working, EvaluatorsAssumption DEF IInv, HoldersOK
<1>2. QED
  BY <1>1 DEF IInv, PipesOK

\* Two threads have two evaluators.
LEMMA OtherHolds ==
  ASSUME IInv, NEW t \in Threads, NEW u \in Threads, u # t, pc[u] # "idle"
  PROVE  mine[u] \in Evaluators /\ mine[u] # mine[t]
BY Working, EvaluatorsAssumption DEF IInv, HoldersOK

\* One thread moves on with its evaluator quiet; the others are not concerned.
LEMMA SettledKeeps ==
  ASSUME IInv, NEW t \in Threads, pc[t] # "idle", pc'[t] # "read",
         mine' = mine, prob' = prob,
         \A u \in Threads : u # t => pc'[u] = pc[u] /\ got'[u] = got[u],
         \A v \in Evaluators : v # mine[t] =>
           child'[v] = child[v] /\ inbox'[v] = inbox[v] /\ lines'[v] = lines[v],
         Quiet(mine[t])'
  PROVE  PipesOK'
<1>1. ASSUME NEW v \in Evaluators, \A u \in Threads : mine'[u] = v => pc'[u] # "read"
      PROVE  Quiet(v)'
  <2>1. CASE v = mine[t]
    BY <2>1 DEF Quiet
  <2>2. CASE v # mine[t]
    <3>1. \A u \in Threads : mine[u] = v => pc[u] # "read"
      BY <1>1, <2>2
    <3>2. Quiet(v)
      BY <3>1 DEF IInv, PipesOK
    <3>3. QED
      BY <2>2, <3>2 DEF Quiet
  <2>3. QED
    BY <2>1, <2>2
<1>2. ASSUME NEW u \in Threads, pc'[u] = "read" PROVE Owes(mine[u], Path(u))'
  <2>1. u # t /\ pc[u] = "read" /\ got'[u] = got[u]
    BY <1>2
  <2>2. mine[u] \in Evaluators /\ mine[u] # mine[t] /\ Owes(mine[u], Path(u))
    BY <2>1, OtherHolds DEF IInv, PipesOK
  <2>3. QED
    BY <2>1, <2>2 DEF Owes, Path
<1>3. QED
  BY <1>1, <1>2 DEF PipesOK

\* Nothing is read or written, and threads read as before.
LEMMA SamePipes ==
  ASSUME IInv, child' = child, inbox' = inbox, lines' = lines,
         mine' = mine, prob' = prob, got' = got, pc' = pc
  PROVE  PipesOK'
BY DEF IInv, PipesOK, Quiet, Owes, Path

\* The steps of a thread.
LEMMA StepPipes ==
  ASSUME IInv, NEW t \in Threads, Step(t) \/ Raise(t)
  PROVE  PipesOK'
<1> DEFINE w == mine[t]
<1>1. ASSUME Take(t) \/ Finish(t) \/ Raise(t) PROVE PipesOK'
  <2>1. /\ UNCHANGED backends /\ pc[t] \in {"idle", "problem"} /\ pc'[t] \in {"idle", "problem"}
        /\ \A u \in Threads : u # t =>
             pc'[u] = pc[u] /\ got'[u] = got[u] /\ mine'[u] = mine[u] /\ prob'[u] = prob[u]
    BY <1>1 DEF Take, Finish, Raise, Return, Goto, IInv, TypeInv
  <2>2. ASSUME NEW v \in Evaluators, \A u \in Threads : mine'[u] = v => pc'[u] # "read"
        PROVE  Quiet(v)'
    <3>1. \A u \in Threads : mine[u] = v => pc[u] # "read"
      BY <2>1, <2>2
    <3>2. QED
      BY <2>1, <3>1 DEF IInv, PipesOK, Quiet, backends
  <2>3. ASSUME NEW u \in Threads, pc'[u] = "read" PROVE Owes(mine[u], Path(u))'
    BY <2>1, <2>3 DEF IInv, PipesOK, Owes, Path, backends
  <2>4. QED
    BY <2>2, <2>3 DEF PipesOK
<1>2. ASSUME RunStdio(t) \/ Eval(t) \/ Boot(t) \/ Booted(t) \/ BootFails(t) \/ WriteBroken(t)
             \/ ReadEof(t) \/ Timeout(t) \/ Read(t)
      PROVE  PipesOK'
  <2>1. /\ pc[t] # "idle" /\ w \in Evaluators /\ mine' = mine /\ prob' = prob
    BY <1>2, Working
       DEF RunStdio, Eval, Boot, Booted, BootFails, WriteBroken, ReadEof, Timeout, Read, Pending
  <2>2. /\ pc'[t] # "read"
        /\ \A u \in Threads : u # t => pc'[u] = pc[u] /\ got'[u] = got[u]
    BY <1>2 DEF RunStdio, Eval, Boot, Booted, BootFails, WriteBroken, ReadEof, Timeout, Read,
                Returns, Goto, IInv, TypeInv
  <2>3. ASSUME Kill(w) PROVE PipesOK'
    <3>1. /\ child'[w] = Gone /\ inbox'[w] = <<>> /\ lines'[w] = <<>>
          /\ \A v \in Evaluators : v # w =>
               child'[v] = child[v] /\ inbox'[v] = inbox[v] /\ lines'[v] = lines[v]
      BY <2>1, <2>3, KillType DEF IInv
    <3>2. Quiet(w)'
      BY <2>1, <3>1 DEF Quiet, Gone
    <3>3. QED
      BY <2>1, <2>2, <3>1, <3>2, SettledKeeps
  <2>4. ASSUME UNCHANGED backends, pc[t] # "read" PROVE PipesOK'
    <3>1. Quiet(w)
      BY <2>1, <2>4, HeldQuiet
    <3>2. Quiet(w)'
      BY <2>1, <2>4, <3>1 DEF Quiet, backends
    <3>3. \A v \in Evaluators : child'[v] = child[v] /\ inbox'[v] = inbox[v] /\ lines'[v] = lines[v]
      BY <2>4 DEF backends
    <3>4. QED
      BY <2>1, <2>2, <3>2, <3>3, SettledKeeps
  <2>5. CASE RunStdio(t) \/ Eval(t) \/ Booted(t)
    BY <2>3, <2>4, <2>5 DEF RunStdio, Eval, Booted, Pending
  <2>6. CASE Boot(t)
    <3>1. /\ child' = [child EXCEPT ![w] = [state |-> "booting", served |-> 0]]
          /\ inbox' = [inbox EXCEPT ![w] = <<>>] /\ lines' = [lines EXCEPT ![w] = <<>>]
      BY <2>6 DEF Boot
    <3>2. /\ child'[w].state = "booting" /\ inbox'[w] = <<>> /\ lines'[w] = <<>>
          /\ \A v \in Evaluators : v # w =>
               child'[v] = child[v] /\ inbox'[v] = inbox[v] /\ lines'[v] = lines[v]
      BY <2>1, <3>1 DEF IInv, TypeInv
    <3>3. Quiet(w)'
      BY <2>1, <3>2 DEF Quiet
    <3>4. QED
      BY <2>1, <2>2, <3>2, <3>3, SettledKeeps
  <2>7. CASE BootFails(t) \/ WriteBroken(t) \/ ReadEof(t) \/ Timeout(t)
    BY <2>3, <2>7 DEF BootFails, WriteBroken, ReadEof, Timeout
  <2>8. CASE Read(t)
    <3>1. pc[t] = "read" /\ Owes(w, Path(t))
      BY <2>8 DEF Read, IInv, PipesOK
    <3>2. /\ child' = child /\ inbox' = inbox /\ lines' = [lines EXCEPT ![w] = Tail(lines[w])]
          /\ lines[w] # <<>> /\ Head(lines[w]) # Eof
      BY <2>8 DEF Read
    <3>3. lines'[w] = Tail(lines[w]) /\ \A v \in Evaluators : v # w => lines'[v] = lines[v]
      BY <2>1, <3>2 DEF IInv, TypeInv
    <3>4. \/ child[w].state = "ready" /\ inbox[w] = <<>> /\ lines[w] = <<Answer(Path(t))>>
          \/ child[w].state = "dead" /\ inbox[w] = <<>> /\ lines[w] = <<Answer(Path(t)), Eof>>
      BY <3>1, <3>2, ShortQueues DEF Owes
    <3>5. Quiet(w)'
      <4>1. /\ Tail(<<Answer(Path(t))>>) = <<>>
            /\ Tail(<<Answer(Path(t)), Eof>>) = <<Eof>>
        BY ShortQueues
      <4>2. CASE child[w].state = "ready" /\ inbox[w] = <<>> /\ lines[w] = <<Answer(Path(t))>>
        <5>1. lines'[w] = <<>> /\ child'[w].state = "ready" /\ inbox'[w] = <<>>
          BY <3>2, <3>3, <4>1, <4>2
        <5>2. QED
          BY <2>1, <5>1 DEF Quiet
      <4>3. CASE child[w].state = "dead" /\ inbox[w] = <<>> /\ lines[w] = <<Answer(Path(t)), Eof>>
        <5>1. lines'[w] = <<Eof>> /\ child'[w].state = "dead" /\ inbox'[w] = <<>>
          BY <3>2, <3>3, <4>1, <4>3
        <5>2. QED
          BY <2>1, <5>1 DEF Quiet
      <4>4. QED
        BY <3>4, <4>2, <4>3
    <3>6. QED
      BY <2>1, <2>2, <3>2, <3>3, <3>5, SettledKeeps
  <2>9. QED
    BY <1>2, <2>5, <2>6, <2>7, <2>8
<1>3. CASE Write(t)
  <2>1. /\ pc[t] = "write" /\ pc[t] # "idle" /\ w \in Evaluators
        /\ child[w].state \in {"ready", "dead"}
        /\ mine' = mine /\ prob' = prob /\ got' = got /\ lines' = lines
    BY <1>3, Working DEF Write
  <2>2. /\ pc'[t] = "read" /\ \A u \in Threads : u # t => pc'[u] = pc[u]
    BY <1>3 DEF Write, Goto, IInv, TypeInv
  <2>3. inbox[w] = <<>> /\ lines[w] = IF child[w].state = "dead" THEN <<Eof>> ELSE <<>>
    BY <2>1, HeldQuiet DEF Quiet
  <2>4. /\ inbox'[w] = <<Path(t)>> /\ \A v \in Evaluators : v # w => inbox'[v] = inbox[v]
    BY <1>3, <2>1, <2>3, ShortQueues DEF Write, IInv, TypeInv
  <2>5. child'[w].state = child[w].state /\ \A v \in Evaluators : v # w => child'[v] = child[v]
    <3>1. child[w] \in [state : {"none", "booting", "ready", "dead"}, served : Nat]
      BY <2>1 DEF IInv, TypeInv
    <3>2. child' = [child EXCEPT ![w] = [child[w] EXCEPT !.served = @ + 1]]
      BY <1>3 DEF Write
    <3>3. QED
      BY <2>1, <3>1, <3>2 DEF IInv, TypeInv
  <2>6. Path(t)' = Path(t)
    BY <2>1 DEF Path
  <2>7. Owes(w, Path(t))'
    BY <2>1, <2>3, <2>4, <2>5, <2>6 DEF Owes
  <2>8. ASSUME NEW u \in Threads, u # t, pc'[u] = "read" PROVE Owes(mine[u], Path(u))'
    <3>1. pc[u] = "read" /\ mine[u] \in Evaluators /\ mine[u] # w /\ Owes(mine[u], Path(u))
      BY <2>2, <2>8, OtherHolds DEF IInv, PipesOK
    <3>2. QED
      BY <2>1, <2>4, <2>5, <3>1 DEF Owes, Path
  <2>9. ASSUME NEW v \in Evaluators, \A u \in Threads : mine'[u] = v => pc'[u] # "read"
        PROVE  Quiet(v)'
    <3>1. v # w
      BY <2>1, <2>2, <2>9
    <3>2. \A u \in Threads : mine[u] = v => pc[u] # "read"
      BY <2>1, <2>2, <2>9
    <3>3. Quiet(v)
      BY <3>2 DEF IInv, PipesOK
    <3>4. QED
      BY <2>1, <2>4, <2>5, <3>1, <3>3 DEF Quiet
  <2>10. QED
    BY <2>7, <2>8, <2>9 DEF PipesOK
<1>4. QED
  BY <1>1, <1>2, <1>3 DEF Step

\* The steps of a Lean process.
LEMMA ChildPipes ==
  ASSUME IInv, NEW w \in Evaluators, Ready(w) \/ Serve(w) \/ Die(w)
  PROVE  PipesOK'
<1>1. /\ UNCHANGED workers
      /\ \A v \in Evaluators : v # w =>
           child'[v] = child[v] /\ inbox'[v] = inbox[v] /\ lines'[v] = lines[v]
  BY DEF Ready, Serve, Die, IInv, TypeInv
<1>2. \/ (\A t \in Threads : mine[t] = w => pc[t] # "read") /\ Quiet(w)
      \/ \E t \in Threads : mine[t] = w /\ pc[t] = "read" /\ Owes(w, Path(t))
  BY DEF IInv, PipesOK
<1>3. child[w] \in [state : {"none", "booting", "ready", "dead"}, served : Nat]
  BY DEF IInv, TypeInv
<1>4. Quiet(w) => Quiet(w)'
  <2>1. SUFFICES ASSUME Quiet(w) PROVE Quiet(w)'
    OBVIOUS
  <2>2. CASE Ready(w)
    <3>1. child' = [child EXCEPT ![w] = [child[w] EXCEPT !.state = "ready"]]
      BY <2>2 DEF Ready
    <3>2. child'[w].state = "ready" /\ inbox' = inbox /\ lines' = lines /\ child[w].state = "booting"
      BY <1>3, <2>2, <3>1 DEF Ready, IInv, TypeInv
    <3>3. QED
      BY <2>1, <3>2 DEF Quiet
  <2>3. CASE Serve(w)
    BY <2>1, <2>3 DEF Serve, Quiet
  <2>4. CASE Die(w)
    <3>1. child' = [child EXCEPT ![w] = [child[w] EXCEPT !.state = "dead"]]
      BY <2>4 DEF Die
    <3>2. child'[w].state = "dead" /\ inbox' = inbox /\ child[w].state = "ready"
      BY <1>3, <2>4, <3>1 DEF Die, IInv, TypeInv
    <3>3. lines'[w] = <<Eof>>
      BY <2>1, <2>4, <3>2, ShortQueues DEF Die, Quiet, IInv, TypeInv
    <3>4. QED
      BY <2>1, <3>2, <3>3 DEF Quiet
  <2>5. QED
    BY <2>2, <2>3, <2>4
<1>5. ASSUME NEW t \in Threads, Owes(w, Path(t)) PROVE Owes(w, Path(t))'
  <2>1. Path(t)' = Path(t)
    BY <1>1 DEF Path, workers
  <2>2. CASE Ready(w)
    BY <1>5, <2>2 DEF Ready, Owes
  <2>3. CASE Serve(w)
    <3>1. child[w].state = "ready" /\ inbox[w] = <<Path(t)>> /\ lines[w] = <<>> /\ child' = child
      BY <1>5, <2>3 DEF Serve, Owes
    <3>2. lines'[w] = <<Answer(Path(t))>> /\ inbox'[w] = <<>>
      BY <2>3, <3>1, ShortQueues DEF Serve, IInv, TypeInv
    <3>3. QED
      BY <2>1, <3>1, <3>2 DEF Owes
  <2>4. CASE Die(w)
    <3>1. child' = [child EXCEPT ![w] = [child[w] EXCEPT !.state = "dead"]]
      BY <2>4 DEF Die
    <3>2. /\ child'[w].state = "dead" /\ inbox' = inbox /\ child[w].state = "ready"
          /\ lines'[w] = Append(lines[w], Eof)
      BY <1>3, <2>4, <3>1 DEF Die, IInv, TypeInv
    <3>3. CASE inbox[w] = <<Path(t)>> /\ lines[w] = <<>>
      BY <2>1, <3>2, <3>3, ShortQueues DEF Owes
    <3>4. CASE inbox[w] = <<>> /\ lines[w] = <<Answer(Path(t))>>
      <4>1. Append(<<Answer(Path(t))>>, Eof) = <<Answer(Path(t)), Eof>>
        BY ONLY ShortQueues
      <4>2. lines'[w] = <<Answer(Path(t)), Eof>>
        BY <3>2, <3>4, <4>1
      <4>3. QED
        BY <2>1, <3>2, <3>4, <4>2 DEF Owes
    <3>5. QED
      BY <1>5, <3>2, <3>3, <3>4 DEF Owes
  <2>5. QED
    BY <2>2, <2>3, <2>4
<1>6. UNCHANGED <<pc, mine, prob, got>>
  BY <1>1 DEF workers
<1>7. ASSUME NEW v \in Evaluators, \A u \in Threads : mine'[u] = v => pc'[u] # "read"
      PROVE  Quiet(v)'
  <2>1. Quiet(v)
    BY <1>6, <1>7 DEF IInv, PipesOK
  <2>2. CASE v = w
    BY <1>4, <2>1, <2>2
  <2>3. CASE v # w
    BY <1>1, <2>1, <2>3 DEF Quiet
  <2>4. QED
    BY <2>2, <2>3
<1>8. ASSUME NEW u \in Threads, pc'[u] = "read" PROVE Owes(mine[u], Path(u))'
  <2>1. pc[u] = "read" /\ Owes(mine[u], Path(u)) /\ mine[u] \in Evaluators
    BY <1>6, <1>8, Working DEF IInv, PipesOK
  <2>2. CASE mine[u] = w
    <3>1. Owes(w, Path(u))'
      BY <1>5, <2>1, <2>2
    <3>2. QED
      BY <1>6, <2>2, <3>1 DEF Owes
  <2>3. CASE mine[u] # w
    BY <1>1, <1>6, <2>1, <2>3 DEF Owes, Path
  <2>4. QED
    BY <2>2, <2>3
<1>9. QED
  BY <1>7, <1>8 DEF PipesOK

LEMMA NextPipes ==
  ASSUME IInv, [Next]_vars
  PROVE  PipesOK'
<1>1. ASSUME NEW t \in Threads, Step(t) \/ Raise(t) PROVE PipesOK'
  BY <1>1, StepPipes
<1>2. ASSUME NEW w \in Evaluators, Ready(w) \/ Serve(w) \/ Die(w) PROVE PipesOK'
  BY <1>2, ChildPipes
<1>3. CASE Close
  <2> DEFINE w == Head(pool)
  <2>1. w \in Evaluators /\ w \in Range(pool) /\ \A t \in Threads : mine[t] # w
    BY <1>3, Pop, PopOnce DEF Close, IInv, TypeInv, HoldersOK
  <2>2. /\ child'[w] = Gone /\ inbox'[w] = <<>> /\ lines'[w] = <<>>
        /\ \A v \in Evaluators : v # w =>
             child'[v] = child[v] /\ inbox'[v] = inbox[v] /\ lines'[v] = lines[v]
    BY <1>3, <2>1, KillType DEF Close, IInv
  <2>3. UNCHANGED <<pc, mine, prob, got>>
    BY <1>3 DEF Close
  <2> HIDE DEF w
  <2>4. ASSUME NEW v \in Evaluators, \A u \in Threads : mine'[u] = v => pc'[u] # "read"
        PROVE  Quiet(v)'
    <3>1. CASE v = w
      BY <2>2, <3>1 DEF Quiet, Gone
    <3>2. CASE v # w
      <4>1. Quiet(v)
        BY <2>3, <2>4 DEF IInv, PipesOK
      <4>2. QED
        BY <2>2, <3>2, <4>1 DEF Quiet
    <3>3. QED
      BY <3>1, <3>2
  <2>5. ASSUME NEW u \in Threads, pc'[u] = "read" PROVE Owes(mine[u], Path(u))'
    <3>1. mine[u] \in Evaluators /\ mine[u] # w /\ Owes(mine[u], Path(u))
      BY <2>1, <2>3, <2>5, Working DEF IInv, PipesOK
    <3>2. QED
      BY <2>2, <2>3, <3>1 DEF Owes, Path
  <2>6. QED
    BY <2>4, <2>5 DEF PipesOK
<1>4. ASSUME UNCHANGED <<workers, backends>> PROVE PipesOK'
  BY <1>4, SamePipes DEF workers, backends
<1>5. CASE Main
  <2>1. CASE Close
    BY <1>3, <2>1
  <2>2. CASE ~Close
    <3>1. UNCHANGED <<workers, backends>>
      BY <1>5, <2>2 DEF Main, Merge, Collected, WriteReport, WriteDivergences
    <3>2. QED
      BY <1>4, <3>1
  <2>3. QED
    BY <2>1, <2>2
<1>6. CASE UNCHANGED vars
  BY <1>4, <1>6 DEF vars
<1>7. QED
  BY <1>1, <1>2, <1>5, <1>6 DEF Next
-----------------------------------------------------------------------------
(* Reboots. *)

\* Division leaves a remainder, and only one.
LEMMA Divides ==
  ASSUME NEW a \in Nat, NEW R \in Nat, R > 0
  PROVE  a = R * (a \div R) + (a % R) /\ a \div R \in Nat /\ a % R \in 0..(R - 1)
OBVIOUS

LEMMA Remainder ==
  ASSUME NEW q \in Nat, NEW m \in Nat, NEW R \in Nat, m < R
  PROVE  (R * q + m) % R = m
OBVIOUS

\* The next number's remainder is one more, or zero.
LEMMA NextRemainder ==
  ASSUME NEW a \in Nat, NEW R \in Nat, R > 0
  PROVE  (a + 1) % R = IF (a % R) + 1 = R THEN 0 ELSE (a % R) + 1
<1> DEFINE q == a \div R
           m == a % R
<1>1. a = R * q + m /\ q \in Nat /\ m \in 0..(R - 1)
  BY Divides
<1> HIDE DEF q, m
<1>2. CASE m + 1 = R
  <2>1. R * (q + 1) = R * q + R
    BY <1>1
  <2>2. a + 1 = R * (q + 1) + 0
    BY <1>1, <1>2, <2>1
  <2>3. (a + 1) % R = 0
    BY <1>1, <2>2, Remainder
  <2>4. QED
    BY <1>2, <2>3 DEF m
<1>3. CASE m + 1 # R
  <2>1. a + 1 = R * q + (m + 1) /\ m + 1 \in Nat /\ m + 1 < R
    BY <1>1, <1>3
  <2>2. (a + 1) % R = m + 1
    BY <1>1, <2>1, Remainder
  <2>3. QED
    BY <1>3, <2>2 DEF m
<1>4. QED
  BY <1>2, <1>3

\* Between two scheduled reboots the count goes up one by one to REBOOT_EVERY.
LEMMA UsedCounts ==
  ASSUME NEW n \in Nat, RebootEvery > 0
  PROVE  /\ Used(n) \in 0..RebootEvery /\ Used(n + 1) \in 1..RebootEvery
         /\ ~(n > 0 /\ n % RebootEvery = 0) => Used(n + 1) = Used(n) + 1
<1> DEFINE R == RebootEvery
<1>1. R \in Nat /\ R > 0
  BY EvaluatorsAssumption
<1>2. \A m \in Nat : m % R \in 0..(R - 1)
  BY <1>1
<1>3. Used(n + 1) = (n % R) + 1
  BY DEF Used
<1>4. Used(n) \in 0..R
  <2>1. CASE n = 0
    BY <1>1, <2>1 DEF Used
  <2>2. CASE n # 0
    <3>1. n - 1 \in Nat
      BY <2>2
    <3>2. QED
      BY <1>1, <1>2, <2>2, <3>1 DEF Used
  <2>3. QED
    BY <2>1, <2>2
<1>5. ASSUME ~(n > 0 /\ n % R = 0) PROVE n % R = Used(n)
  <2>1. CASE n = 0
    BY <1>1, <2>1 DEF Used
  <2>2. CASE n # 0
    <3>1. n - 1 \in Nat /\ n % R # 0
      BY <1>5, <2>2
    <3>2. n % R = ((n - 1) % R) + 1
      <4>1. ((n - 1) + 1) % R = IF ((n - 1) % R) + 1 = R THEN 0 ELSE ((n - 1) % R) + 1
        BY <1>1, <3>1, NextRemainder
      <4>2. (n - 1) + 1 = n
        OBVIOUS
      <4>3. QED
        BY <3>1, <4>1, <4>2
    <3>3. QED
      BY <2>2, <3>2 DEF Used
  <2>3. QED
    BY <2>1, <2>2
<1>6. QED
  BY <1>1, <1>2, <1>3, <1>4, <1>5

\* Nothing is served or counted, and a child at most starts anew.
LEMMA SameUse ==
  ASSUME IInv, evals' = evals,
         \A v \in Evaluators : child'[v].served \in {0, child[v].served},
         \A u \in Threads : pc'[u] \in Preparing => pc[u] \in Preparing /\ mine'[u] = mine[u]
  PROVE  RebootOK'
<1>1. \A v \in Evaluators :
        /\ child[v].served \in Nat /\ evals[v] \in Nat /\ child[v].served <= evals[v]
        /\ RebootEvery > 0 => child[v].served <= Used(evals[v]) /\ Used(evals[v]) \in Nat
  <2>1. \A v \in Evaluators : child[v].served \in Nat /\ evals[v] \in Nat
    BY DEF IInv, TypeInv
  <2>2. RebootEvery > 0 => \A v \in Evaluators : Used(evals[v]) \in Nat
    BY <2>1, UsedCounts, EvaluatorsAssumption
  <2>3. QED
    BY <2>1, <2>2 DEF IInv, RebootOK
<1>2. ASSUME NEW v \in Evaluators
      PROVE  /\ child'[v].served <= evals'[v]
             /\ RebootEvery > 0 => child'[v].served <= Used(evals'[v])
  BY <1>1
<1>3. ASSUME NEW u \in Threads, pc'[u] \in Preparing
      PROVE  /\ child'[mine'[u]].served < evals'[mine'[u]]
             /\ RebootEvery > 0 => child'[mine'[u]].served < Used(evals'[mine'[u]])
  <2>1. pc[u] \in Preparing /\ mine'[u] = mine[u]
    BY <1>3
  <2>2. mine[u] \in Evaluators
    BY <2>1, Working DEF Preparing
  <2>3. /\ child[mine[u]].served < evals[mine[u]]
        /\ RebootEvery > 0 => child[mine[u]].served < Used(evals[mine[u]])
    BY <2>1 DEF IInv, RebootOK
  <2>4. QED
    BY <1>1, <2>1, <2>2, <2>3
<1>4. QED
  BY <1>2, <1>3, EvaluatorsAssumption DEF RebootOK, Used

\* An evaluation is counted, after the reboot that is due.
LEMMA EvalUse ==
  ASSUME IInv, NEW t \in Threads, Eval(t)
  PROVE  RebootOK'
<1> DEFINE w == mine[t]
           n == evals[w]
<1>1. pc[t] = "problem" /\ w \in Evaluators /\ n \in Nat /\ mine' = mine
  BY Working DEF Eval, Pending, IInv, TypeInv
<1>2. /\ evals' = [evals EXCEPT ![w] = n + 1]
      /\ \/ Kill(w)
         \/ child' = child /\ ~Due(w)
  BY DEF Eval, backends
<1>3. /\ evals'[w] = n + 1
      /\ \A v \in Evaluators : v # w => evals'[v] = evals[v] /\ child'[v] = child[v]
  BY <1>1, <1>2, KillType DEF IInv, TypeInv
<1>4. child'[w].served <= n /\ child'[w].served \in Nat
  <2>1. child[w].served \in Nat /\ child[w].served <= n
    BY <1>1 DEF IInv, TypeInv, RebootOK
  <2>2. CASE Kill(w)
    BY <1>1, <2>2, KillType DEF IInv, Gone
  <2>3. CASE child' = child
    BY <2>1, <2>3
  <2>4. QED
    BY <1>2, <2>2, <2>3
<1>5. RebootEvery > 0 => child'[w].served < Used(n + 1) /\ Used(n + 1) \in Nat
  <2>1. SUFFICES ASSUME RebootEvery > 0
                 PROVE  child'[w].served < Used(n + 1) /\ Used(n + 1) \in Nat
    OBVIOUS
  <2>2. Used(n) \in 0..RebootEvery /\ Used(n + 1) \in 1..RebootEvery
    BY <1>1, <2>1, UsedCounts
  <2>3. CASE Kill(w)
    <3>1. child'[w].served = 0
      BY <1>1, <2>3, KillType DEF IInv, Gone
    <3>2. QED
      BY <2>2, <3>1, EvaluatorsAssumption
  <2>4. CASE child' = child /\ ~Due(w)
    <3>1. ~(n > 0 /\ n % RebootEvery = 0)
      BY <2>1, <2>4 DEF Due
    <3>2. Used(n + 1) = Used(n) + 1
      BY <1>1, <2>1, <3>1, UsedCounts
    <3>3. child[w].served <= Used(n)
      BY <1>1, <2>1 DEF IInv, RebootOK
    <3>4. QED
      BY <1>4, <2>2, <2>4, <3>2, <3>3, EvaluatorsAssumption
  <2>5. QED
    BY <1>2, <2>3, <2>4
<1> HIDE DEF n
<1>6. ASSUME NEW v \in Evaluators
      PROVE  /\ child'[v].served <= evals'[v]
             /\ RebootEvery > 0 => child'[v].served <= Used(evals'[v])
  <2>1. CASE v = w
    BY <1>1, <1>3, <1>4, <1>5, <2>1
  <2>2. CASE v # w
    BY <1>3, <2>2 DEF IInv, RebootOK
  <2>3. QED
    BY <2>1, <2>2
<1>7. ASSUME NEW u \in Threads, pc'[u] \in Preparing
      PROVE  /\ child'[mine'[u]].served < evals'[mine'[u]]
             /\ RebootEvery > 0 => child'[mine'[u]].served < Used(evals'[mine'[u]])
  <2>1. CASE u = t
    BY <1>1, <1>3, <1>4, <1>5, <2>1
  <2>2. CASE u # t
    <3>1. pc[u] \in Preparing
      BY <1>7, <2>2 DEF Eval, Goto, IInv, TypeInv
    <3>2. mine[u] \in Evaluators /\ mine[u] # w
      BY <2>2, <3>1, OtherHolds DEF Preparing
    <3>3. QED
      BY <1>1, <1>3, <3>1, <3>2 DEF IInv, RebootOK
  <2>3. QED
    BY <2>1, <2>2
<1>8. QED
  BY <1>6, <1>7 DEF RebootOK, Used

\* The evaluation counted is served.
LEMMA WriteUse ==
  ASSUME IInv, NEW t \in Threads, Write(t)
  PROVE  RebootOK'
<1> DEFINE w == mine[t]
<1>1. /\ pc[t] = "write" /\ pc[t] \in Preparing /\ w \in Evaluators /\ mine' = mine /\ evals' = evals
  BY Working DEF Write, Preparing
<1>2. child[w] \in [state : {"none", "booting", "ready", "dead"}, served : Nat]
  BY <1>1 DEF IInv, TypeInv
<1>3. child'[w].served = child[w].served + 1 /\ \A v \in Evaluators : v # w => child'[v] = child[v]
  <2>1. child' = [child EXCEPT ![w] = [child[w] EXCEPT !.served = @ + 1]]
    BY DEF Write
  <2>2. QED
    BY <1>1, <1>2, <2>1 DEF IInv, TypeInv
<1>4. /\ child[w].served < evals[w] /\ evals[w] \in Nat /\ child[w].served \in Nat
      /\ RebootEvery > 0 => child[w].served < Used(evals[w]) /\ Used(evals[w]) \in Nat
  <2>1. evals[w] \in Nat /\ child[w].served \in Nat
    BY <1>1 DEF IInv, TypeInv
  <2>2. RebootEvery > 0 => Used(evals[w]) \in Nat
    BY <2>1, UsedCounts, EvaluatorsAssumption
  <2>3. QED
    BY <1>1, <2>1, <2>2 DEF IInv, RebootOK
<1>5. ASSUME NEW v \in Evaluators
      PROVE  /\ child'[v].served <= evals'[v]
             /\ RebootEvery > 0 => child'[v].served <= Used(evals'[v])
  <2>1. CASE v = w
    BY <1>1, <1>3, <1>4, <2>1
  <2>2. CASE v # w
    BY <1>1, <1>3, <2>2 DEF IInv, RebootOK
  <2>3. QED
    BY <2>1, <2>2
<1>6. ASSUME NEW u \in Threads, pc'[u] \in Preparing
      PROVE  /\ child'[mine'[u]].served < evals'[mine'[u]]
             /\ RebootEvery > 0 => child'[mine'[u]].served < Used(evals'[mine'[u]])
  <2>1. u # t /\ pc[u] \in Preparing
    BY <1>6 DEF Write, Goto, Preparing, IInv, TypeInv
  <2>2. mine[u] \in Evaluators /\ mine[u] # w
    BY <2>1, OtherHolds DEF Preparing
  <2>3. QED
    BY <1>1, <1>3, <2>1, <2>2 DEF IInv, RebootOK
<1>7. QED
  BY <1>5, <1>6 DEF RebootOK, Used

LEMMA NextReboot ==
  ASSUME IInv, [Next]_vars
  PROVE  RebootOK'
<1>1. ASSUME NEW t \in Threads, Take(t) \/ Finish(t) \/ Raise(t) PROVE RebootOK'
  <2>1. /\ evals' = evals /\ child' = child /\ pc'[t] \in {"idle", "problem"}
        /\ \A u \in Threads : u # t => pc'[u] = pc[u] /\ mine'[u] = mine[u]
    BY <1>1 DEF Take, Finish, Raise, Return, Goto, backends, IInv, TypeInv
  <2>2. \A u \in Threads : pc'[u] \in Preparing => pc[u] \in Preparing /\ mine'[u] = mine[u]
    BY <2>1 DEF Preparing
  <2>3. QED
    BY <2>1, <2>2, SameUse
<1>2. ASSUME NEW t \in Threads, Eval(t) PROVE RebootOK'
  BY <1>2, EvalUse
<1>3. ASSUME NEW t \in Threads, Write(t) PROVE RebootOK'
  BY <1>3, WriteUse
<1>4. ASSUME NEW t \in Threads,
             RunStdio(t) \/ Boot(t) \/ Booted(t) \/ BootFails(t) \/ WriteBroken(t)
               \/ Read(t) \/ ReadEof(t) \/ Timeout(t)
      PROVE  RebootOK'
  <2>1. pc[t] # "idle" /\ mine[t] \in Evaluators
    BY <1>4, Working
       DEF RunStdio, Boot, Booted, BootFails, WriteBroken, Read, ReadEof, Timeout, Pending
  <2>2. /\ evals' = evals /\ mine' = mine
        /\ pc'[t] \in {"problem"} \/ pc[t] \in {"boot", "booting"}
        /\ \A u \in Threads : u # t => pc'[u] = pc[u]
    BY <1>4 DEF RunStdio, Boot, Booted, BootFails, WriteBroken, Read, ReadEof, Timeout,
                Returns, Goto, IInv, TypeInv
  <2>3. \A u \in Threads : pc'[u] \in Preparing => pc[u] \in Preparing /\ mine'[u] = mine[u]
    BY <2>2 DEF Preparing
  <2>4. \A v \in Evaluators : child'[v].served \in {0, child[v].served}
    <3>1. CASE Kill(mine[t])
      <4>1. child'[mine[t]] = Gone /\ \A v \in Evaluators : v # mine[t] => child'[v] = child[v]
        BY <2>1, <3>1, KillType DEF IInv
      <4>2. Gone.served = 0
        BY DEF Gone
      <4>3. QED
        BY <4>1, <4>2
    <3>2. CASE child' = child
      BY <3>2
    <3>3. CASE Boot(t)
      <4>1. child' = [child EXCEPT ![mine[t]] = [state |-> "booting", served |-> 0]]
        BY <3>3 DEF Boot
      <4>2. QED
        BY <2>1, <4>1 DEF IInv, TypeInv
    <3>4. QED
      BY <1>4, <3>1, <3>2, <3>3
         DEF RunStdio, Booted, BootFails, WriteBroken, Read, ReadEof, Timeout, backends
  <2>5. QED
    BY <2>2, <2>3, <2>4, SameUse
<1>5. ASSUME NEW w \in Evaluators, Ready(w) \/ Serve(w) \/ Die(w) PROVE RebootOK'
  <2>1. evals' = evals /\ pc' = pc /\ mine' = mine
    BY <1>5 DEF Ready, Serve, Die, workers
  <2>2. child[w] \in [state : {"none", "booting", "ready", "dead"}, served : Nat]
    BY DEF IInv, TypeInv
  <2>3. \/ child' = [child EXCEPT ![w] = [child[w] EXCEPT !.state = "ready"]]
        \/ child' = [child EXCEPT ![w] = [child[w] EXCEPT !.state = "dead"]]
        \/ child' = child
    BY <1>5 DEF Ready, Serve, Die
  <2>4. \A v \in Evaluators : child'[v].served \in {0, child[v].served}
    <3>1. /\ [child[w] EXCEPT !.state = "ready"].served = child[w].served
          /\ [child[w] EXCEPT !.state = "dead"].served = child[w].served
      BY <2>2
    <3>2. child'[w].served = child[w].served /\ \A v \in Evaluators : v # w => child'[v] = child[v]
      BY <2>3, <3>1 DEF IInv, TypeInv
    <3>3. QED
      BY <3>2
  <2>5. QED
    BY <2>1, <2>4, SameUse
<1>6. CASE Main
  <2>1. evals' = evals /\ pc' = pc /\ mine' = mine
    BY <1>6 DEF Main, Merge, Collected, Close, WriteReport, WriteDivergences, workers
  <2>2. \A v \in Evaluators : child'[v].served \in {0, child[v].served}
    <3>1. CASE Close
      <4>1. Head(pool) \in Evaluators
        BY <3>1, Pop DEF Close, IInv, TypeInv
      <4>2. /\ child'[Head(pool)] = Gone
            /\ \A v \in Evaluators : v # Head(pool) => child'[v] = child[v]
        BY <3>1, <4>1, KillType DEF Close, IInv
      <4>3. Gone.served = 0
        BY DEF Gone
      <4>4. QED
        BY <4>2, <4>3
    <3>2. CASE ~Close
      BY <1>6, <3>2 DEF Main, Merge, Collected, WriteReport, WriteDivergences, backends
    <3>3. QED
      BY <3>1, <3>2
  <2>3. QED
    BY <2>1, <2>2, SameUse
<1>7. CASE UNCHANGED vars
  BY <1>7, SameUse DEF vars, workers, backends
<1>8. QED
  BY <1>1, <1>2, <1>3, <1>4, <1>5, <1>6, <1>7 DEF Next, Step
-----------------------------------------------------------------------------
(* Counts. *)

\* A problem has as many paths as solutions, and no path is of two problems.
LEMMA PathsCount ==
  ASSUME NEW p \in Problems
  PROVE  /\ IsFiniteSet(Paths(p)) /\ Cardinality(Paths(p)) = Solutions[p]
         /\ \A x \in Paths(p) : x[1] = p /\ x[2] \in 1..Solutions[p] /\ x = <<p, x[2]>>
<1>1. Solutions[p] \in Nat
  BY EvaluatorsAssumption
<1>2. /\ IsFiniteSet(1..Solutions[p]) /\ Cardinality(1..Solutions[p]) = Solutions[p]
      /\ IsFiniteSet({p}) /\ Cardinality({p}) = 1
  <2>1. IsFiniteSet(1..Solutions[p]) /\ Cardinality(1..Solutions[p]) = Solutions[p]
    <3>1. 1 \in Int /\ Solutions[p] \in Int
      BY <1>1
    <3>2. /\ IsFiniteSet(1..Solutions[p])
          /\ Cardinality(1..Solutions[p]) = IF 1 > Solutions[p] THEN 0 ELSE Solutions[p] - 1 + 1
      BY ONLY <3>1, FS_Interval
    <3>3. QED
      BY <1>1, <3>2
  <2>2. IsFiniteSet({p}) /\ Cardinality({p}) = 1
    BY FS_Singleton
  <2>3. QED
    BY <2>1, <2>2
<1>3. IsFiniteSet(Paths(p)) /\ Cardinality(Paths(p)) = 1 * Solutions[p]
  <2>1. /\ IsFiniteSet({p} \X (1..Solutions[p]))
        /\ Cardinality({p} \X (1..Solutions[p])) = Cardinality({p}) * Cardinality(1..Solutions[p])
    BY ONLY <1>2, FS_Product
  <2>2. QED
    BY <1>2, <2>1 DEF Paths
<1>4. QED
  BY <1>1, <1>3 DEF Paths

LEMMA SomePathsFinite ==
  ASSUME NEW E, E \subseteq Problems
  PROVE  IsFiniteSet(UNION {Paths(p) : p \in E}) /\ TotalOf(E) \in Nat
<1> DEFINE sets == {Paths(p) : p \in E}
           f == [p \in E |-> Paths(p)]
<1>1. IsFiniteSet(E)
  BY EvaluatorsAssumption, FS_Subset
<1>2. f \in Surjection(E, sets)
  BY DEF Surjection
<1>3. IsFiniteSet(sets)
  BY <1>1, <1>2, FS_Surjection
<1>4. \A T \in sets : IsFiniteSet(T)
  BY PathsCount
<1>5. IsFiniteSet(UNION sets)
  BY <1>3, <1>4, FS_UNION
<1>6. QED
  BY <1>5, FS_CardinalityType DEF TotalOf

\* Another problem adds its solutions.
LEMMA TotalAdds ==
  ASSUME NEW E, E \subseteq Problems, NEW p \in Problems, p \notin E
  PROVE  TotalOf(E \cup {p}) = TotalOf(E) + Solutions[p]
<1> DEFINE old == UNION {Paths(q) : q \in E}
<1>1. IsFiniteSet(old) /\ IsFiniteSet(Paths(p)) /\ Cardinality(Paths(p)) = Solutions[p]
  BY SomePathsFinite, PathsCount
<1>2. UNION {Paths(q) : q \in E \cup {p}} = old \cup Paths(p)
  OBVIOUS
<1>3. old \cap Paths(p) = {}
  <2>1. ASSUME NEW x \in old, x \in Paths(p) PROVE FALSE
    <3>1. PICK q \in E : x \in Paths(q)
      OBVIOUS
    <3>2. x[1] = q /\ x[1] = p
      BY <2>1, <3>1, PathsCount
    <3>3. QED
      BY <3>2
  <2>2. QED
    BY <2>1
<1>4. Cardinality(old \cup Paths(p)) = Cardinality(old) + Cardinality(Paths(p)) - 0
  BY <1>1, <1>3, FS_Union, FS_EmptySet
<1>5. Cardinality(old) \in Nat /\ Solutions[p] \in Nat
  BY <1>1, FS_CardinalityType, EvaluatorsAssumption
<1>6. TotalOf(E \cup {p}) = Cardinality(old \cup Paths(p)) /\ TotalOf(E) = Cardinality(old)
  BY <1>2 DEF TotalOf
<1> HIDE DEF old
<1>7. QED
  BY <1>1, <1>4, <1>5, <1>6

\* Fewer problems, fewer solutions.
LEMMA TotalMonotone ==
  ASSUME NEW E, NEW F, E \subseteq F, F \subseteq Problems
  PROVE  TotalOf(E) <= TotalOf(F)
<1>1. UNION {Paths(p) : p \in E} \in SUBSET UNION {Paths(p) : p \in F}
  OBVIOUS
<1>2. QED
  BY <1>1, SomePathsFinite, FS_Subset DEF TotalOf

\* The solutions begun only become more; an evaluation begins a new one.
LEMMA StartedFinite ==
  /\ IsFiniteSet(AllPaths) /\ Cardinality(AllPaths) = Total /\ Total \in Nat
  /\ IsFiniteSet(Started) /\ Cardinality(Started) \in Nat /\ Cardinality(Started) <= Total
  /\ Started \subseteq AllPaths
<1>1. IsFiniteSet(AllPaths) /\ Cardinality(AllPaths) = Total /\ Total \in Nat
  BY SomePathsFinite DEF AllPaths, Total, TotalOf
<1>2. Started \subseteq AllPaths
  BY DEF Started
<1>3. QED
  BY <1>1, <1>2, FS_Subset, FS_CardinalityType

\* How many of a thread's solutions have begun.
Begun(t) == IF pc[t] \in Evaluating THEN Len(got[t]) + 1 ELSE Len(got[t])

LEMMA StartedGrows ==
  ASSUME IInv, TypeInv',
         Range(todo') \subseteq Range(todo),
         \A u \in Threads : \/ prob'[u] = prob[u] /\ Begun(u) <= Begun(u)'
                            \/ prob'[u] = NoOne
                            \/ prob'[u] \in Range(todo)
  PROVE  Started \subseteq Started'
<1>1. SUFFICES ASSUME NEW x \in AllPaths, x[1] \notin Range(todo),
                      \A u \in Threads : prob[u] = x[1] => x[2] <= Begun(u)
               PROVE  x \in Started'
  BY DEF Started, Begun
<1>2. PICK p \in Problems : x[1] = p /\ x[2] \in Nat
  BY PathsCount, EvaluatorsAssumption DEF AllPaths
<1>3. x[1] \notin Range(todo')
  BY <1>1
<1>4. ASSUME NEW u \in Threads, prob'[u] = x[1] PROVE x[2] <= Begun(u)'
  <2>1. prob'[u] = prob[u] /\ Begun(u) <= Begun(u)'
    BY <1>1, <1>2, <1>4, EvaluatorsAssumption
  <2>2. x[2] <= Begun(u)
    BY <1>1, <1>4, <2>1
  <2>3. Begun(u) \in Nat /\ Begun(u)' \in Nat
    BY DEF Begun, IInv, TypeInv
  <2>4. QED
    BY <1>2, <2>1, <2>2, <2>3
<1>5. QED
  BY <1>1, <1>3, <1>4 DEF Started, Begun, AllPaths

LEMMA CountsStay ==
  ASSUME IInv, evals' = evals, Started \subseteq Started'
  PROVE  \A w \in Evaluators : evals'[w] <= Cardinality(Started')
<1>1. IsFiniteSet(Started') /\ Cardinality(Started') \in Nat /\ Cardinality(Started) \in Nat
  <2>1. Started' \subseteq AllPaths
    BY DEF Started, AllPaths
  <2>2. QED
    BY <2>1, StartedFinite, FS_Subset, FS_CardinalityType
<1>2. Cardinality(Started) <= Cardinality(Started')
  BY <1>1, FS_Subset
<1>3. QED
  BY <1>1, <1>2 DEF IInv, TypeInv, CountOK

\* A thread at work on a problem only begins more of its solutions.
LEMMA InnerBegins ==
  ASSUME IInv, NEW t \in Threads, Inner(t)
  PROVE  /\ \A u \in Threads : u # t => Begun(u)' = Begun(u)
         /\ Begun(t) <= Begun(t)'
<1> DEFINE now == IF pc[t] \in Evaluating THEN Len(got[t]) + 1 ELSE Len(got[t])
           later == IF pc'[t] \in Evaluating THEN Len(got'[t]) + 1 ELSE Len(got'[t])
<1>1. pc[t] # "idle" /\ got[t] \in Seq(AnyOutcome) /\ Len(got[t]) \in Nat /\ mine[t] \in Evaluators
  BY InnerStep, Working
<1>2. \A u \in Threads : u # t => pc'[u] = pc[u] /\ got'[u] = got[u]
  BY DEF Inner, RunStdio, Eval, Boot, Booted, BootFails, Write, WriteBroken, Read, ReadEof,
         Timeout, Returns, Goto, IInv, TypeInv
<1>3. ASSUME NEW o \in AnyOutcome, Returns(t, o) PROVE now <= later
  <2>1. got'[t] = Append(got[t], o) /\ pc'[t] = "problem"
    BY <1>3 DEF Returns, Goto, IInv, TypeInv
  <2>2. Len(got'[t]) = Len(got[t]) + 1
    BY <1>1, <2>1, Push
  <2>3. later = Len(got[t]) + 1
    BY <2>1, <2>2 DEF Evaluating
  <2>4. QED
    BY <1>1, <2>3
<1>4. ASSUME RunStdio(t) PROVE now <= later
  <2>1. PICK o \in {Answer(Path(t)), Failed("timeout"), Failed("died")} : Returns(t, o)
    BY <1>4 DEF RunStdio
  <2>2. o \in AnyOutcome
    BY <1>1, Working, AnyOutcomes
  <2>3. QED
    BY <1>3, <2>1, <2>2
<1>5. ASSUME BootFails(t) \/ WriteBroken(t) \/ ReadEof(t) \/ Timeout(t) PROVE now <= later
  BY <1>3, <1>5, AnyOutcomes DEF BootFails, WriteBroken, ReadEof, Timeout
<1>6. ASSUME Read(t) PROVE now <= later
  <2>1. Head(lines[mine[t]]) \in AnyOutcome
    BY <1>1, <1>6, OwedAnswer, Working, AnyOutcomes
  <2>2. QED
    BY <1>3, <1>6, <2>1 DEF Read
<1>7. ASSUME Eval(t) \/ Boot(t) \/ Booted(t) \/ Write(t) PROVE now <= later
  <2>1. got' = got /\ pc'[t] \in Evaluating
    BY <1>7 DEF Eval, Boot, Booted, Write, Goto, Evaluating, IInv, TypeInv
  <2>2. QED
    BY <1>1, <2>1
<1> HIDE DEF now, later
<1>8. now <= later
  BY <1>4, <1>5, <1>6, <1>7 DEF Inner
<1>9. QED
  BY <1>2, <1>8 DEF Begun, now, later

\* An evaluation begins with a solution of which none had begun.
LEMMA EvalCounts ==
  ASSUME IInv, TypeInv', NEW t \in Threads, Eval(t)
  PROVE  \A w \in Evaluators : evals'[w] <= Cardinality(Started')
<1> DEFINE x == Path(t)
           w == mine[t]
<1>1. /\ pc[t] = "problem" /\ Len(got[t]) < Solutions[prob[t]]
      /\ w \in Evaluators /\ prob[t] \in Problems /\ Len(got[t]) \in Nat
      /\ Solutions[prob[t]] \in Nat /\ x = <<prob[t], Len(got[t]) + 1>>
  BY Working DEF Eval, Pending
<1>2. x \in AllPaths /\ x[1] = prob[t] /\ x[2] = Len(got[t]) + 1
  <2>1. Len(got[t]) + 1 \in 1..Solutions[prob[t]]
    BY <1>1
  <2>2. QED
    BY <1>1, <2>1 DEF AllPaths, Paths
<1>3. /\ UNCHANGED <<todo, prob, got>>
      /\ pc'[t] \in Evaluating
      /\ evals' = [evals EXCEPT ![w] = evals[w] + 1]
  BY DEF Eval, Goto, Evaluating, IInv, TypeInv
<1>4. x \notin Started
  <2>1. ~(x[2] <= Begun(t))
    BY <1>1, <1>2 DEF Begun, Evaluating
  <2>2. QED
    BY <1>2, <2>1 DEF Started, Begun
<1>5. x \in Started'
  <2>1. x[1] \notin Range(todo')
    BY <1>1, <1>2, <1>3 DEF IInv, ProblemsOK
  <2>2. ASSUME NEW u \in Threads, prob'[u] = x[1] PROVE x[2] <= Begun(u)'
    <3>1. u = t
      BY <1>1, <1>2, <1>3, <2>2, EvaluatorsAssumption DEF IInv, ProblemsOK
    <3>2. QED
      BY <1>1, <1>2, <1>3, <3>1 DEF Begun
  <2>3. QED
    BY <1>2, <2>1, <2>2 DEF Started, Begun, AllPaths
<1>6. Started \subseteq Started'
  <2>1. \A u \in Threads : prob'[u] = prob[u] /\ Begun(u) <= Begun(u)'
    <3>1. \A u \in Threads : Begun(u) \in Nat
      BY DEF Begun, IInv, TypeInv
    <3>2. QED
      BY <1>3, <3>1, InnerBegins DEF Inner
  <2>2. QED
    BY <1>3, <2>1, StartedGrows DEF Range
<1>7. /\ IsFiniteSet(Started') /\ Cardinality(Started') \in Nat
      /\ Cardinality(Started) \in Nat /\ Cardinality(Started \cup {x}) = Cardinality(Started) + 1
      /\ Cardinality(Started \cup {x}) <= Cardinality(Started')
  <2>1. Started' \subseteq AllPaths
    BY DEF Started, AllPaths
  <2>2. IsFiniteSet(Started') /\ Cardinality(Started') \in Nat
    BY <2>1, StartedFinite, FS_Subset, FS_CardinalityType
  <2>3. Cardinality(Started) \in Nat /\ Cardinality(Started \cup {x}) = Cardinality(Started) + 1
    BY <1>4, StartedFinite, FS_AddElement
  <2>4. Started \cup {x} \subseteq Started'
    BY <1>5, <1>6
  <2>5. QED
    BY <2>2, <2>3, <2>4, FS_Subset
<1>8. ASSUME NEW v \in Evaluators PROVE evals'[v] <= Cardinality(Started')
  <2>1. evals[v] \in Nat /\ evals[v] <= Cardinality(Started)
    BY DEF IInv, TypeInv, CountOK
  <2>2. evals'[v] = evals[v] \/ evals'[v] = evals[v] + 1
    BY <1>3 DEF IInv, TypeInv
  <2>3. Cardinality(Started) + 1 <= Cardinality(Started')
    BY <1>7
  <2>4. QED
    BY <1>7, <2>1, <2>2, <2>3
<1>9. QED
  BY <1>8

\* A result that is no exception has one outcome per solution; none is the mark
\* of an undecided problem.
LEMMA ResultLength ==
  ASSUME NEW p \in Problems, NEW x \in Results(p), x # Exception
  PROVE  /\ x \in Seq(UNION {Outcomes(y) : y \in Paths(p)}) /\ Len(x) = Solutions[p]
         /\ \A k \in 1..Solutions[p] : x[k] \in Outcomes(<<p, k>>)
<1> DEFINE all == UNION {Outcomes(y) : y \in Paths(p)}
<1>1. Solutions[p] \in Nat
  BY EvaluatorsAssumption
<1>2. x \in [1..Solutions[p] -> all] /\ \A k \in 1..Solutions[p] : x[k] \in Outcomes(<<p, k>>)
  BY DEF Results, ResultsOf
<1> HIDE DEF all
<1>3. x \in Seq(all) /\ Len(x) = Solutions[p]
  <2>1. \E n \in Nat : x \in [1..n -> all]
    BY <1>1, <1>2
  <2>2. x \in Seq(all)
    BY ONLY <2>1, SeqDef
  <2>3. Len(x) \in Nat /\ DOMAIN x = 1..Len(x) /\ DOMAIN x = 1..Solutions[p]
    BY <1>2, <2>2
  <2>4. Len(x) = Solutions[p]
    BY <1>1, <2>3
  <2>5. QED
    BY <2>2, <2>4
<1>4. QED
  BY <1>2, <1>3 DEF all

LEMMA UndecidedIsNoResult ==
  ASSUME NEW p \in Problems, NEW x \in Results(p)
  PROVE  x # Undecided
<1>1. /\ Undecided[1].kind = "undecided" /\ Exception[1].kind = "exception"
      /\ Undecided \in Seq({Undecided[1]}) /\ Len(Undecided) = 1
  BY DEF Undecided, Exception
<1>2. \A y : \A o \in Outcomes(y) : o.kind # "undecided" /\ o.kind # "exception"
  <2>1. \A y : Answer(y).kind = "answer"
    BY DEF Answer
  <2>2. \A o \in Failures : o.kind # "undecided" /\ o.kind # "exception"
    BY DEF Failures
  <2>3. QED
    BY <2>1, <2>2 DEF Outcomes
<1>3. ASSUME x = Undecided PROVE FALSE
  <2>1. x # Exception
    BY <1>1, <1>3
  <2>2. Solutions[p] = 1 /\ \A k \in 1..Solutions[p] : x[k] \in Outcomes(<<p, k>>)
    BY <1>1, <1>3, <2>1, ResultLength
  <2>3. x[1] \in Outcomes(<<p, 1>>)
    BY <2>2
  <2>4. QED
    BY <1>1, <1>2, <1>3, <2>3
<1>4. QED
  BY <1>3

\* A merged result adds the solutions of its problem, an exception none.
LEMMA MergeCounts ==
  ASSUME IInv, NEW r \in finished, Merge(r[1], r[2])
  PROVE  solutions' = TotalOf(Evaluated')
<1> DEFINE p == r[1]
           x == r[2]
<1>1. p \in Problems /\ x \in Results(p) /\ verdict[p] = Undecided /\ DOMAIN verdict = Problems
  BY DEF IInv, TypeInv, ProblemsOK
<1>2. /\ verdict' = [verdict EXCEPT ![p] = x]
      /\ solutions' = IF x = Exception THEN solutions ELSE solutions + Len(x)
  BY DEF Merge
<1>3. solutions = TotalOf(Evaluated) /\ p \notin Evaluated /\ Evaluated \subseteq Problems
  BY <1>1 DEF IInv, CountOK, Evaluated
<1>4. x # Undecided
  BY <1>1, UndecidedIsNoResult
<1>5. CASE x = Exception
  <2>1. Evaluated' = Evaluated
    BY <1>1, <1>2, <1>5 DEF Evaluated
  <2>2. QED
    BY <1>2, <1>3, <1>5, <2>1
<1>6. CASE x # Exception
  <2>1. Evaluated' = Evaluated \cup {p}
    BY <1>1, <1>2, <1>4, <1>6 DEF Evaluated
  <2>2. Len(x) = Solutions[p]
    BY <1>1, <1>6, ResultLength
  <2>3. QED
    BY <1>1, <1>2, <1>3, <1>6, <2>1, <2>2, TotalAdds
<1>7. QED
  BY <1>5, <1>6

LEMMA NextCount ==
  ASSUME IInv, [Next]_vars
  PROVE  CountOK'
<1>1. TypeInv' /\ \A u \in Threads : Begun(u) \in Nat /\ Begun(u) <= Begun(u)
  <2>1. \A u \in Threads : Len(got[u]) \in Nat
    BY DEF IInv, TypeInv
  <2>2. \A u \in Threads : Begun(u) \in Nat
    BY <2>1 DEF Begun
  <2>3. QED
    BY <2>2, NextType
<1>2. ASSUME UNCHANGED <<verdict, solutions>> PROVE solutions' = TotalOf(Evaluated')
  BY <1>2 DEF IInv, CountOK, Evaluated
<1>3. ASSUME NEW t \in Threads, Take(t) PROVE CountOK'
  <2>1. todo \in Seq(Problems) /\ todo # <<>> /\ Once(todo)
    BY <1>3 DEF Take, IInv, TypeInv, ProblemsOK
  <2>2. prob'[t] \in Range(todo) /\ Range(todo') \subseteq Range(todo)
    BY <1>3, <2>1, PopOnce DEF Take, IInv, TypeInv
  <2>3. \A u \in Threads : u # t => prob'[u] = prob[u] /\ Begun(u)' = Begun(u)
    BY <1>3 DEF Take, Goto, Begun, IInv, TypeInv
  <2>4. evals' = evals /\ UNCHANGED <<verdict, solutions>>
    BY <1>3 DEF Take, merging
  <2>5. Started \subseteq Started'
    BY <1>1, <2>2, <2>3, StartedGrows
  <2>6. QED
    BY <1>2, <2>4, <2>5, CountsStay DEF CountOK
<1>4. ASSUME NEW t \in Threads, Finish(t) \/ Raise(t) PROVE CountOK'
  <2>1. /\ prob'[t] = NoOne /\ todo' = todo
        /\ \A u \in Threads : u # t => prob'[u] = prob[u] /\ Begun(u)' = Begun(u)
    BY <1>4 DEF Finish, Raise, Return, Goto, Begun, IInv, TypeInv
  <2>2. evals' = evals /\ UNCHANGED <<verdict, solutions>>
    BY <1>4 DEF Finish, Raise, Return, merging
  <2>3. Started \subseteq Started'
    BY <1>1, <2>1, StartedGrows
  <2>4. QED
    BY <1>2, <2>2, <2>3, CountsStay DEF CountOK
<1>5. ASSUME NEW t \in Threads, Inner(t) PROVE CountOK'
  <2>1. UNCHANGED <<todo, prob, verdict, solutions>>
    BY <1>5, InnerStep DEF merging
  <2>2. \A w \in Evaluators : evals'[w] <= Cardinality(Started')
    <3>1. CASE Eval(t)
      BY <1>1, <3>1, EvalCounts
    <3>2. CASE ~Eval(t)
      <4>1. evals' = evals
        BY <1>5, <3>2 DEF Inner, RunStdio, Boot, Booted, BootFails, Write, WriteBroken, Read,
                          ReadEof, Timeout
      <4>2. Started \subseteq Started'
        BY <1>1, <1>5, <2>1, InnerBegins, StartedGrows
      <4>3. QED
        BY <4>1, <4>2, CountsStay
    <3>3. QED
      BY <3>1, <3>2
  <2>3. QED
    BY <1>2, <2>1, <2>2 DEF CountOK
<1>6. ASSUME UNCHANGED <<todo, pc, prob, got, evals>>
      PROVE  \A w \in Evaluators : evals'[w] <= Cardinality(Started')
  <2>1. Started' = Started
    BY <1>6 DEF Started
  <2>2. QED
    BY <1>6, <2>1, CountsStay
<1>7. ASSUME NEW w \in Evaluators, Ready(w) \/ Serve(w) \/ Die(w) PROVE CountOK'
  BY <1>2, <1>6, <1>7 DEF Ready, Serve, Die, workers, merging, CountOK
<1>8. CASE Main
  <2>1. UNCHANGED <<todo, pc, prob, got, evals>>
    BY <1>8 DEF Main, Merge, Collected, Close, WriteReport, WriteDivergences, workers
  <2>2. solutions' = TotalOf(Evaluated')
    <3>1. ASSUME NEW r \in finished, Merge(r[1], r[2]) PROVE solutions' = TotalOf(Evaluated')
      BY <3>1, MergeCounts
    <3>2. CASE Collected \/ Close \/ WriteReport \/ WriteDivergences
      BY <1>2, <3>2 DEF Collected, Close, WriteReport, WriteDivergences, merging
    <3>3. QED
      BY <1>8, <3>1, <3>2 DEF Main
  <2>3. QED
    BY <1>6, <2>1, <2>2 DEF CountOK
<1>9. CASE UNCHANGED vars
  BY <1>2, <1>6, <1>9 DEF vars, workers, merging, CountOK
<1>10. QED
  BY <1>3, <1>4, <1>5, <1>7, <1>8, <1>9 DEF Next, Step, Inner

\* The report, once written, stays what was counted.
LEMMA NextReport ==
  ASSUME IInv, [Next]_vars
  PROVE  ReportOK'
<1>1. CASE UNCHANGED merging
  BY <1>1 DEF IInv, ReportOK, Written, Reported, merging
<1>2. ASSUME NEW r \in finished, Merge(r[1], r[2]) PROVE ReportOK'
  BY <1>2 DEF Merge, ReportOK, Written
<1>3. CASE Collected
  BY <1>3 DEF Collected, ReportOK, Written
<1>4. CASE WriteReport
  BY <1>4 DEF WriteReport, ReportOK, Reported
<1>5. CASE WriteDivergences
  BY <1>5 DEF WriteDivergences, IInv, ReportOK, Written, Reported
<1>6. CASE Close
  BY <1>1, <1>6 DEF Close
<1>7. ASSUME NEW t \in Threads, Step(t) \/ Raise(t) PROVE UNCHANGED merging
  BY <1>7 DEF Step, Take, Finish, Raise, Return, RunStdio, Eval, Boot, Booted, BootFails,
              Write, WriteBroken, Read, ReadEof, Timeout
<1>8. ASSUME NEW w \in Evaluators, Ready(w) \/ Serve(w) \/ Die(w) PROVE UNCHANGED merging
  BY <1>8 DEF Ready, Serve, Die
<1>9. QED
  BY <1>1, <1>2, <1>3, <1>4, <1>5, <1>6, <1>7, <1>8 DEF Next, Main, vars
-----------------------------------------------------------------------------
(* What every behaviour satisfies. *)

LEMMA InitInv == Init => IInv
<1>1. SUFFICES ASSUME Init PROVE IInv
  OBVIOUS
<1>2. /\ todo \in Seq(Problems) /\ Once(todo) /\ Range(todo) = Problems
      /\ pool \in Seq(Evaluators) /\ Once(pool) /\ Range(pool) = Evaluators
  BY <1>1, SetToSeqLists, EvaluatorsAssumption DEF Init
<1>3. /\ <<>> \in Seq(AnyOutcome) /\ <<>> \in Seq(Problems \X Nat)
      /\ <<>> \in Seq(AnyOutcome \cup {Eof}) /\ Len(<<>>) = 0
      /\ Gone \in [state : {"none", "booting", "ready", "dead"}, served : Nat]
      /\ Gone.served = 0 /\ Gone.state = "none"
  BY DEF Gone
<1>4. TypeInv
  BY <1>1, <1>2, <1>3 DEF Init, TypeInv
<1>5. HoldersOK /\ ProblemsOK
  BY <1>1, <1>2, EvaluatorsAssumption DEF Init, HoldersOK, ProblemsOK
<1>6. OutcomesOK /\ PipesOK
  BY <1>1, <1>3 DEF Init, OutcomesOK, PipesOK, Quiet, Evaluating
<1>7. RebootOK
  <2>1. Used(0) = 0
    BY DEF Used
  <2>2. \A w \in Evaluators : child[w].served = 0 /\ evals[w] = 0
    BY <1>1, <1>3 DEF Init
  <2>3. \A t \in Threads : pc[t] \notin Preparing
    BY <1>1 DEF Init, Preparing
  <2>4. QED
    BY <2>1, <2>2, <2>3 DEF RebootOK
<1>8. CountOK
  <2>1. \A w \in Evaluators : evals[w] <= Cardinality(Started)
    BY <1>1, StartedFinite DEF Init
  <2>2. UNION {Paths(p) : p \in Evaluated} = {}
    BY <1>1 DEF Init, Evaluated
  <2>3. TotalOf(Evaluated) = 0
    BY <2>2, FS_EmptySet DEF TotalOf
  <2>4. QED
    BY <1>1, <2>1, <2>3 DEF Init, CountOK
<1>9. ReportOK
  BY <1>1 DEF Init, ReportOK, Written
<1>10. QED
  BY <1>4, <1>5, <1>6, <1>7, <1>8, <1>9 DEF IInv

LEMMA NextInv == IInv /\ [Next]_vars => IInv'
BY NextType, NextHolders, NextOutcomes, NextPipes, NextReboot, NextCount, NextReport DEF IInv

LEMMA EvaluationInvariant == Spec => []IInv
BY InitInv, NextInv, PTL DEF Spec

\* Every variable stays in its range: a thread never has more outcomes than its
\* problem has solutions, each of a solution of that problem, and the counters
\* never pass the number of all solutions.
THEOREM TypeCorrect == Spec => []TypeOK
<1>1. ASSUME IInv PROVE TypeOK
  <2>1. \A w \in Evaluators : evals[w] \in 0..Total /\ child[w].served \in 0..Total
    <3>1. ASSUME NEW w \in Evaluators
          PROVE  evals[w] \in 0..Total /\ child[w].served \in 0..Total
      <4>1. /\ evals[w] \in Nat /\ child[w].served \in Nat
            /\ child[w].served <= evals[w] /\ evals[w] <= Cardinality(Started)
        BY <1>1 DEF IInv, TypeInv, RebootOK, CountOK
      <4>2. QED
        BY <4>1, StartedFinite
    <3>2. QED
      BY <3>1
  <2>2. evals \in [Evaluators -> 0..Total]
    BY <1>1, <2>1 DEF IInv, TypeInv
  <2>3. child \in [Evaluators -> [state : {"none", "booting", "ready", "dead"}, served : 0..Total]]
    <3>1. ASSUME NEW w \in Evaluators
          PROVE  child[w] \in [state : {"none", "booting", "ready", "dead"}, served : 0..Total]
      <4>1. child[w] \in [state : {"none", "booting", "ready", "dead"}, served : Nat]
        BY <1>1 DEF IInv, TypeInv
      <4>2. QED
        BY <2>1, <4>1
    <3>2. QED
      BY <1>1, <3>1 DEF IInv, TypeInv
  <2>4. solutions \in 0..Total
    <3>1. Evaluated \subseteq Problems
      BY DEF Evaluated
    <3>2. TotalOf(Evaluated) \in Nat /\ TotalOf(Evaluated) <= Total /\ Total \in Nat
      BY <3>1, SomePathsFinite, TotalMonotone, StartedFinite DEF Total
    <3>3. QED
      BY <1>1, <3>2 DEF IInv, CountOK
  <2>5. ASSUME NEW t \in Threads
        PROVE  /\ prob[t] = NoOne => got[t] = <<>>
               /\ prob[t] # NoOne =>
                    /\ Len(got[t]) <= Solutions[prob[t]]
                    /\ \A k \in DOMAIN got[t] :
                         got[t][k] \in UNION {Outcomes(x) : x \in Paths(prob[t])}
    <3>1. CASE prob[t] = NoOne
      BY <1>1, <3>1 DEF IInv, ProblemsOK, OutcomesOK
    <3>2. CASE prob[t] # NoOne
      <4>1. pc[t] # "idle"
        BY <1>1, <3>2 DEF IInv, ProblemsOK
      <4>2. /\ prob[t] \in Problems /\ got[t] \in Seq(AnyOutcome) /\ Len(got[t]) \in Nat
            /\ Solutions[prob[t]] \in Nat /\ Len(got[t]) <= Solutions[prob[t]]
        BY <1>1, <4>1, Working
      <4>3. ASSUME NEW k \in DOMAIN got[t]
            PROVE  got[t][k] \in Outcomes(<<prob[t], k>>) /\ <<prob[t], k>> \in Paths(prob[t])
        <5>1. k \in 1..Solutions[prob[t]]
          BY <4>2
        <5>2. QED
          BY <1>1, <4>1, <5>1 DEF IInv, OutcomesOK, Paths
      <4>4. QED
        BY <3>2, <4>2, <4>3
    <3>3. QED
      BY <3>1, <3>2
  <2>6. QED
    BY <1>1, <2>2, <2>3, <2>4, <2>5 DEF IInv, TypeInv, TypeOK, Evaluating
<1>2. QED
  BY <1>1, EvaluationInvariant, PTL

\* No process is asked for more than REBOOT_EVERY evaluations, whatever failures
\* reboot it in between.
THEOREM NotOverused == Spec => []NeverOverused
<1>1. ASSUME IInv PROVE NeverOverused
  <2>1. SUFFICES ASSUME RebootEvery > 0, NEW w \in Evaluators
                 PROVE  child[w].served <= RebootEvery
    BY DEF NeverOverused
  <2>2. child[w].served \in Nat /\ evals[w] \in Nat /\ child[w].served <= Used(evals[w])
    BY <1>1, <2>1 DEF IInv, TypeInv, RebootOK
  <2>3. Used(evals[w]) \in 0..RebootEvery
    BY <2>1, <2>2, UsedCounts
  <2>4. QED
    BY <2>2, <2>3, EvaluatorsAssumption
<1>2. QED
  BY <1>1, EvaluationInvariant, PTL

\* An evaluator is in the pool or with one thread; none is lost or shared.
THEOREM PoolKept == Spec => []PoolConserved
<1>1. ASSUME IInv PROVE PoolConserved
  <2>1. \A t, u \in Threads : mine[t] # NoOne /\ mine[t] = mine[u] => t = u
    BY <1>1 DEF IInv, HoldersOK
  <2>2. ASSUME main = "collect", NEW w \in Evaluators
        PROVE  Cardinality({i \in DOMAIN pool : pool[i] = w})
                 + Cardinality({t \in Threads : mine[t] = w}) = 1
    <3> DEFINE queued == {i \in DOMAIN pool : pool[i] = w}
               holding == {t \in Threads : mine[t] = w}
    <3>1. CASE w \in Range(pool)
      <4>1. holding = {}
        BY <1>1, <3>1 DEF IInv, HoldersOK
      <4>2. PICK i \in DOMAIN pool : pool[i] = w
        BY <3>1 DEF Range
      <4>3. queued = {i}
        BY <1>1, <4>2 DEF IInv, HoldersOK, Once
      <4>4. Cardinality({i}) = 1 /\ Cardinality({}) = 0
        BY FS_Singleton, FS_EmptySet
      <4>5. QED
        BY <4>1, <4>3, <4>4
    <3>2. CASE w \notin Range(pool)
      <4>1. queued = {}
        BY <3>2 DEF Range
      <4>2. PICK t \in Threads : mine[t] = w
        BY <1>1, <2>2, <3>2 DEF IInv, HoldersOK
      <4>3. holding = {t}
        BY <2>1, <4>2, EvaluatorsAssumption
      <4>4. Cardinality({t}) = 1 /\ Cardinality({}) = 0
        BY FS_Singleton, FS_EmptySet
      <4>5. QED
        BY <4>1, <4>3, <4>4
    <3>3. QED
      BY <3>1, <3>2
  <2>3. QED
    BY <2>1, <2>2 DEF PoolConserved
<1>2. QED
  BY <1>1, EvaluationInvariant, PTL

\* The written report has every problem that was evaluated, and its total is
\* the sum over them.
THEOREM ReportWhole == Spec => []ReportComplete
<1>1. ASSUME IInv, Written PROVE ReportComplete
  <2>1. file.problems = Reported /\ file.solutions = TotalOf(Evaluated)
    BY <1>1 DEF IInv, ReportOK, CountOK
  <2>2. ASSUME NEW p \in Problems
        PROVE  p \in Reported <=> (verdict[p] # Exception /\ Solutions[p] > 0)
    <3>1. verdict[p] # Undecided /\ verdict[p] \in Results(p)
      BY <1>1 DEF IInv, TypeInv, ProblemsOK, Written
    <3>2. CASE verdict[p] = Exception
      BY <3>2 DEF Reported
    <3>3. CASE verdict[p] # Exception
      <4>1. /\ verdict[p] \in Seq(UNION {Outcomes(y) : y \in Paths(p)})
            /\ Len(verdict[p]) = Solutions[p] /\ Solutions[p] \in Nat
        BY <3>1, <3>3, ResultLength, EvaluatorsAssumption
      <4>2. verdict[p] = <<>> <=> Solutions[p] = 0
        BY <4>1
      <4>3. QED
        BY <3>1, <3>3, <4>1, <4>2 DEF Reported
    <3>4. QED
      BY <3>2, <3>3
  <2>3. Reported = {p \in Problems : verdict[p] # Exception /\ Solutions[p] > 0}
    BY <2>2 DEF Reported
  <2>4. UNION {Paths(p) : p \in Reported} = UNION {Paths(p) : p \in Evaluated}
    <3>1. Reported \subseteq Evaluated
      BY DEF Reported, Evaluated
    <3>2. ASSUME NEW p \in Evaluated, Paths(p) # {} PROVE p \in Reported
      <4>1. p \in Problems /\ Solutions[p] > 0
        BY <3>2, PathsCount, EvaluatorsAssumption DEF Evaluated
      <4>2. QED
        BY <2>3, <4>1 DEF Evaluated
    <3>3. QED
      BY <3>1, <3>2
  <2>5. QED
    BY <2>1, <2>3, <2>4 DEF ReportComplete, TotalOf
<1>2. IInv => ReportComplete
  BY <1>1 DEF ReportComplete
<1>3. QED
  BY <1>2, EvaluationInvariant, PTL
-----------------------------------------------------------------------------
(* The refinement. *)

\* Only the merge decides, and it decides a problem that had no verdict, by a
\* result of its own.
LEMMA StepDecides ==
  ASSUME IInv, [Next]_vars
  PROVE  [Verdicts!VNext]_verdict
<1>1. ASSUME NEW r \in finished, Merge(r[1], r[2]) PROVE Verdicts!VNext
  <2>1. r[1] \in Problems /\ r[2] \in Results(r[1]) /\ verdict[r[1]] = Undecided
    BY DEF IInv, TypeInv, ProblemsOK
  <2>2. verdict' = [verdict EXCEPT ![r[1]] = r[2]] /\ DOMAIN verdict = Problems
    BY <1>1 DEF Merge, IInv, TypeInv
  <2>3. Verdicts!Decide(r[1])
    BY <2>1, <2>2 DEF Verdicts!Decide
  <2>4. QED
    BY <2>1, <2>3 DEF Verdicts!VNext
<1>2. ASSUME NEW t \in Threads, Step(t) \/ Raise(t) PROVE verdict' = verdict
  BY <1>2 DEF Step, Take, Finish, Raise, Return, RunStdio, Eval, Boot, Booted, BootFails,
              Write, WriteBroken, Read, ReadEof, Timeout, merging
<1>3. ASSUME NEW w \in Evaluators, Ready(w) \/ Serve(w) \/ Die(w) PROVE verdict' = verdict
  BY <1>3 DEF Ready, Serve, Die, merging
<1>4. CASE Collected \/ Close \/ WriteReport \/ WriteDivergences
  BY <1>4 DEF Collected, Close, WriteReport, WriteDivergences, merging
<1>5. QED
  BY <1>1, <1>2, <1>3, <1>4 DEF Next, Main, vars, merging

\* The evaluation implements OneVerdict: every problem is decided at most once,
\* by outcomes that are answers to its own solutions or failures, although the
\* answers on a pipe carry no name.
THEOREM DecidesOnce == Spec => Verdicts!VSpec
<1>1. Init => Verdicts!VInit
  BY DEF Init, Verdicts!VInit
<1>2. IInv /\ [Next]_vars => [Verdicts!VNext]_verdict
  BY StepDecides
<1>3. QED
  BY <1>1, <1>2, EvaluationInvariant, PTL DEF Spec, Verdicts!VSpec
=============================================================================

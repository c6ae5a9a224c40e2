--------------------------- MODULE WarmEvaluators ---------------------------
(***************************************************************************)
(* The interpreted evaluation of cp_harness: threads take problems, each    *)
(* holds one WarmLeanEval while it works, and evaluates the solutions of    *)
(* its problem one after another in that evaluator's Lean process.  The     *)
(* main thread merges what the threads return, closes the evaluators and    *)
(* writes the report.                                                       *)
(*                                                                          *)
(* A request is a path on the child's stdin and an answer carries no name:  *)
(* only the discipline of killing a child that owes an answer keeps answers *)
(* and solutions together.                                                  *)
(***************************************************************************)
EXTENDS Naturals, Sequences, FiniteSets, SequencesExt

CONSTANTS
  Threads,      \* of the executor
  Evaluators,   \* the WarmLeanEval objects; one per thread
  Problems,
  Stdio,        \* problems whose solutions run in a process of their own
  Solutions,    \* how many solutions with status ok each problem has
  RebootEvery   \* REBOOT_EVERY; 0 disables

NoOne == "none"

ASSUME EvaluatorsAssumption ==
  /\ IsFiniteSet(Threads) /\ IsFiniteSet(Evaluators) /\ IsFiniteSet(Problems)
  /\ Cardinality(Evaluators) = Cardinality(Threads)
  /\ NoOne \notin Threads \cup Evaluators \cup Problems
  /\ Stdio \subseteq Problems
  /\ Solutions \in [Problems -> Nat]
  /\ RebootEvery \in Nat

VARIABLES
  todo,      \* problems no thread has taken
  pool,      \* the queue of evaluators
  pc,        \* where each thread is
  mine,      \* the evaluator a thread holds
  prob,      \* the problem it works on
  got,       \* the outcomes of that problem's solutions so far
  finished,  \* what threads returned and the main thread has not merged
  bootLock,  \* WarmLeanEval._boot_lock
  evals,     \* _evals of each evaluator
  child,     \* each evaluator's process
  inbox,     \* paths written to it and not evaluated
  lines,     \* _q: what its reader thread has forwarded
  main,      \* where the main thread is
  verdict,   \* what it merged for each problem
  solutions, \* agg["solutions"]
  file       \* eval_report.json: the problems in it and its total

workers == <<todo, pool, pc, mine, prob, got, bootLock, evals>>
backends == <<child, inbox, lines>>
merging == <<main, verdict, solutions, file>>
vars == <<workers, backends, finished, merging>>

\* A solution is known by its problem and number.
Paths(p) == {p} \X (1..Solutions[p])
Answer(path) == [kind |-> "answer", of |-> path]
Failures == [kind : {"timeout", "died", "boot failed"}]
Failed(why) == [kind |-> why]
Outcomes(path) == {Answer(path)} \cup Failures

\* A problem gives one outcome per solution, or one exception for them all.
Exception == <<[kind |-> "exception"]>>
ResultsOf ==
  [p \in Problems |->
    {Exception} \cup
    {r \in [1..Solutions[p] -> UNION {Outcomes(x) : x \in Paths(p)}] :
       \A k \in 1..Solutions[p] : r[k] \in Outcomes(<<p, k>>)}]
Results(p) == ResultsOf[p]
Undecided == <<[kind |-> "undecided"]>>

Gone == [state |-> "none", served |-> 0]
Eof == [kind |-> "eof"]

Init ==
  /\ todo = SetToSeq(Problems) /\ pool = SetToSeq(Evaluators)
  /\ pc = [t \in Threads |-> "idle"]
  /\ mine = [t \in Threads |-> NoOne] /\ prob = [t \in Threads |-> NoOne]
  /\ got = [t \in Threads |-> <<>>]
  /\ finished = {}
  /\ bootLock = NoOne
  /\ evals = [w \in Evaluators |-> 0]
  /\ child = [w \in Evaluators |-> Gone]
  /\ inbox = [w \in Evaluators |-> <<>>] /\ lines = [w \in Evaluators |-> <<>>]
  /\ main = "collect"
  /\ verdict = [p \in Problems |-> Undecided]
  /\ solutions = 0
  /\ file = [problems |-> {}, solutions |-> 0]

Goto(t, l) == pc' = [pc EXCEPT ![t] = l]

\* The process ends, and with it both pipes.
Kill(w) ==
  /\ child' = [child EXCEPT ![w] = Gone]
  /\ inbox' = [inbox EXCEPT ![w] = <<>>] /\ lines' = [lines EXCEPT ![w] = <<>>]

\* Mutant: an outcome is recorded twice.
ReturnsTwice(t, outcome) ==
  /\ got' = [got EXCEPT ![t] = @ \o <<outcome, outcome>>]
  /\ Goto(t, "problem")

\* eval returns; the next solution is due.
Returns(t, outcome) ==
  /\ got' = [got EXCEPT ![t] = Append(@, outcome)]
  /\ Goto(t, "problem")
-----------------------------------------------------------------------------
(* A thread of the executor: work(). *)

Take(t) ==
  /\ pc[t] = "idle" /\ todo # <<>> /\ pool # <<>>
  /\ prob' = [prob EXCEPT ![t] = Head(todo)] /\ todo' = Tail(todo)
  /\ mine' = [mine EXCEPT ![t] = Head(pool)] /\ pool' = Tail(pool)
  /\ got' = [got EXCEPT ![t] = <<>>]
  /\ Goto(t, "problem")
  /\ UNCHANGED <<bootLock, evals, backends, finished, merging>>

\* return and finally: the evaluator goes back whatever happened.
Return(t, result) ==
  /\ finished' = finished \cup {<<prob[t], result>>}
  /\ pool' = Append(pool, mine[t])
  /\ mine' = [mine EXCEPT ![t] = NoOne] /\ prob' = [prob EXCEPT ![t] = NoOne]
  /\ got' = [got EXCEPT ![t] = <<>>]
  /\ Goto(t, "idle")
  /\ UNCHANGED <<todo, bootLock, evals, backends, merging>>

Finish(t) ==
  /\ pc[t] = "problem" /\ Len(got[t]) = Solutions[prob[t]]
  /\ Return(t, got[t])

\* Mutant: the evaluator is put back on the normal path only.
RaiseKeeping(t) ==
  /\ pc[t] = "problem"
  /\ finished' = finished \cup {<<prob[t], Exception>>}
  /\ mine' = [mine EXCEPT ![t] = NoOne] /\ prob' = [prob EXCEPT ![t] = NoOne]
  /\ got' = [got EXCEPT ![t] = <<>>]
  /\ Goto(t, "idle")
  /\ UNCHANGED <<todo, pool, bootLock, evals, backends, merging>>

\* Unreadable metadata, a harness that cannot be built or written, ...
Raise(t) == pc[t] = "problem" /\ Return(t, Exception)

Pending(t) == pc[t] = "problem" /\ Len(got[t]) < Solutions[prob[t]]
Path(t) == <<prob[t], Len(got[t]) + 1>>

\* _run_process: a process per test.
RunStdio(t) ==
  /\ Pending(t) /\ prob[t] \in Stdio
  /\ \E o \in {Answer(Path(t)), Failed("timeout"), Failed("died")} : Returns(t, o)
  /\ UNCHANGED <<todo, pool, mine, prob, bootLock, evals, backends, finished, merging>>

\* Mutant: one evaluation more before the reboot.
DueLate(w) == RebootEvery > 0 /\ evals[w] > 0 /\ evals[w] % (RebootEvery + 1) = 0

Due(w) == RebootEvery > 0 /\ evals[w] > 0 /\ evals[w] % RebootEvery = 0

\* The first lines of eval: the scheduled reboot, the count, the check of the
\* process.  poll() may not see yet that a child has died.
Eval(t) ==
  LET w == mine[t] IN
  /\ Pending(t) /\ prob[t] \notin Stdio
  /\ IF Due(w) THEN Kill(w) ELSE UNCHANGED backends
  /\ evals' = [evals EXCEPT ![w] = @ + 1]
  /\ \/ child'[w].state \in {"none", "dead"} /\ Goto(t, "boot")
     \/ child'[w].state \in {"ready", "dead"} /\ Goto(t, "write")
  /\ UNCHANGED <<todo, pool, mine, prob, got, bootLock, finished, merging>>

\* _start, up to its loop: a new process, queue and reader thread.
Boot(t) ==
  LET w == mine[t] IN
  /\ pc[t] = "boot" /\ bootLock = NoOne
  /\ bootLock' = t
  /\ child' = [child EXCEPT ![w] = [state |-> "booting", served |-> 0]]
  /\ inbox' = [inbox EXCEPT ![w] = <<>>] /\ lines' = [lines EXCEPT ![w] = <<>>]
  /\ Goto(t, "booting")
  /\ UNCHANGED <<todo, pool, mine, prob, got, evals, finished, merging>>

\* The line READY; the child may have died since.
Booted(t) ==
  /\ pc[t] = "booting" /\ child[mine[t]].state # "booting"
  /\ Goto(t, "write")
  /\ bootLock' = NoOne
  /\ UNCHANGED <<todo, pool, mine, prob, got, evals, backends, finished, merging>>

\* The boot deadline, the end of the stream, or no process at all.
BootFails(t) ==
  /\ pc[t] = "booting" /\ child[mine[t]].state = "booting"
  /\ Kill(mine[t])
  /\ bootLock' = NoOne
  /\ Returns(t, Failed("boot failed"))
  /\ UNCHANGED <<todo, pool, mine, prob, evals, finished, merging>>

Write(t) ==
  LET w == mine[t] IN
  /\ pc[t] = "write" /\ child[w].state \in {"ready", "dead"}
  /\ inbox' = [inbox EXCEPT ![w] = Append(@, Path(t))]
  /\ child' = [child EXCEPT ![w].served = @ + 1]
  /\ Goto(t, "read")
  /\ UNCHANGED <<todo, pool, mine, prob, got, bootLock, evals, lines, finished, merging>>

WriteBroken(t) ==
  /\ pc[t] = "write" /\ child[mine[t]].state = "dead"
  /\ Kill(mine[t])
  /\ Returns(t, Failed("died"))
  /\ UNCHANGED <<todo, pool, mine, prob, bootLock, evals, finished, merging>>

\* Everything between BEGIN and END; half an answer counts as none.
Read(t) ==
  LET w == mine[t] IN
  /\ pc[t] = "read" /\ lines[w] # <<>> /\ Head(lines[w]) # Eof
  /\ lines' = [lines EXCEPT ![w] = Tail(@)]
  /\ Returns(t, Head(lines[w]))
  /\ UNCHANGED <<todo, pool, mine, prob, bootLock, evals, child, inbox, finished, merging>>

ReadEof(t) ==
  LET w == mine[t] IN
  /\ pc[t] = "read" /\ lines[w] # <<>> /\ Head(lines[w]) = Eof
  /\ Kill(w)
  /\ Returns(t, Failed("died"))
  /\ UNCHANGED <<todo, pool, mine, prob, bootLock, evals, finished, merging>>

\* Mutant: the child that owes an answer stays.
TimeoutOnly(t) ==
  /\ pc[t] = "read" /\ lines[mine[t]] = <<>>
  /\ Returns(t, Failed("timeout"))
  /\ UNCHANGED <<todo, pool, mine, prob, bootLock, evals, backends, finished, merging>>

\* The deadline: q.get still hands out what is there.
Timeout(t) ==
  /\ pc[t] = "read" /\ lines[mine[t]] = <<>>
  /\ Kill(mine[t])
  /\ Returns(t, Failed("timeout"))
  /\ UNCHANGED <<todo, pool, mine, prob, bootLock, evals, finished, merging>>

Step(t) ==
  \/ Take(t) \/ Finish(t) \/ RunStdio(t) \/ Eval(t)
  \/ Boot(t) \/ Booted(t) \/ BootFails(t)
  \/ Write(t) \/ WriteBroken(t) \/ Read(t) \/ ReadEof(t) \/ Timeout(t)
-----------------------------------------------------------------------------
(* The Lean process of an evaluator: runEvalLoop. *)

Ready(w) ==
  /\ child[w].state = "booting"
  /\ child' = [child EXCEPT ![w].state = "ready"]
  /\ UNCHANGED <<workers, inbox, lines, finished, merging>>

Serve(w) ==
  /\ child[w].state = "ready" /\ inbox[w] # <<>>
  /\ lines' = [lines EXCEPT ![w] = Append(@, Answer(Head(inbox[w])))]
  /\ inbox' = [inbox EXCEPT ![w] = Tail(@)]
  /\ UNCHANGED <<workers, child, finished, merging>>

Die(w) ==
  /\ child[w].state = "ready"
  /\ child' = [child EXCEPT ![w].state = "dead"]
  /\ lines' = [lines EXCEPT ![w] = Append(@, Eof)]
  /\ UNCHANGED <<workers, inbox, finished, merging>>
-----------------------------------------------------------------------------
(* The main thread: evaluate(). *)

\* Mutant: the number of the last problem instead of the sum.
MergeLast(p, r) ==
  /\ main = "collect" /\ <<p, r>> \in finished
  /\ finished' = finished \ {<<p, r>>}
  /\ verdict' = [verdict EXCEPT ![p] = r]
  /\ solutions' = IF r = Exception THEN solutions ELSE Len(r)
  /\ UNCHANGED <<workers, backends, main, file>>

Merge(p, r) ==
  /\ main = "collect" /\ <<p, r>> \in finished
  /\ finished' = finished \ {<<p, r>>}
  /\ verdict' = [verdict EXCEPT ![p] = r]
  /\ solutions' = IF r = Exception THEN solutions ELSE solutions + Len(r)
  /\ UNCHANGED <<workers, backends, main, file>>

\* The executor has shut down; the pool is drained.
Collected ==
  /\ main = "collect"
  /\ \A p \in Problems : verdict[p] # Undecided
  /\ main' = "close"
  /\ UNCHANGED <<workers, backends, finished, verdict, solutions, file>>

Close ==
  /\ main = "close" /\ pool # <<>>
  /\ Kill(Head(pool))
  /\ pool' = Tail(pool)
  /\ UNCHANGED <<todo, pc, mine, prob, got, bootLock, evals, finished, merging>>

Reported == {p \in Problems : verdict[p] \notin {Undecided, Exception, <<>>}}

WriteReport ==
  /\ main = "close" /\ pool = <<>>
  /\ file' = [problems |-> Reported, solutions |-> solutions]
  /\ main' = "divergences"
  /\ UNCHANGED <<workers, backends, finished, verdict, solutions>>

\* _write_divergences counts by d["classification"], which the divergence of an
\* exception lacks: it raises, and neither the divergences nor the summary
\* appear.
WriteDivergences ==
  /\ main = "divergences"
  /\ main' = IF \E p \in Problems : verdict[p] = Exception THEN "raised" ELSE "done"
  /\ UNCHANGED <<workers, backends, finished, verdict, solutions, file>>

Main ==
  \/ \E r \in finished : Merge(r[1], r[2])
  \/ Collected \/ Close \/ WriteReport \/ WriteDivergences

Next ==
  \/ \E t \in Threads : Step(t) \/ Raise(t)
  \/ \E w \in Evaluators : Ready(w) \/ Serve(w) \/ Die(w)
  \/ Main

\* Every wait of a thread has a deadline; a child need not answer.
Fairness == (\A t \in Threads : WF_vars(Step(t))) /\ WF_vars(Main)

Spec == Init /\ [][Next]_vars /\ Fairness
-----------------------------------------------------------------------------
\* The number of solutions of some problems.
TotalOf(ps) == Cardinality(UNION {Paths(p) : p \in ps})
Total == TotalOf(Problems)

\* Every variable is in its range; in particular no thread has more outcomes than
\* its problem has solutions.
TypeOK ==
  /\ todo \in Seq(Problems) /\ pool \in Seq(Evaluators)
  /\ pc \in [Threads -> {"idle", "problem", "boot", "booting", "write", "read"}]
  /\ mine \in [Threads -> Evaluators \cup {NoOne}]
  /\ prob \in [Threads -> Problems \cup {NoOne}]
  /\ \A t \in Threads :
       /\ prob[t] = NoOne => got[t] = <<>>
       /\ prob[t] # NoOne =>
            /\ Len(got[t]) <= Solutions[prob[t]]
            /\ \A k \in DOMAIN got[t] : got[t][k] \in UNION {Outcomes(x) : x \in Paths(prob[t])}
  /\ \A r \in finished : r[1] \in Problems /\ r[2] \in Results(r[1])
  /\ bootLock \in Threads \cup {NoOne}
  /\ evals \in [Evaluators -> 0..Total]
  /\ child \in [Evaluators -> [state : {"none", "booting", "ready", "dead"}, served : 0..Total]]
  /\ main \in {"collect", "close", "divergences", "done", "raised"}
  /\ \A p \in Problems : verdict[p] \in Results(p) \cup {Undecided}
  /\ solutions \in 0..Total

\* The evaluation implements OneVerdict over problems: each is decided once, by
\* outcomes that are answers to its own solutions or failures, although answers
\* carry no name; and every problem is decided, whatever the children do.
Verdicts == INSTANCE OneVerdict WITH Items <- Problems, Allowed <- Results
OneVerdictEach == Verdicts!VSpec /\ Verdicts!VDone

\* No process is asked for more than REBOOT_EVERY evaluations, although _evals
\* counts on through the reboots that failures cause.
NeverOverused ==
  RebootEvery > 0 => \A w \in Evaluators : child[w].served <= RebootEvery

\* An evaluator is in the pool or with one thread, never both, never lost: no two
\* threads talk to one process, and the drain of the pool reaches every one.
PoolConserved ==
  /\ \A t, u \in Threads : mine[t] # NoOne /\ mine[t] = mine[u] => t = u
  /\ main = "collect" =>
       \A w \in Evaluators :
         Cardinality({i \in DOMAIN pool : pool[i] = w})
           + Cardinality({t \in Threads : mine[t] = w}) = 1

Written == main \in {"divergences", "done", "raised"}

\* The report is complete before anything can raise: it has every problem that
\* was evaluated and its total is the sum over them, however many problems
\* failed and in whatever order the results came.
ReportComplete ==
  Written =>
    /\ file.problems = {p \in Problems : verdict[p] # Exception /\ Solutions[p] > 0}
    /\ file.solutions = TotalOf(file.problems)
=============================================================================

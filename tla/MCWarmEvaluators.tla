-------------------------- MODULE MCWarmEvaluators --------------------------
(* Two threads and evaluators over three problems: one with three solutions, one *)
(* with a single solution, one whose solutions run without an evaluator.       *)
EXTENDS WarmEvaluators

CONSTANTS t1, t2, w1, w2

MCThreads == {t1, t2}
MCEvaluators == {w1, w2}
MCProblems == {"a", "b", "s"}
MCStdio == {"s"}
MCSolutions == [p \in MCProblems |-> IF p = "a" THEN 3 ELSE 1]
=============================================================================

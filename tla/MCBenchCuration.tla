-------------------------- MODULE MCBenchCuration ---------------------------
(* Three candidates for a benchmark of two, killed at most twice: one verdict *)
(* can be lost, one kept and one under way.                                   *)
EXTENDS BenchCuration
=============================================================================

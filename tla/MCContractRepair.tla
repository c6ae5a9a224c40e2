-------------------------- MODULE MCContractRepair --------------------------
(* Two inputs, one mutant, up to two regenerations, with no threshold or one  *)
(* that demands that every effective mutant is killed.                        *)
EXTENDS ContractRepair

MCMinScores == {NoScore, <<1, 1>>}
=============================================================================

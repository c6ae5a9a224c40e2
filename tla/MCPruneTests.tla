---------------------------- MODULE MCPruneTests ----------------------------
(* Four cases of every combination of kinds, one of them unparsable. *)
EXTENDS PruneTests

MCCases == 1..4
MCUnparsable == {2}
=============================================================================

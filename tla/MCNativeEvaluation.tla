------------------------- MODULE MCNativeEvaluation -------------------------
(* Four harnesses, three of them solutions of one problem, with every          *)
(* combination of fates, chunk sizes and link limits.                          *)
EXTENDS NativeEvaluation

MCProblemOf == <<"p", "p", "p", "q">>
=============================================================================

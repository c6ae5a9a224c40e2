----------------------------- MODULE MCEmission -----------------------------
(* Instances of Emission: every call graph over three functions, and files in  *)
(* which functions surround a class and a top-level statement.                 *)
EXTENDS Emission

MCNames == 1..4

Def(n, calls, refs) == [kind |-> "def", name |-> n, calls |-> calls, refs |-> refs]

\* Three functions in source order a, b, c, which need not be alphabetical, with
\* every relation of calls and other references between them.
Graphs3(a, b, c) ==
  LET uses(n) == {u \in (SUBSET ({1, 2, 3} \ {n})) \X (SUBSET ({1, 2, 3} \ {n})) :
                    u[1] \subseteq u[2]}
  IN  {<<Def(a, x[1], x[2]), Def(b, y[1], y[2]), Def(c, z[1], z[2])>> :
         x \in uses(a), y \in uses(b), z \in uses(c)}

Class == [kind |-> "class", name |-> 4, calls |-> {}, refs |-> {}]
Statement(kind, calls) == [kind |-> kind, name |-> 4, calls |-> calls, refs |-> calls]

\* A class between functions that call each other and instantiate it, and a
\* statement or the main guard.
Mixed ==
  {<<Def(1, x, x), Class, Def(2, y, y), Statement(kind, {1})>> :
     x \in SUBSET {2}, y \in SUBSET {1, 4}, kind \in {"top", "guard"}}

MCPrograms == Graphs3(1, 2, 3) \cup Graphs3(2, 3, 1) \cup Mixed
=============================================================================

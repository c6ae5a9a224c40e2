------------------------- MODULE MCWarmTranslation -------------------------
(* Values for TLC: a few small files whose names clash. *)
EXTENDS WarmTranslation, TLC

Stmt(k, n, u) ==
  [kind |-> k, name |-> n, uses |-> u, methods |-> {}, info |-> "i1", asks |-> {},
   conts |-> {}, boxes |-> FALSE, real |-> FALSE, bad |-> FALSE]
Class(n, ms, i, c, b) ==
  [Stmt("class", n, {}) EXCEPT !.methods = ms, !.info = i, !.conts = c, !.bad = b]
Def(n, u, r) == [Stmt("def", n, u) EXCEPT !.real = r]
Main(k, u, a, b) == [Stmt(k, "main", u) EXCEPT !.asks = a, !.boxes = (u = {}), !.bad = b]

MCNames == {"C", "D", "f", "g", "main"}
MCFields == {"xs"}
MCMethods == {"m"}

MCPrograms ==
  {<<Class("C", {"m"}, "i1", {"xs"}, FALSE), Def("f", {"C"}, TRUE)>>,
   <<Class("C", {}, "i2", {}, TRUE), Main("guard", {"C"}, {}, FALSE)>>,
   <<Class("D", {"m"}, "i1", {}, FALSE), Main("top", {"D"}, {"m"}, FALSE)>>,
   <<Def("g", {}, FALSE), Def("f", {"g", "C"}, FALSE)>>,
   <<Def("g", {}, TRUE), Main("top", {"g"}, {}, TRUE)>>,
   <<Main("guard", {}, {"m"}, FALSE)>>}

\* One file, a class and then a statement that instantiates it.
MCInOrder == {<<Class("C", {}, "i1", {}, FALSE), Main("top", {"C"}, {}, FALSE)>>}

OneLock == [t \in Threads |-> "session"]
OneBackend == [t \in Threads |-> "client"]
LockPerThread == [t \in Threads |-> t]
BackendPerThread == [t \in Threads |-> t]

\* Threads are interchangeable when they share everything.
Symmetry == Permutations(Threads)
=============================================================================

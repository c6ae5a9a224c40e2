------------------------------ MODULE Emission ------------------------------
(***************************************************************************)
(* The order in which translate_to_lean emits the statements of a file.    *)
(*                                                                         *)
(* Python binds top-level functions when they run, Lean needs a callee to  *)
(* precede its caller.  The emission loop takes the body in source order   *)
(* and, at a function, first emits the functions it calls, depth first; a  *)
(* group of mutually recursive functions goes out as one `Module`.  A node *)
(* is sent once per numeric pass.  The backend may refuse any request: a   *)
(* strict translation ends there, best-effort emits a placeholder that     *)
(* declares the same name; of a refused group, only that of the function   *)
(* that was asked for, so that the others are lost with it.                *)
(*                                                                         *)
(* Hazards: recursion through a cycle, a function emitted twice or never,  *)
(* a callee after its caller, a twin without its other half, a group half  *)
(* degraded, a function pulled in front of a class it uses.                *)
(***************************************************************************)
EXTENDS Naturals, Sequences, FiniteSets

CONSTANTS
  Names,     \* names of functions and classes, numbered in alphabetical order
  Programs   \* the bodies: sequences of statements

\* A "guard" is the `__main__` guard, which is twinned as definitions are; a "top"
\* is any other top-level statement.
\* `refs`: the names a statement mentions anywhere.  `calls`: those it calls by
\* name outside nested functions.
Statements ==
  [kind : {"def", "class", "guard", "top"}, name : Names, calls : SUBSET Names, refs : SUBSET Names]

Distinct(p) ==
  \A i, j \in DOMAIN p : p[i].kind = "def" /\ p[j].kind = "def" /\ p[i].name = p[j].name => i = j

ASSUME ConstantsAssumption ==
  /\ Names \subseteq Nat
  /\ Programs \subseteq Seq(Statements)
  /\ \A p \in Programs : Distinct(p) /\ \A i \in DOMAIN p : p[i].calls \subseteq p[i].refs

VARIABLES
  body,      \* the file
  best,      \* best_effort
  mode,      \* "both", or one of "prove" and "run"
  pc,        \* "loop", "visit" (inside emit_function_group), "send", "done", "error"
  pos,       \* the statement the loop is at
  stack,     \* the pending calls of emit_function_group
  codes,     \* what send_node has collected for the node it sends
  emitted,   \* emitted_funcs
  parts,     \* code_parts
  unsup      \* backend_unsup

\* A part of the output has the statements of the node it was sent for, and the
\* names it declares.
input == <<body, best, mode>>
vars == <<input, pc, pos, stack, codes, emitted, parts, unsup>>
-----------------------------------------------------------------------------
(* The call graph. *)

Defs(p) == {i \in DOMAIN p : p[i].kind = "def"}

Functions(p) == {p[i].name : i \in Defs(p)}

\* The statement that defines function n.
At(p, n) == CHOOSE i \in Defs(p) : p[i].name = n

\* What function n refers to itself.
RefsOf(p, n) == p[At(p, n)].refs \cap Functions(p)

\* The functions n refers to, directly or through others: `changed` is false when
\* the set holds all that its members refer to.
Reach(p, n) ==
  {m \in Functions(p) :
     \A S \in SUBSET Functions(p) :
       RefsOf(p, n) \subseteq S /\ (\A k \in S : RefsOf(p, k) \subseteq S) => m \in S}

\* Mutant: references are not followed through other functions.
GroupOfDirect(p, n) == {n} \cup {m \in RefsOf(p, n) : n \in RefsOf(p, m)}

\* _mutual_recursion_groups: the functions n reaches and that reach n.
GroupOf(p, n) == {n} \cup {m \in Reach(p, n) : n \in Reach(p, m)}

\* Mutant: only the function asked for is scanned, not its whole group.
CalleesOfFirst(p, group) ==
  p[At(p, CHOOSE n \in group : \A m \in group : n <= m)].calls \cap Functions(p)

CalleesOf(p, group) == UNION {p[At(p, m)].calls \cap Functions(p) : m \in group}

\* A call of emit_function_group: the callees are visited in sorted order.
Frame(n) ==
  LET group == GroupOf(body, n)
  IN  [name |-> n, group |-> group, rest |-> CalleesOf(body, group) \ group]

Least(S) == CHOOSE n \in S : \A m \in S : n <= m
-----------------------------------------------------------------------------
(* What one node becomes. *)

Top == stack[Len(stack)]

\* The statements of the node that is sent: the function group on top of the
\* stack, or the statement the loop is at.
Node == IF stack = <<>> THEN {pos} ELSE {i \in Defs(body) : body[i].name \in Top.group}

\* node_passes
Passes ==
  IF mode = "both" /\ \A i \in Node : body[i].kind # "top" THEN <<"", "rn">> ELSE <<"">>

Suffixes == {Passes[i] : i \in DOMAIN Passes}

\* The code for one pass.  A guard and a top-level statement declare a name of its own kind.
Code(suffix) ==
  [node |-> Node, placeholder |-> FALSE,
   declares |-> {<<body[i].kind, body[i].name, suffix>> : i \in Node}]

\* Mutant: the placeholder declares the name without the twin's.
PlaceholderPlain ==
  LET i == IF stack = <<>> THEN pos ELSE At(body, Top.name)
  IN  [node |-> Node, placeholder |-> TRUE,
       declares |-> {<<body[i].kind, body[i].name, "">>}]

\* backend_placeholders: one part, declaring the name under every suffix; a guard
\* and a statement, which have no name, get a numbered one.  Of a group, it declares only
\* the function that was asked for.
Placeholder ==
  LET i == IF stack = <<>> THEN pos ELSE At(body, Top.name)
  IN  [node |-> Node, placeholder |-> TRUE,
       declares |-> IF body[i].kind \in {"guard", "top"}
                    THEN {<<"unsup", unsup, s>> : s \in Suffixes}
                    ELSE {<<body[i].kind, body[i].name, s>> : s \in Suffixes}]
-----------------------------------------------------------------------------
Init ==
  /\ body \in Programs
  /\ best \in BOOLEAN
  /\ mode \in {"both", "run"}
  /\ pc = "loop"
  /\ pos = 1
  /\ stack = <<>>
  /\ codes = <<>>
  /\ emitted = {}
  /\ parts = <<>>
  /\ unsup = 0

\* Mutant: the statement after a function pulled forward is skipped with it.
SkipDefTooFar ==
  /\ pc = "loop" /\ pos <= Len(body)
  /\ body[pos].kind = "def" /\ body[pos].name \in emitted
  /\ pos' = pos + 2
  /\ UNCHANGED <<input, pc, stack, codes, emitted, parts, unsup>>

\* A function pulled forward already is not emitted again.
SkipDef ==
  /\ pc = "loop" /\ pos <= Len(body)
  /\ body[pos].kind = "def" /\ body[pos].name \in emitted
  /\ pos' = pos + 1
  /\ UNCHANGED <<input, pc, stack, codes, emitted, parts, unsup>>

EnterDef ==
  /\ pc = "loop" /\ pos <= Len(body)
  /\ body[pos].kind = "def" /\ body[pos].name \notin emitted
  /\ stack' = <<Frame(body[pos].name)>>
  /\ pc' = "visit"
  /\ UNCHANGED <<input, pos, codes, emitted, parts, unsup>>

EnterOther ==
  /\ pc = "loop" /\ pos <= Len(body)
  /\ body[pos].kind # "def"
  /\ pc' = "send" /\ codes' = <<>>
  /\ UNCHANGED <<input, pos, stack, emitted, parts, unsup>>

\* The next callee, emitted first unless it is out already.
Pull ==
  /\ pc = "visit" /\ Top.rest # {}
  /\ LET c == Least(Top.rest)
         resumed == [stack EXCEPT ![Len(stack)].rest = @ \ {c}]
     IN  stack' = IF c \in emitted THEN resumed ELSE Append(resumed, Frame(c))
  /\ UNCHANGED <<input, pc, pos, codes, emitted, parts, unsup>>

\* All callees are out.  The code checks once more whether the function is, too;
\* with this guard a function that is would deadlock the model.
Ready ==
  /\ pc = "visit" /\ Top.rest = {}
  /\ Top.name \notin emitted
  /\ pc' = "send" /\ codes' = <<>>
  /\ UNCHANGED <<input, pos, stack, emitted, parts, unsup>>

Sending == pc = "send" /\ Len(codes) < Len(Passes)

\* The backend lowers the node for one pass.
PassSucceeds ==
  /\ Sending
  /\ codes' = Append(codes, Code(Passes[Len(codes) + 1]))
  /\ UNCHANGED <<input, pc, pos, stack, emitted, parts, unsup>>

\* Mutant: of a group, only the function asked for counts as emitted.
ReturnNameOnly(new) ==
  /\ parts' = parts \o new
  /\ emitted' = IF stack = <<>> THEN emitted ELSE emitted \cup {Top.name}
  /\ IF Len(stack) > 1
       THEN stack' = SubSeq(stack, 1, Len(stack) - 1) /\ pc' = "visit" /\ UNCHANGED pos
       ELSE stack' = <<>> /\ pc' = "loop" /\ pos' = pos + 1

\* Mutant: the statement a group was reached from is passed over with it.
ReturnTooFar(new) ==
  /\ parts' = parts \o new
  /\ emitted' = IF stack = <<>> THEN emitted ELSE emitted \cup Top.group
  /\ stack' = <<>> /\ pc' = "loop" /\ pos' = pos + 1

\* The node is out; back to the caller, or to the loop.
Return(new) ==
  /\ parts' = parts \o new
  /\ emitted' = IF stack = <<>> THEN emitted ELSE emitted \cup Top.group
  /\ IF Len(stack) > 1
       THEN stack' = SubSeq(stack, 1, Len(stack) - 1) /\ pc' = "visit" /\ UNCHANGED pos
       ELSE stack' = <<>> /\ pc' = "loop" /\ pos' = pos + 1

Emit ==
  /\ pc = "send" /\ Len(codes) = Len(Passes)
  /\ Return(codes)
  /\ codes' = <<>>
  /\ UNCHANGED <<input, unsup>>

\* The backend refuses one pass: what the other passes gave is dropped.
Degrade ==
  /\ Sending /\ best
  /\ Return(<<Placeholder>>)
  /\ unsup' = unsup + 1
  /\ codes' = <<>>
  /\ UNCHANGED input

\* In a strict translation the error ends every pending call.
Refuse ==
  /\ Sending /\ ~best
  /\ pc' = "error"
  /\ stack' = <<>> /\ codes' = <<>>
  /\ UNCHANGED <<input, pos, emitted, parts, unsup>>

Done ==
  /\ pc = "loop" /\ pos > Len(body)
  /\ pc' = "done"
  /\ UNCHANGED <<input, pos, stack, codes, emitted, parts, unsup>>

Next ==
  \/ SkipDef \/ EnterDef \/ EnterOther \/ Pull \/ Ready
  \/ PassSucceeds \/ Emit \/ Degrade \/ Refuse \/ Done
  \/ pc \in {"done", "error"} /\ UNCHANGED vars

Spec == Init /\ [][Next]_vars
-----------------------------------------------------------------------------
Parts ==
  [node : SUBSET Nat, placeholder : BOOLEAN,
   declares : SUBSET ({"def", "class", "guard", "top", "unsup"} \X Nat \X {"", "rn"})]

\* Every variable is in its range.
TypeOK ==
  /\ best \in BOOLEAN /\ mode \in {"both", "run"}
  /\ pc \in {"loop", "visit", "send", "done", "error"}
  /\ pos \in 1..(Len(body) + 1)
  /\ stack \in Seq([name : Names, group : SUBSET Names, rest : SUBSET Names])
  /\ codes \in Seq(Parts) /\ parts \in Seq(Parts)
  /\ emitted \subseteq Names
  /\ unsup \in 0..Len(body)

\* emit_function_group never re-enters a group whose emission is pending, so its
\* recursion is no deeper than there are groups, however the functions call
\* each other.
NoReentry ==
  \A i, j \in DOMAIN stack : i # j => stack[i].group \cap stack[j].group = {}

\* No declaration is emitted twice, with or without failures.
DeclaredOnce ==
  \A i, j \in DOMAIN parts : i # j => parts[i].declares \cap parts[j].declares = {}

\* The suffixes a definition is declared under.
Halves == IF mode = "both" THEN {"", "rn"} ELSE {""}

\* Statement k is lost with a refused group: the part is the placeholder for
\* another function of its group.
Lost(part, k) ==
  /\ best /\ part.placeholder /\ body[k].kind = "def"
  /\ \E m \in GroupOf(body, body[k].name) \ {body[k].name} : <<"def", m, "">> \in part.declares

\* What a function calls by name is declared before it or with it, each twin for
\* its own, wherever the file has it and whatever fails on the way; or it was
\* lost with a group that was refused before.
CalleesFirst ==
  \A i \in DOMAIN parts : \A d \in parts[i].declares : d[1] = "def" =>
    \A c \in body[At(body, d[2])].calls \cap Functions(body) :
      \E j \in 1..i : <<"def", c, d[3]>> \in parts[j].declares \/ Lost(parts[j], At(body, c))

\* A translation in both modes declares a name with its twin or not at all.
TwinsTogether ==
  pc = "done" /\ mode = "both" =>
    LET out == UNION {parts[i].declares : i \in DOMAIN parts}
    IN  \A d \in out : d[1] \in {"def", "class", "guard"} =>
          <<d[1], d[2], "">> \in out /\ <<d[1], d[2], "rn">> \in out

\* A translation that ends without an error has declared every function and class
\* of the file, and its twin, and has sent every other statement.  Only best-effort
\* loses functions: those of a refused group that were not the one asked for.
NothingLost ==
  pc = "done" => \A k \in DOMAIN body :
    IF body[k].kind \in {"def", "class"}
    THEN \A s \in Halves : \E i \in DOMAIN parts :
           <<body[k].kind, body[k].name, s>> \in parts[i].declares \/ Lost(parts[i], k)
    ELSE \E i \in DOMAIN parts : k \in parts[i].node

\* "A class's ClassDef is always lowered before any statement that instantiates
\* it (module order)" (Codegen.lean, classRegistry), for the classes a file
\* defines before the function that instantiates them.
ClassesFirst ==
  \A i \in DOMAIN parts : \A k \in parts[i].node, c \in DOMAIN body :
    /\ body[c].kind = "class" /\ c < k
    /\ body[k].kind = "def" /\ body[c].name \in body[k].calls
    /\ ~parts[i].placeholder
    => \E j \in 1..i : c \in parts[j].node
=============================================================================

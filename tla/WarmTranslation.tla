-------------------------- MODULE WarmTranslation --------------------------
(***************************************************************************)
(* One Python file after another translated through warm Lean backends.    *)
(*                                                                         *)
(* A translation keeps its options in globals of the module                *)
(* `transpile.driver`, sends one request per top-level statement and       *)
(* numeric pass, and each request carries what the globals hold when it is *)
(* sent.  The backend copies the request's options into process-global     *)
(* refs, lowers the statement, and keeps what later statements need of it  *)
(* (classes with their methods, container fields, noncomputable names) in  *)
(* registries that live as long as its process.  Most are read by name; a  *)
(* call whose receiver the front end could not resolve is read by the      *)
(* method's name, from the classes of every file the process has met.      *)
(*                                                                         *)
(* Hazards: threads with sessions of their own race on the globals; a file *)
(* meets what an earlier file left in the registries; a file loses its own *)
(* registrations when the process dies half way, or when one request is    *)
(* answered by a one-shot process.                                         *)
(***************************************************************************)
EXTENDS Naturals, Sequences, FiniteSets

CONSTANTS
  Threads,    \* Python threads that translate
  LockOf,     \* the lock of each thread's Session
  Backends,   \* backend clients
  BackendOf,  \* the client of each thread's Session
  MaxFiles,   \* files one thread translates (bounds the model)
  Programs,   \* the files: sequences of top-level statements
  Names,      \* class and function names
  Fields,     \* class fields
  Methods     \* method names

Infos == {"i1", "i2"}

\* A top-level statement; "guard" is the __main__ guard.  `uses`: the names its
\* body mentions.  `methods` and `info`: what a class registers of itself, the
\* methods it declares and which of them mutate.  `asks`: the methods its body
\* calls on receivers whose class _stamp_class_dispatch could not tell.
\* `conts`: a class's fields that hold a mutable container.  `boxes`: a mutable
\* container or a captured variable elsewhere in it needs a cell.  `real`: a
\* function's value is a real number.  `bad`: one statement of its body (of a
\* class: of a method that mutates `self` and returns a value, the one that
\* asks) has no lowering.
Statements ==
  [kind : {"class", "def", "guard", "top"}, name : Names, uses : SUBSET Names,
   methods : SUBSET Methods, info : Infos, asks : SUBSET Methods,
   conts : SUBSET Fields, boxes : BOOLEAN, real : BOOLEAN, bad : BOOLEAN]

ASSUME ConstantsAssumption ==
  /\ MaxFiles \in Nat
  /\ Programs \subseteq Seq(Statements)
  /\ BackendOf \in [Threads -> Backends]
  \* Threads that share a client share a Session (LeanClient says why).
  /\ \A t, u \in Threads : BackendOf[t] = BackendOf[u] => LockOf[t] = LockOf[u]

Numerics == {"exact", "approx"}
Suffixes == {"", "rn"}
Options == [mode : {"prove", "run", "both"}, best : BOOLEAN, heap : BOOLEAN]
Requests == [numeric : Numerics, suffix : Suffixes, best : BOOLEAN, heap : BOOLEAN]

VARIABLES
  pc,        \* where each thread is: see PCs
  file,      \* the number of the file it translates or translated last
  prog,      \* that file
  opts,      \* the options it was asked for
  at, twin,  \* the statement (0: the heap prelude) and numeric pass it is at
  globals,   \* _NUMERIC_MODE, _RUN_SUFFIX, _BEST_EFFORT and _HEAP_MODE
  degraded,  \* whose file _LAST_UNSUPPORTED lists
  req,       \* the request each thread sent last
  report,    \* whose degraded statements each thread's last result lists
  server,    \* each backend process: its refs and its registries
  seen,      \* what the process showed to the statement lowered last
  intact,    \* history: one process has lowered all of the file and still runs
  past       \* history: what earlier files each process has met

driver == <<globals, degraded>>
job == <<file, prog, opts>>
place == <<at, twin>>
history == <<seen, intact, past>>
vars == <<pc, job, place, driver, req, report, server, history>>

PCs == {"out", "options", "front", "heap", "infer", "pass", "send", "lower"}

\* The name of the file a thread is at.
File(t) == <<t, file[t]>>
-----------------------------------------------------------------------------
(* The state of a backend process, and what one request does to it. *)

NoClass == "none"

Servers ==
  [refs : Requests,                                       \* numericModeRef, ...
   mutator : BOOLEAN,                                     \* valueMutatorRef
   classes : [Names \X Suffixes -> Infos \cup {NoClass}],  \* classRegistry
   methods : SUBSET (Names \X Suffixes \X Methods \X Infos),  \* its ClassInfo.methods
   containers : SUBSET (Names \X Suffixes \X Fields),     \* heapContainerFieldsRegistry
   noncomp : SUBSET (Names \X Suffixes)]                  \* noncomputableDefRegistry

Plain == [numeric |-> "exact", suffix |-> "", best |-> FALSE, heap |-> FALSE]

Fresh ==
  [refs |-> Plain, mutator |-> FALSE,
   classes |-> [k \in Names \X Suffixes |-> NoClass], methods |-> {},
   containers |-> {}, noncomp |-> {}]

\* Mutant: the heap ref is set and never reset.
EnterStickyHeap(r, srv) == [srv EXCEPT !.refs = [r EXCEPT !.heap = @ \/ srv.refs.heap]]

\* runTranslateTask: the refs are set from the request, the registries kept.
Enter(r, srv) == [srv EXCEPT !.refs = r]

\* In exact mode a function that mentions a noncomputable one is noncomputable
\* too; names are looked up as the source spells them, without suffix.
Tainted(s, srv) ==
  srv.refs.numeric = "exact" /\ \E n \in s.uses : <<n, "">> \in srv.noncomp

\* Mutant: a class that is known already is not registered again.
RegisterNewClass(s, srv) ==
  [srv EXCEPT !.classes[<<s.name, srv.refs.suffix>>] = IF @ = NoClass THEN s.info ELSE @]

\* registerClass: what the registry held under this name is replaced.
RegisterClass(s, srv) ==
  LET n == s.name
      x == srv.refs.suffix
  IN  [srv EXCEPT !.classes[<<n, x>>] = s.info,
                  !.methods = {d \in @ : <<d[1], d[2]>> # <<n, x>>}
                                \cup {<<n, x, m, s.info>> : m \in s.methods}]

\* A class is registered before its methods are lowered.
Ready(s, srv) == IF s.kind = "class" THEN RegisterClass(s, srv) ELSE srv

\* classOfMethod?: the class that declares m, if it is the only one of all the
\* process has registered, whatever file it came from.
Receiver(m, srv) ==
  LET owners == {d \in srv.methods : d[3] = m}
  IN  IF \E d \in owners : owners = {d} THEN owners ELSE {}

\* Everything lowering reads besides the statement itself.
View(s, srv) ==
  LET now == Ready(s, srv)
  IN  [refs |-> srv.refs,
       mutator |-> srv.mutator,
       classes |-> [n \in s.uses |-> now.classes[<<n, "">>]],
       receivers |-> [m \in s.asks |-> Receiver(m, now)],
       containers |-> {c \in srv.containers : srv.refs.heap /\ c[1] \in s.uses},
       noncomp |-> Tainted(s, srv)]

\* Lowering throws somewhere inside s: a statement without a lowering, or a call
\* whose method no class, or more than one, declares.
Faulty(s, srv) == s.bad \/ \E m \in s.asks : Receiver(m, Ready(s, srv)) = {}

\* A throw out of the method, which strict mode lets through, skips the line
\* that resets valueMutatorRef; the heap lowering does not use it.
LowerClass(s, srv) ==
  [RegisterClass(s, srv) EXCEPT
     !.mutator = @ \/ (Faulty(s, srv) /\ ~srv.refs.best /\ ~srv.refs.heap)]

LowerDef(s, srv) ==
  IF Tainted(s, srv) \/ (s.real /\ srv.refs.numeric = "exact")
    THEN [srv EXCEPT !.noncomp = @ \cup {<<s.name, srv.refs.suffix>>}]
    ELSE srv

Lower(s, srv) ==
  CASE s.kind = "class" -> LowerClass(s, srv)
    [] s.kind = "def" -> LowerDef(s, srv)
    [] s.kind \in {"guard", "top"} -> srv

\* The container fields of every class of a file, under the names of every pass
\* of the mode: the prelude adds them all at once.
ContainersOf(p, o) ==
  {c \in Names \X (IF o.mode = "both" THEN Suffixes ELSE {""}) \X Fields :
     \E i \in DOMAIN p : p[i].kind = "class" /\ p[i].name = c[1] /\ c[3] \in p[i].conts}

LowerPrelude(p, o, srv) == [srv EXCEPT !.containers = @ \cup ContainersOf(p, o)]

\* Best-effort degrades a statement inside a body in place; a bad top-level
\* statement has no body to keep.
Throws(s, srv) == Faulty(s, srv) /\ (srv.refs.best => s.kind = "top")

\* The process after request r for statement i of p.
After(r, p, o, i, srv) ==
  IF i = 0 THEN LowerPrelude(p, o, Enter(r, srv)) ELSE Lower(p[i], Enter(r, srv))
-----------------------------------------------------------------------------
(* The passes of a file: node_passes and the loop of translate_to_lean. *)

Twinned(p, o, i) == o.mode = "both" /\ i > 0 /\ p[i].kind # "top"

\* The heap prelude is sent for a file that has anything to put on the heap.
HasPrelude(p, o) == o.heap /\ \E i \in DOMAIN p : p[i].kind = "class" \/ p[i].boxes

\* What the request for statement i should carry.
Due(o, tw) ==
  [numeric |-> IF tw \/ o.mode = "run" THEN "approx" ELSE "exact",
   suffix |-> IF tw THEN "rn" ELSE "",
   best |-> o.best, heap |-> o.heap]

\* The passes of a file in order: number 2i is the first of statement i, 2i + 1
\* its twin.
Number(i, tw) == 2 * i + (IF tw THEN 1 ELSE 0)

Sent(p, o, i, tw) == IF i = 0 THEN HasPrelude(p, o) /\ ~tw ELSE tw => Twinned(p, o, i)

\* A process after pass number k of p, if the file has that pass.
Pass(p, o, k, srv) ==
  LET i == k \div 2
      tw == k % 2 = 1
  IN  IF Sent(p, o, i, tw) THEN After(Due(o, tw), p, o, i, srv) ELSE srv

\* A process that lowers p and nothing else, before pass number k.
Cold(p, o) ==
  LET before[k \in 0..(2 * Len(p) + 2)] ==
        IF k = 0 THEN Fresh ELSE Pass(p, o, k - 1, before[k - 1])
  IN  before

\* Every name a file declares or mentions, the methods its classes declare and
\* those it asks the registry for.
NamesOf(p) == UNION {{p[i].name} \cup p[i].uses : i \in DOMAIN p}
MethodsOf(p) == UNION {p[i].methods : i \in DOMAIN p}
AsksOf(p) == UNION {p[i].asks : i \in DOMAIN p}
-----------------------------------------------------------------------------
NothingSeen == [at |-> 0, twin |-> FALSE, view |-> "none"]
NoReport == [of |-> <<>>, degraded |-> <<>>]
NoPast == [names |-> {}, methods |-> {}, failed |-> FALSE]

Init ==
  /\ pc = [t \in Threads |-> "out"]
  /\ file = [t \in Threads |-> 0]
  /\ prog = [t \in Threads |-> <<>>]
  /\ opts = [t \in Threads |-> [mode |-> "both", best |-> TRUE, heap |-> FALSE]]
  /\ at = [t \in Threads |-> 0]
  /\ twin = [t \in Threads |-> FALSE]
  /\ globals = Plain
  /\ degraded = <<>>
  /\ req = [t \in Threads |-> Plain]
  /\ report = [t \in Threads |-> NoReport]
  /\ server = [b \in Backends |-> Fresh]
  /\ seen = [t \in Threads |-> NothingSeen]
  /\ intact = [t \in Threads |-> TRUE]
  /\ past = [b \in Backends |-> NoPast]

Goto(t, l) == pc' = [pc EXCEPT ![t] = l]

LockFree(t) == \A u \in Threads : LockOf[u] = LockOf[t] => pc[u] = "out"

\* Session.translate takes its lock.
Begin(t, p, o) ==
  /\ pc[t] = "out" /\ file[t] < MaxFiles
  /\ LockFree(t)
  /\ Goto(t, "options")
  /\ file' = [file EXCEPT ![t] = @ + 1]
  /\ prog' = [prog EXCEPT ![t] = p]
  /\ opts' = [opts EXCEPT ![t] = o]
  /\ seen' = [seen EXCEPT ![t] = NothingSeen]
  /\ intact' = [intact EXCEPT ![t] = TRUE]
  /\ UNCHANGED <<place, driver, req, report, server, past>>

SetOptions(t) ==
  /\ pc[t] = "options"
  /\ globals' = [globals EXCEPT !.numeric = IF opts[t].mode = "run" THEN "approx" ELSE "exact",
                                !.best = opts[t].best, !.suffix = ""]
  /\ Goto(t, "front")
  /\ UNCHANGED <<job, place, degraded, req, report, server, history>>

\* Mutant: the list is replaced only when best-effort could have filled it.
FrontEndBestOnly(t) ==
  /\ pc[t] = "front"
  /\ degraded' = IF opts[t].best THEN File(t) ELSE degraded
  /\ Goto(t, "heap")
  /\ UNCHANGED <<job, place, globals, req, report, server, history>>

\* translate_to_json
FrontEnd(t) ==
  /\ pc[t] = "front"
  /\ degraded' = File(t)
  /\ Goto(t, "heap")
  /\ UNCHANGED <<job, place, globals, req, report, server, history>>

\* Session.to_json_ir: the front end alone, under the same lock, in one step.
IrOnly(t) ==
  /\ pc[t] = "out" /\ file[t] < MaxFiles
  /\ LockFree(t)
  /\ file' = [file EXCEPT ![t] = @ + 1]
  /\ degraded' = <<t, file[t] + 1>>
  /\ UNCHANGED <<pc, prog, opts, place, globals, req, report, server, history>>

\* Mutant: the global is set by a heap translation and left alone by others.
SetHeapOnly(t) ==
  /\ pc[t] = "heap"
  /\ globals' = [globals EXCEPT !.heap = @ \/ opts[t].heap]
  /\ Goto(t, "infer")
  /\ UNCHANGED <<job, place, degraded, req, report, server, history>>

SetHeap(t) ==
  /\ pc[t] = "heap"
  /\ globals' = [globals EXCEPT !.heap = opts[t].heap]
  /\ Goto(t, "infer")
  /\ UNCHANGED <<job, place, degraded, req, report, server, history>>

\* infer_types writes nothing the translation of statements reads back.
Infer(t) ==
  /\ pc[t] = "infer"
  /\ at' = [at EXCEPT ![t] = IF HasPrelude(prog[t], opts[t]) THEN 0 ELSE 1]
  /\ twin' = [twin EXCEPT ![t] = FALSE]
  /\ Goto(t, "pass")
  /\ UNCHANGED <<job, driver, req, report, server, history>>

\* What the file leaves behind in the process for the files after it.
Leave(t, failed) ==
  past' = [past EXCEPT ![BackendOf[t]] =
             [names |-> @.names \cup NamesOf(prog[t]),
              methods |-> @.methods \cup MethodsOf(prog[t]),
              failed |-> @.failed \/ failed]]

\* An exception leaves translate_to_lean: a SyntaxError of the front end, a
\* BackendError of infer_types.
Raise(t) ==
  /\ pc[t] \in {"front", "infer"}
  /\ Goto(t, "out")
  /\ UNCHANGED <<job, place, driver, req, report, server, history>>

SetPass(t) ==
  /\ pc[t] = "pass" /\ at[t] <= Len(prog[t])
  /\ globals' = [globals EXCEPT !.numeric = Due(opts[t], twin[t]).numeric,
                                !.suffix = Due(opts[t], twin[t]).suffix]
  /\ Goto(t, "send")
  /\ UNCHANGED <<job, place, degraded, req, report, server, history>>

Send(t) ==
  /\ pc[t] = "send"
  /\ req' = [req EXCEPT ![t] = globals]
  /\ Goto(t, "lower")
  /\ UNCHANGED <<job, place, driver, report, server, history>>

\* Mutant: after a twin the next statement is skipped.
AdvanceTooFar(t) ==
  IF Twinned(prog[t], opts[t], at[t]) /\ ~twin[t]
    THEN twin' = [twin EXCEPT ![t] = TRUE] /\ UNCHANGED at
    ELSE twin' = [twin EXCEPT ![t] = FALSE] /\ at' = [at EXCEPT ![t] = @ + 2]

\* The next numeric pass, or the next statement.
Advance(t) ==
  IF Twinned(prog[t], opts[t], at[t]) /\ ~twin[t]
    THEN twin' = [twin EXCEPT ![t] = TRUE] /\ UNCHANGED at
    ELSE twin' = [twin EXCEPT ![t] = FALSE] /\ at' = [at EXCEPT ![t] = @ + 1]

\* The statement a thread is at is lowered in process state srv.
Witness(t, srv) ==
  seen' = [seen EXCEPT ![t] =
    IF at[t] = 0 THEN NothingSeen
    ELSE [at |-> at[t], twin |-> twin[t],
          view |-> View(prog[t][at[t]], Enter(req[t], srv))]]

Fails(t, srv) == at[t] > 0 /\ Throws(prog[t][at[t]], Enter(req[t], srv))

\* A failure ends a strict translation; in best-effort a placeholder takes the
\* statement's place.
GoOn(t, srv) ==
  IF Fails(t, srv) /\ ~opts[t].best
    THEN Goto(t, "out") /\ UNCHANGED place
    ELSE Goto(t, "pass") /\ Advance(t)

Translate(t) ==
  LET b == BackendOf[t] IN
  /\ pc[t] = "lower"
  /\ Witness(t, server[b])
  /\ server' = [server EXCEPT ![b] = After(req[t], prog[t], opts[t], at[t], @)]
  /\ GoOn(t, server[b])
  /\ IF Fails(t, server[b]) /\ ~opts[t].best THEN Leave(t, TRUE) ELSE UNCHANGED past
  /\ UNCHANGED <<job, driver, req, report, intact>>

\* No answer in time, or none at all: close() ends the process, and a process
\* of its own lowers this one statement.
OneShot(t) ==
  LET b == BackendOf[t] IN
  /\ pc[t] = "lower"
  /\ Witness(t, Fresh)
  /\ server' = [server EXCEPT ![b] = Fresh]
  /\ past' = [past EXCEPT ![b] = NoPast]
  /\ intact' = [u \in Threads |-> intact[u] /\ BackendOf[u] # b]
  /\ GoOn(t, Fresh)
  /\ UNCHANGED <<job, driver, req, report>>

\* The file is done: translate() reads _LAST_UNSUPPORTED before it lets go of
\* the lock.
Finish(t) ==
  /\ pc[t] = "pass" /\ at[t] > Len(prog[t])
  /\ report' = [report EXCEPT ![t] = [of |-> File(t), degraded |-> degraded]]
  /\ Leave(t, FALSE)
  /\ Goto(t, "out")
  /\ UNCHANGED <<job, place, driver, req, server, seen, intact>>

\* The process dies between two requests; start() boots an empty one for the
\* next.
Restart(b) ==
  /\ \A t \in Threads : BackendOf[t] = b => pc[t] # "lower"
  /\ server[b] # Fresh
  /\ server' = [server EXCEPT ![b] = Fresh]
  /\ past' = [past EXCEPT ![b] = NoPast]
  /\ intact' = [t \in Threads |-> intact[t] /\ BackendOf[t] # b]
  /\ UNCHANGED <<pc, job, place, driver, req, report, seen>>

Next ==
  \/ \E t \in Threads :
       \/ \E p \in Programs, o \in Options : Begin(t, p, o)
       \/ SetOptions(t) \/ FrontEnd(t) \/ IrOnly(t) \/ SetHeap(t) \/ Infer(t) \/ Raise(t)
       \/ SetPass(t) \/ Send(t) \/ Translate(t) \/ OneShot(t) \/ Finish(t)
  \/ \E b \in Backends : Restart(b)

Spec == Init /\ [][Next]_vars
-----------------------------------------------------------------------------
Files == {<<>>} \cup (Threads \X (0..MaxFiles))

\* Every variable is in its range.
TypeOK ==
  /\ pc \in [Threads -> PCs]
  /\ file \in [Threads -> 0..MaxFiles]
  /\ prog \in [Threads -> Programs \cup {<<>>}]
  /\ opts \in [Threads -> Options]
  /\ at \in [Threads -> Nat] /\ twin \in [Threads -> BOOLEAN]
  /\ \A t \in Threads : pc[t] \in {"pass", "send", "lower"} => at[t] <= Len(prog[t]) + 1
  /\ globals \in Requests
  /\ degraded \in Files
  /\ req \in [Threads -> Requests]
  /\ report \in [Threads -> [of : Files, degraded : Files]]
  /\ server \in [Backends -> Servers]
  /\ intact \in [Threads -> BOOLEAN]
  /\ past \in [Backends -> [names : SUBSET Names, methods : SUBSET Methods, failed : BOOLEAN]]

\* A request carries the options its own translation was asked for, and the
\* numeric mode and suffix of its own pass, although it takes them from globals
\* that every translation of the process writes.
RequestsCarryOwnOptions ==
  \A t \in Threads : pc[t] = "lower" => req[t] = Due(opts[t], twin[t])

\* The degraded statements a result lists are those of its own source.
ReportIsOwn == \A t \in Threads : report[t].degraded = report[t].of

\* What the statement a thread had lowered last would have met in a process that
\* lowers this one file.
ColdServer(t) ==
  Enter(Due(opts[t], seen[t].twin),
        Cold(prog[t], opts[t])[Number(seen[t].at, seen[t].twin)])

ColdView(t) == View(prog[t][seen[t].at], ColdServer(t))

Looked(t) == seen[t] # NothingSeen

\* While one process serves the whole file, codegen finds everything earlier
\* statements of the file registered, whatever files were there before: its own
\* class under a shared name, its own container fields and noncomputables.  The
\* class of a method it asks for by the method's name alone it finds as a fresh
\* process would, unless a class of an earlier file declares that method too.
NothingOwnIsMissing ==
  \A t \in Threads : Looked(t) /\ intact[t] =>
    LET mine == ColdView(t)
        got == seen[t].view
    IN  /\ \A n \in DOMAIN mine.classes :
             mine.classes[n] # NoClass => got.classes[n] = mine.classes[n]
        /\ \A m \in DOMAIN mine.receivers :
             m \notin past[BackendOf[t]].methods => got.receivers[m] = mine.receivers[m]
        /\ mine.containers \subseteq got.containers
        /\ mine.noncomp => got.noncomp

\* The file of a thread shares nothing with the files before it: no name, and no
\* method it asks for that a class of theirs declares.
SharesNothing(t) ==
  /\ past[BackendOf[t]].names \cap NamesOf(prog[t]) = {}
  /\ past[BackendOf[t]].methods \cap AsksOf(prog[t]) = {}

\* A warm process translates a file exactly as a fresh one would, if it shares
\* nothing with the files before it, none of them failed, and the process is not
\* replaced under it.
WarmLikeCold ==
  \A t \in Threads :
    Looked(t) /\ intact[t] /\ ~past[BackendOf[t]].failed /\ SharesNothing(t)
      => seen[t].view = ColdView(t)

-----------------------------------------------------------------------------
(* What makes RequestsCarryOwnOptions and ReportIsOwn inductive when all        *)
(* threads take one lock.                                                       *)

SharedLock == \A t, u \in Threads : LockOf[t] = LockOf[u]

FileNames == {<<>>} \cup (Threads \X Nat)

\* The ranges of the variables that options and reports pass through.
Ranges ==
  /\ pc \in [Threads -> PCs] /\ file \in [Threads -> Nat]
  /\ opts \in [Threads -> Options] /\ twin \in [Threads -> BOOLEAN]
  /\ globals \in Requests /\ req \in [Threads -> Requests]
  /\ report \in [Threads -> [of : FileNames, degraded : FileNames]]
  /\ degraded \in FileNames

\* One translation at a time.
OneInside == \A t, u \in Threads : t # u => pc[t] = "out" \/ pc[u] = "out"

\* What the globals hold for the translation that runs, from where it sets them.
GlobalsAreOwn ==
  \A t \in Threads :
    /\ pc[t] \notin {"out", "options"} => globals.best = opts[t].best
    /\ pc[t] \in {"infer", "pass", "send", "lower"} => globals.heap = opts[t].heap
    /\ pc[t] = "send" => globals = Due(opts[t], twin[t])

ListIsOwn ==
  \A t \in Threads : pc[t] \notin {"out", "options", "front"} => degraded = File(t)

\* The strengthened invariant.
OptionsInv ==
  /\ Ranges /\ OneInside /\ GlobalsAreOwn /\ ListIsOwn
  /\ RequestsCarryOwnOptions /\ ReportIsOwn
=============================================================================

----------------------- MODULE WarmTranslationProofs -----------------------
(***************************************************************************)
(* Options and reports stay with their translation, for any set of         *)
(* threads that take one lock, any files and any number of backends.       *)
(* Then the registries: a warm process holds all that a cold one would     *)
(* hold of the file being translated, and of names that are new to it it   *)
(* holds nothing else.  The cold process is the recursive function Cold,   *)
(* whose equation is proved first.                                         *)
(***************************************************************************)
EXTENDS WarmTranslation, WellFoundedInduction, NaturalsInduction, TLAPS

LEMMA DueIsRequest ==
  ASSUME NEW o \in Options, NEW tw \in BOOLEAN
  PROVE  Due(o, tw) \in Requests
  BY DEF Due, Options, Requests, Numerics, Suffixes

LEMMA InitOptions == Init => OptionsInv
  <1> SUFFICES ASSUME Init PROVE OptionsInv
    OBVIOUS
  <1>1. Ranges
    BY DEF Init, Ranges, PCs, Options, Requests, Numerics, Suffixes, Plain, NoReport, FileNames
  <1>2. OneInside /\ GlobalsAreOwn /\ ListIsOwn /\ RequestsCarryOwnOptions /\ ReportIsOwn
    BY DEF Init, OneInside, GlobalsAreOwn, ListIsOwn, RequestsCarryOwnOptions, ReportIsOwn, NoReport
  <1>3. QED
    BY <1>1, <1>2 DEF OptionsInv

\* A thread that has work to do is the only one: nobody else is inside.
LEMMA OthersAreOut ==
  ASSUME OneInside, NEW t \in Threads, pc[t] # "out"
  PROVE  \A u \in Threads : u # t => pc[u] = "out"
  BY DEF OneInside

\* A step that moves one thread to another place, while all others are out,
\* keeps them out.
LEMMA Moved ==
  ASSUME Ranges, NEW t \in Threads, NEW l \in PCs, Goto(t, l),
         \A u \in Threads : u # t => pc[u] = "out"
  PROVE  /\ pc' \in [Threads -> PCs]
         /\ pc'[t] = l
         /\ \A u \in Threads : u # t => pc'[u] = "out"
         /\ OneInside'
  BY DEF Ranges, Goto, OneInside

\* Only the thread inside matters to the rest of the invariant.
LEMMA EnoughForOne ==
  ASSUME NEW t \in Threads,
         Ranges', OneInside',
         \A u \in Threads : u # t => pc'[u] = "out",
         pc'[t] \notin {"out", "options"} => globals'.best = opts'[t].best,
         pc'[t] \in {"infer", "pass", "send", "lower"} => globals'.heap = opts'[t].heap,
         pc'[t] = "send" => globals' = Due(opts'[t], twin'[t]),
         pc'[t] = "lower" => req'[t] = Due(opts'[t], twin'[t]),
         pc'[t] \notin {"out", "options", "front"} => degraded' = File(t)',
         ReportIsOwn'
  PROVE  OptionsInv'
  <1>1. GlobalsAreOwn'
    BY DEF GlobalsAreOwn, Due
  <1>2. ListIsOwn'
    BY DEF ListIsOwn, File
  <1>3. RequestsCarryOwnOptions'
    BY DEF RequestsCarryOwnOptions, Due
  <1>4. QED
    BY <1>1, <1>2, <1>3 DEF OptionsInv

LEMMA BeginKeeps ==
  ASSUME OptionsInv, SharedLock, NEW t \in Threads, NEW p \in Programs, NEW o \in Options,
         Begin(t, p, o)
  PROVE  OptionsInv'
  <1>1. \A u \in Threads : pc[u] = "out"
    BY DEF Begin, LockFree, SharedLock
  <1>2. Goto(t, "options") /\ "options" \in PCs /\ Ranges
    BY DEF Begin, OptionsInv, PCs
  <1>3. /\ pc' \in [Threads -> PCs] /\ pc'[t] = "options"
        /\ \A u \in Threads : u # t => pc'[u] = "out"
        /\ OneInside'
    BY <1>1, <1>2, Moved
  <1>4. Ranges'
    BY <1>3, <1>2 DEF Ranges, Begin, place, driver
  <1>5. ReportIsOwn'
    BY DEF OptionsInv, ReportIsOwn, Begin
  <1>6. QED
    BY <1>3, <1>4, <1>5, EnoughForOne

\* What the steps of a translation under way have in common.
LEMMA StepKeeps ==
  ASSUME OptionsInv, NEW t \in Threads, pc[t] # "out",
         NEW l \in PCs, Goto(t, l), UNCHANGED job,
         globals' \in Requests, req' \in [Threads -> Requests],
         twin' \in [Threads -> BOOLEAN], degraded' \in FileNames,
         report' \in [Threads -> [of : FileNames, degraded : FileNames]],
         l \notin {"out", "options"} => globals'.best = opts[t].best,
         l \in {"infer", "pass", "send", "lower"} => globals'.heap = opts[t].heap,
         l = "send" => globals' = Due(opts[t], twin'[t]),
         l = "lower" => req'[t] = Due(opts[t], twin'[t]),
         l \notin {"out", "options", "front"} => degraded' = File(t),
         ReportIsOwn'
  PROVE  OptionsInv'
  <1>1. Ranges /\ \A u \in Threads : u # t => pc[u] = "out"
    BY OthersAreOut DEF OptionsInv
  <1>2. /\ pc' \in [Threads -> PCs] /\ pc'[t] = l
        /\ \A u \in Threads : u # t => pc'[u] = "out"
        /\ OneInside'
    BY <1>1, Moved
  <1>3. opts' = opts /\ file' = file /\ File(t)' = File(t)
    BY DEF job, File
  <1>4. Ranges'
    BY <1>1, <1>2, <1>3 DEF Ranges
  <1>5. QED
    BY <1>2, <1>3, <1>4, EnoughForOne

\* The same for a step that writes neither options nor reports and comes from a
\* place where the globals are set already.
LEMMA QuietStepKeeps ==
  ASSUME OptionsInv, NEW t \in Threads, NEW l \in {"out", "pass"}, Goto(t, l),
         pc[t] # "out", l = "pass" => pc[t] \in {"infer", "lower"},
         UNCHANGED <<job, driver, req, report>>,
         twin' \in [Threads -> BOOLEAN]
  PROVE  OptionsInv'
  <1>1. l \in PCs
    BY DEF PCs
  <1>2. Ranges /\ GlobalsAreOwn /\ ListIsOwn /\ ReportIsOwn
    BY DEF OptionsInv
  <1>3. /\ globals' \in Requests /\ req' \in [Threads -> Requests]
        /\ degraded' \in FileNames /\ report' \in [Threads -> [of : FileNames, degraded : FileNames]]
    BY <1>2 DEF Ranges, driver
  <1>4. l = "pass" => globals'.best = opts[t].best /\ globals'.heap = opts[t].heap
    BY <1>2 DEF GlobalsAreOwn, driver
  <1>5. l = "pass" => degraded' = File(t)
    BY <1>2 DEF ListIsOwn, driver
  <1>6. ReportIsOwn'
    BY <1>2 DEF ReportIsOwn
  <1>7. QED
    BY <1>1, <1>3, <1>4, <1>5, <1>6, StepKeeps

\* Going on to the next pass keeps `twin` in its range.
LEMMA GoOnMoves ==
  ASSUME Ranges, NEW t \in Threads, NEW srv, GoOn(t, srv)
  PROVE  /\ twin' \in [Threads -> BOOLEAN]
         /\ Goto(t, "out") \/ Goto(t, "pass")
  BY DEF Ranges, GoOn, Advance, place

\* No thread is inside, and none of what the invariant speaks of changes but the
\* list of degraded statements and the number of a file.
LEMMA IrOnlyKeeps ==
  ASSUME OptionsInv, SharedLock, NEW t \in Threads, IrOnly(t)
  PROVE  OptionsInv'
  <1>1. /\ \A u \in Threads : pc[u] = "out"
        /\ UNCHANGED <<pc, opts, twin, globals, req, report>>
    BY DEF IrOnly, LockFree, SharedLock, place
  <1>2. Ranges'
    BY <1>1 DEF OptionsInv, Ranges, IrOnly, FileNames
  <1>3. OneInside' /\ ReportIsOwn'
    BY <1>1 DEF OptionsInv, OneInside, ReportIsOwn
  <1>4. QED
    BY <1>1, <1>2, <1>3, EnoughForOne

\* The invariant reads these variables only.
LEMMA UntouchedKeeps ==
  ASSUME OptionsInv, UNCHANGED <<pc, job, place, driver, req, report>>
  PROVE  OptionsInv'
  <1>1. UNCHANGED <<pc, file, opts, twin, globals, degraded, req, report>>
    BY DEF job, place, driver
  <1>2. Ranges'
    BY <1>1 DEF OptionsInv, Ranges
  <1>3. OneInside' /\ ReportIsOwn'
    BY <1>1 DEF OptionsInv, OneInside, ReportIsOwn
  <1>4. ListIsOwn'
    BY <1>1 DEF OptionsInv, ListIsOwn, File
  <1>5. GlobalsAreOwn' /\ RequestsCarryOwnOptions'
    BY <1>1 DEF OptionsInv, GlobalsAreOwn, RequestsCarryOwnOptions, Due
  <1>6. QED
    BY <1>2, <1>3, <1>4, <1>5 DEF OptionsInv

LEMMA NextOptions == ASSUME SharedLock PROVE OptionsInv /\ [Next]_vars => OptionsInv'
  <1> SUFFICES ASSUME OptionsInv, [Next]_vars PROVE OptionsInv'
    OBVIOUS
  <1> USE SharedLock
  <1>0. Ranges /\ GlobalsAreOwn /\ ListIsOwn /\ RequestsCarryOwnOptions /\ ReportIsOwn
    BY DEF OptionsInv
  <1>1. ASSUME NEW t \in Threads, SetOptions(t) PROVE OptionsInv'
    <2>1. opts[t] \in Options
      BY <1>0 DEF Ranges
    <2>2. globals' \in Requests /\ globals'.best = opts[t].best
      BY <1>0, <1>1, <2>1 DEF SetOptions, Ranges, Requests, Numerics, Suffixes, Options
    <2>3. /\ pc[t] # "out" /\ Goto(t, "front") /\ "front" \in PCs
          /\ UNCHANGED <<job, degraded, req, report, twin>>
      BY <1>1 DEF SetOptions, place, PCs
    <2>4. ReportIsOwn'
      BY <1>0, <2>3 DEF ReportIsOwn
    <2>5. QED
      BY <1>0, <2>2, <2>3, <2>4, StepKeeps DEF Ranges
  <1>2. ASSUME NEW t \in Threads, FrontEnd(t) PROVE OptionsInv'
    <2>1. /\ pc[t] = "front" /\ Goto(t, "heap") /\ "heap" \in PCs
          /\ UNCHANGED <<job, globals, req, report, twin>> /\ degraded' = File(t)
      BY <1>2 DEF FrontEnd, place, PCs
    <2>2. File(t) \in FileNames
      BY <1>0 DEF Ranges, File, FileNames
    <2>3. ReportIsOwn'
      BY <1>0, <2>1 DEF ReportIsOwn
    <2>4. globals.best = opts[t].best
      BY <1>0, <2>1 DEF GlobalsAreOwn
    <2>5. QED
      BY <1>0, <2>1, <2>2, <2>3, <2>4, StepKeeps DEF Ranges
  <1>3. ASSUME NEW t \in Threads, SetHeap(t) PROVE OptionsInv'
    <2>1. /\ pc[t] = "heap" /\ Goto(t, "infer") /\ "infer" \in PCs
          /\ UNCHANGED <<job, degraded, req, report, twin>>
      BY <1>3 DEF SetHeap, place, PCs
    <2>2. opts[t] \in Options /\ globals.best = opts[t].best /\ degraded = File(t)
      BY <1>0, <2>1 DEF Ranges, GlobalsAreOwn, ListIsOwn
    <2>3. /\ globals' \in Requests /\ globals'.best = opts[t].best
          /\ globals'.heap = opts[t].heap
      BY <1>0, <1>3, <2>2 DEF SetHeap, Ranges, Requests, Options
    <2>4. ReportIsOwn'
      BY <1>0, <2>1 DEF ReportIsOwn
    <2>5. QED
      BY <1>0, <2>1, <2>2, <2>3, <2>4, StepKeeps DEF Ranges
  <1>4. ASSUME NEW t \in Threads, Infer(t) PROVE OptionsInv'
    <2>1. /\ pc[t] = "infer" /\ Goto(t, "pass")
          /\ UNCHANGED <<job, driver, req, report>> /\ twin' \in [Threads -> BOOLEAN]
      BY <1>0, <1>4 DEF Infer, Ranges
    <2>2. QED
      BY <2>1, QuietStepKeeps
  <1>5. ASSUME NEW t \in Threads, Raise(t) PROVE OptionsInv'
    <2>1. /\ pc[t] # "out" /\ Goto(t, "out")
          /\ UNCHANGED <<job, driver, req, report>> /\ twin' \in [Threads -> BOOLEAN]
      BY <1>0, <1>5 DEF Raise, place, Ranges
    <2>2. QED
      BY <2>1, QuietStepKeeps
  <1>6. ASSUME NEW t \in Threads, SetPass(t) PROVE OptionsInv'
    <2>1. /\ pc[t] = "pass" /\ Goto(t, "send") /\ "send" \in PCs
          /\ UNCHANGED <<job, degraded, req, report, twin>>
      BY <1>6 DEF SetPass, place, PCs
    <2>2. /\ globals.best = opts[t].best /\ globals.heap = opts[t].heap /\ degraded = File(t)
          /\ opts[t] \in Options /\ twin[t] \in BOOLEAN
      BY <1>0, <2>1 DEF Ranges, GlobalsAreOwn, ListIsOwn
    <2>3. globals' = Due(opts[t], twin[t])
      BY <1>0, <1>6, <2>2 DEF SetPass, Due, Ranges, Requests
    <2>4. Due(opts[t], twin[t]) \in Requests
      BY <2>2, DueIsRequest
    <2>5. /\ Due(opts[t], twin[t]).best = opts[t].best
          /\ Due(opts[t], twin[t]).heap = opts[t].heap
      BY DEF Due
    <2>6. ReportIsOwn'
      BY <1>0, <2>1 DEF ReportIsOwn
    <2>7. QED
      BY <1>0, <2>1, <2>2, <2>3, <2>4, <2>5, <2>6, StepKeeps DEF Ranges
  <1>7. ASSUME NEW t \in Threads, Send(t) PROVE OptionsInv'
    <2>1. /\ pc[t] = "send" /\ Goto(t, "lower") /\ "lower" \in PCs
          /\ UNCHANGED <<job, globals, degraded, report, twin>>
          /\ req' = [req EXCEPT ![t] = globals]
      BY <1>7 DEF Send, place, driver, PCs
    <2>2. /\ globals = Due(opts[t], twin[t]) /\ degraded = File(t)
          /\ globals.best = opts[t].best /\ globals.heap = opts[t].heap
      BY <1>0, <2>1 DEF GlobalsAreOwn, ListIsOwn
    <2>3. req' \in [Threads -> Requests] /\ req'[t] = globals
      BY <1>0, <2>1 DEF Ranges
    <2>4. ReportIsOwn'
      BY <1>0, <2>1 DEF ReportIsOwn
    <2>5. QED
      BY <1>0, <2>1, <2>2, <2>3, <2>4, StepKeeps DEF Ranges
  <1>8. ASSUME NEW t \in Threads, Translate(t) PROVE OptionsInv'
    <2>1. pc[t] = "lower" /\ (\E srv : GoOn(t, srv)) /\ UNCHANGED <<job, driver, req, report>>
      BY <1>8 DEF Translate
    <2>2. QED
      BY <1>0, <2>1, GoOnMoves, QuietStepKeeps
  <1>9. ASSUME NEW t \in Threads, OneShot(t) PROVE OptionsInv'
    <2>1. pc[t] = "lower" /\ (\E srv : GoOn(t, srv)) /\ UNCHANGED <<job, driver, req, report>>
      BY <1>9 DEF OneShot
    <2>2. QED
      BY <1>0, <2>1, GoOnMoves, QuietStepKeeps
  <1>10. ASSUME NEW t \in Threads, Finish(t) PROVE OptionsInv'
    <2>1. /\ pc[t] = "pass" /\ Goto(t, "out") /\ "out" \in PCs
          /\ UNCHANGED <<job, globals, degraded, req, twin>>
          /\ report' = [report EXCEPT ![t] = [of |-> File(t), degraded |-> degraded]]
      BY <1>10 DEF Finish, place, driver, PCs
    <2>2. degraded = File(t)
      BY <1>0, <2>1 DEF ListIsOwn
    <2>3. /\ report' \in [Threads -> [of : FileNames, degraded : FileNames]]
          /\ ReportIsOwn'
      BY <1>0, <2>1, <2>2 DEF Ranges, ReportIsOwn
    <2>4. QED
      BY <1>0, <2>1, <2>3, StepKeeps DEF Ranges
  <1>11. ASSUME NEW b \in Backends, Restart(b) PROVE OptionsInv'
    BY <1>11, UntouchedKeeps DEF Restart
  <1>12. CASE UNCHANGED vars
    BY <1>12, UntouchedKeeps DEF vars
  <1>13. QED
    BY <1>1, <1>2, <1>3, <1>4, <1>5, <1>6, <1>7, <1>8, <1>9, <1>10, <1>11, <1>12,
       BeginKeeps, IrOnlyKeeps DEF Next

\* The strengthened invariant, for threads that share one Session.
THEOREM OptionsStay == ASSUME SharedLock PROVE Spec => []OptionsInv
  <1>1. OptionsInv /\ [Next]_vars => OptionsInv'
    BY NextOptions, SharedLock
  <1>2. QED
    BY InitOptions, <1>1, PTL DEF Spec

\* Every request carries the options of its own translation and the numeric mode
\* and suffix of its own pass (driver.py, send_node and invoke_lean_backend).
THEOREM RequestsAreOwn == ASSUME SharedLock PROVE Spec => []RequestsCarryOwnOptions
  <1>1. OptionsInv => RequestsCarryOwnOptions
    BY DEF OptionsInv
  <1>2. QED
    BY <1>1, OptionsStay, SharedLock, PTL

\* A result lists the degraded statements of its own source (driver.py,
\* _LAST_UNSUPPORTED).
THEOREM ReportsAreOwn == ASSUME SharedLock PROVE Spec => []ReportIsOwn
  <1>1. OptionsInv => ReportIsOwn
    BY DEF OptionsInv
  <1>2. QED
    BY <1>1, OptionsStay, SharedLock, PTL
-----------------------------------------------------------------------------
(* Types.  No lock is needed for these.                                        *)

Inside(t) == pc[t] \in {"pass", "send", "lower"}

\* A thread inside is at a pass the file has, or just after the last one.
PlaceOK ==
  \A t \in Threads : Inside(t) =>
    /\ at[t] <= Len(prog[t]) + 1
    /\ pc[t] # "pass" => at[t] <= Len(prog[t])
    /\ twin[t] => at[t] <= Len(prog[t]) /\ Twinned(prog[t], opts[t], at[t])
    /\ at[t] = 0 => HasPrelude(prog[t], opts[t])

TypeInv == TypeOK /\ PlaceOK

LEMMA FileOf ==
  ASSUME NEW p \in Programs \cup {<<>>}
  PROVE  /\ Len(p) \in Nat /\ DOMAIN p = 1..Len(p)
         /\ \A i \in DOMAIN p : /\ p[i] \in Statements
                                /\ p[i].name \in NamesOf(p) /\ p[i].uses \subseteq NamesOf(p)
                                /\ p[i].methods \subseteq MethodsOf(p) /\ p[i].asks \subseteq AsksOf(p)
         /\ NamesOf(p) \subseteq Names /\ MethodsOf(p) \subseteq Methods /\ AsksOf(p) \subseteq Methods
<1>1. p \in Seq(Statements)
  <2>1. Programs \subseteq Seq(Statements)
    BY ConstantsAssumption
  <2>2. CASE p \in Programs
    BY <2>1, <2>2
  <2>3. CASE p = <<>>
    BY <2>3
  <2>4. QED
    BY <2>2, <2>3
<1>2. Len(p) \in Nat /\ DOMAIN p = 1..Len(p) /\ \A i \in DOMAIN p : p[i] \in Statements
  BY <1>1
<1>3. \A i \in DOMAIN p : /\ p[i].name \in Names /\ p[i].uses \subseteq Names
                          /\ p[i].methods \subseteq Methods /\ p[i].asks \subseteq Methods
  BY <1>2 DEF Statements
<1>4. QED
  BY <1>2, <1>3 DEF NamesOf, MethodsOf, AsksOf

LEMMA FreshIsServer == Fresh \in Servers
<1>1. Plain \in Requests
  BY DEF Plain, Requests, Numerics, Suffixes
<1>2. QED
  BY <1>1 DEF Fresh, Servers, NoClass

LEMMA EnterTypes ==
  ASSUME NEW r \in Requests, NEW srv \in Servers
  PROVE  /\ Enter(r, srv) \in Servers
         /\ Enter(r, srv).refs = r
         /\ Enter(r, srv).mutator = srv.mutator
         /\ Enter(r, srv).classes = srv.classes
         /\ Enter(r, srv).methods = srv.methods
         /\ Enter(r, srv).containers = srv.containers
         /\ Enter(r, srv).noncomp = srv.noncomp
BY DEF Enter, Servers

\* The methods of the registry once class s is registered under suffix x.
Declared(s, x, ds) ==
  {d \in ds : <<d[1], d[2]>> # <<s.name, x>>} \cup {<<s.name, x, m, s.info>> : m \in s.methods}

\* What a class adds to the registries before its methods are lowered.
LEMMA ReadyTypes ==
  ASSUME NEW s \in Statements, NEW srv \in Servers
  PROVE  /\ Ready(s, srv) \in Servers
         /\ Ready(s, srv).refs = srv.refs /\ Ready(s, srv).mutator = srv.mutator
         /\ Ready(s, srv).containers = srv.containers /\ Ready(s, srv).noncomp = srv.noncomp
         /\ Ready(s, srv).classes =
              IF s.kind = "class" THEN [srv.classes EXCEPT ![<<s.name, srv.refs.suffix>>] = s.info]
              ELSE srv.classes
         /\ Ready(s, srv).methods =
              IF s.kind = "class" THEN Declared(s, srv.refs.suffix, srv.methods) ELSE srv.methods
<1>1. /\ s.name \in Names /\ s.info \in Infos /\ s.methods \subseteq Methods
  BY DEF Statements
<1>2. /\ srv.refs.suffix \in Suffixes
      /\ srv.classes \in [Names \X Suffixes -> Infos \cup {NoClass}]
      /\ srv.methods \subseteq Names \X Suffixes \X Methods \X Infos
  BY DEF Servers, Requests
<1> DEFINE k == <<s.name, srv.refs.suffix>>
           D == Declared(s, srv.refs.suffix, srv.methods)
<1>3. k \in Names \X Suffixes
  BY <1>1, <1>2
<1>4. D \subseteq Names \X Suffixes \X Methods \X Infos
  BY <1>1, <1>2 DEF Declared
<1>5. CASE s.kind = "class"
  <2>1. Ready(s, srv) = [srv EXCEPT !.classes = [srv.classes EXCEPT ![k] = s.info], !.methods = D]
    BY <1>5 DEF Ready, RegisterClass, Servers, Declared
  <2> HIDE DEF k, D
  <2>2. [srv.classes EXCEPT ![k] = s.info] \in [Names \X Suffixes -> Infos \cup {NoClass}]
    BY <1>1, <1>2, <1>3
  <2> DEFINE C == [srv.classes EXCEPT ![k] = s.info]
  <2> HIDE DEF C
  <2>3. [srv EXCEPT !.classes = C, !.methods = D] \in Servers
    BY <1>4, <2>2 DEF Servers, C
  <2>4. /\ [srv EXCEPT !.classes = C, !.methods = D].refs = srv.refs
        /\ [srv EXCEPT !.classes = C, !.methods = D].mutator = srv.mutator
        /\ [srv EXCEPT !.classes = C, !.methods = D].containers = srv.containers
        /\ [srv EXCEPT !.classes = C, !.methods = D].noncomp = srv.noncomp
        /\ [srv EXCEPT !.classes = C, !.methods = D].classes = C
        /\ [srv EXCEPT !.classes = C, !.methods = D].methods = D
    BY DEF Servers
  <2>5. Ready(s, srv) = [srv EXCEPT !.classes = C, !.methods = D]
    BY <2>1 DEF C
  <2>6. QED
    BY <1>5, <2>3, <2>4, <2>5 DEF C, k, D
<1>6. CASE s.kind # "class"
  BY <1>6 DEF Ready
<1>7. QED
  BY <1>5, <1>6

\* What lowering statement s adds to the registries.
LEMMA LowerTypes ==
  ASSUME NEW s \in Statements, NEW srv \in Servers
  PROVE  /\ Lower(s, srv) \in Servers
         /\ Lower(s, srv).containers = srv.containers
         /\ Lower(s, srv).classes = Ready(s, srv).classes
         /\ Lower(s, srv).methods = Ready(s, srv).methods
         /\ Lower(s, srv).mutator =
              (srv.mutator \/ (s.kind = "class" /\ Faulty(s, srv) /\ ~srv.refs.best /\ ~srv.refs.heap))
         /\ Lower(s, srv).noncomp =
              IF s.kind = "def" /\ (Tainted(s, srv) \/ (s.real /\ srv.refs.numeric = "exact"))
              THEN srv.noncomp \cup {<<s.name, srv.refs.suffix>>} ELSE srv.noncomp
<1>1. s.name \in Names /\ s.kind \in {"class", "def", "guard", "top"}
  BY DEF Statements
<1>2. /\ srv.refs \in Requests /\ srv.refs.suffix \in Suffixes /\ srv.mutator \in BOOLEAN
      /\ srv.noncomp \in SUBSET (Names \X Suffixes)
  BY DEF Servers, Requests
<1> DEFINE k == <<s.name, srv.refs.suffix>>
           rs == Ready(s, srv)
<1>3. k \in Names \X Suffixes
  BY <1>1, <1>2
<1>4. /\ rs \in Servers /\ rs.containers = srv.containers /\ rs.noncomp = srv.noncomp
      /\ rs.mutator = srv.mutator
  BY ReadyTypes
<1>5. CASE s.kind = "class"
  <2> DEFINE mark == Faulty(s, srv) /\ ~srv.refs.best /\ ~srv.refs.heap
  <2>1. Lower(s, srv) = [rs EXCEPT !.mutator = rs.mutator \/ mark]
    BY <1>4, <1>5 DEF Lower, LowerClass, Ready, Servers
  <2> HIDE DEF rs, mark
  <2>2. /\ [rs EXCEPT !.mutator = rs.mutator \/ mark] \in Servers
        /\ [rs EXCEPT !.mutator = rs.mutator \/ mark].mutator = (rs.mutator \/ mark)
        /\ [rs EXCEPT !.mutator = rs.mutator \/ mark].containers = rs.containers
        /\ [rs EXCEPT !.mutator = rs.mutator \/ mark].classes = rs.classes
        /\ [rs EXCEPT !.mutator = rs.mutator \/ mark].methods = rs.methods
        /\ [rs EXCEPT !.mutator = rs.mutator \/ mark].noncomp = rs.noncomp
    BY <1>4 DEF Servers
  <2>3. QED
    BY <1>4, <1>5, <2>1, <2>2 DEF rs, mark
<1>6. CASE s.kind = "def"
  <2>1. Lower(s, srv) = LowerDef(s, srv) /\ rs = srv
    BY <1>6 DEF Lower, Ready
  <2> HIDE DEF k
  <2>2. srv.noncomp \cup {k} \in SUBSET (Names \X Suffixes)
    BY <1>2, <1>3
  <2>3. QED
    BY <1>6, <1>2, <2>1, <2>2 DEF LowerDef, Servers, k
<1>7. CASE s.kind \in {"guard", "top"}
  BY <1>7, <1>2 DEF Lower, Ready
<1>8. QED
  BY <1>1, <1>5, <1>6, <1>7

\* What the prelude adds: container fields of classes the file declares.
LEMMA PreludeTypes ==
  ASSUME NEW p \in Programs \cup {<<>>}, NEW o, NEW srv \in Servers
  PROVE  /\ LowerPrelude(p, o, srv) \in Servers
         /\ LowerPrelude(p, o, srv) = [srv EXCEPT !.containers = srv.containers \cup ContainersOf(p, o)]
         /\ \A n \in Names, x \in Suffixes, f \in Fields :
              <<n, x, f>> \in ContainersOf(p, o) => n \in NamesOf(p)
<1>1. ContainersOf(p, o) \subseteq Names \X Suffixes \X Fields
  BY DEF ContainersOf, Suffixes
<1>2. LowerPrelude(p, o, srv) = [srv EXCEPT !.containers = srv.containers \cup ContainersOf(p, o)]
  BY DEF LowerPrelude, Servers
<1>3. LowerPrelude(p, o, srv) \in Servers
  BY <1>1, <1>2 DEF Servers
<1>4. ASSUME NEW n \in Names, NEW x \in Suffixes, NEW f \in Fields, <<n, x, f>> \in ContainersOf(p, o)
      PROVE  n \in NamesOf(p)
  <2>1. \E i \in DOMAIN p : p[i].name = n
    BY <1>4 DEF ContainersOf
  <2>2. QED
    BY <2>1, FileOf
<1>5. QED
  BY <1>2, <1>3, <1>4

LEMMA AfterTypes ==
  ASSUME NEW r \in Requests, NEW p \in Programs \cup {<<>>}, NEW o, NEW i \in 0..Len(p),
         NEW srv \in Servers
  PROVE  After(r, p, o, i, srv) \in Servers
<1>1. Enter(r, srv) \in Servers
  BY EnterTypes
<1>2. CASE i = 0
  BY <1>1, <1>2, PreludeTypes DEF After
<1>3. CASE i # 0
  <2>1. p[i] \in Statements
    BY <1>3, FileOf
  <2>2. QED
    BY <1>1, <1>3, <2>1, LowerTypes DEF After
<1>4. QED
  BY <1>2, <1>3

\* A process of its own leaves nothing and meets nothing.
LEMMA InitTypes == Init => TypeInv
<1> SUFFICES ASSUME Init PROVE TypeInv
  OBVIOUS
<1>1. 0 \in 0..MaxFiles
  BY ConstantsAssumption
<1>2. /\ pc \in [Threads -> PCs]
      /\ file \in [Threads -> 0..MaxFiles]
      /\ prog \in [Threads -> Programs \cup {<<>>}]
      /\ at \in [Threads -> Nat] /\ twin \in [Threads -> BOOLEAN]
      /\ degraded \in Files
      /\ report \in [Threads -> [of : Files, degraded : Files]]
      /\ intact \in [Threads -> BOOLEAN]
      /\ past \in [Backends -> [names : SUBSET Names, methods : SUBSET Methods, failed : BOOLEAN]]
  BY <1>1 DEF Init, PCs, Files, NoReport, NoPast
<1>3. /\ opts \in [Threads -> Options]
      /\ globals \in Requests /\ req \in [Threads -> Requests]
  BY DEF Init, Options, Plain, Requests, Numerics, Suffixes
<1>4. server \in [Backends -> Servers]
  BY FreshIsServer DEF Init
<1>5. \A t \in Threads : pc[t] = "out"
  BY DEF Init
<1>6. QED
  BY <1>2, <1>3, <1>4, <1>5 DEF TypeInv, TypeOK, PlaceOK, Inside

LEMMA ThreadTypes ==
  ASSUME TypeInv, NEW t \in Threads
  PROVE  /\ file[t] \in 0..MaxFiles /\ prog[t] \in Programs \cup {<<>>} /\ opts[t] \in Options
         /\ at[t] \in Nat /\ twin[t] \in BOOLEAN /\ req[t] \in Requests
         /\ Len(prog[t]) \in Nat
         /\ BackendOf[t] \in Backends
         /\ server[BackendOf[t]] \in Servers
         /\ past[BackendOf[t]] \in [names : SUBSET Names, methods : SUBSET Methods, failed : BOOLEAN]
<1>1. BackendOf[t] \in Backends
  BY ConstantsAssumption
<1>2. prog[t] \in Programs \cup {<<>>}
  BY DEF TypeInv, TypeOK
<1>3. QED
  BY <1>1, <1>2, FileOf DEF TypeInv, TypeOK

\* Going on to the next pass of the file, or leaving it.
LEMMA GoOnTypes ==
  ASSUME TypeInv, NEW t \in Threads, pc[t] = "lower", NEW srv, GoOn(t, srv), UNCHANGED job
  PROVE  /\ pc' \in [Threads -> PCs] /\ at' \in [Threads -> Nat] /\ twin' \in [Threads -> BOOLEAN]
         /\ PlaceOK'
         /\ \A u \in Threads : u # t => pc'[u] = pc[u] /\ at'[u] = at[u] /\ twin'[u] = twin[u]
<1>1. /\ pc \in [Threads -> PCs] /\ at \in [Threads -> Nat] /\ twin \in [Threads -> BOOLEAN]
      /\ UNCHANGED <<prog, opts>>
  BY DEF TypeInv, TypeOK, job
<1>2. /\ at[t] \in Nat /\ Len(prog[t]) \in Nat /\ at[t] <= Len(prog[t])
      /\ twin[t] => Twinned(prog[t], opts[t], at[t])
  BY ThreadTypes DEF TypeInv, PlaceOK, Inside
<1>3. CASE Goto(t, "out") /\ UNCHANGED place
  <2>1. pc' \in [Threads -> PCs] /\ pc'[t] = "out" /\ \A u \in Threads : u # t => pc'[u] = pc[u]
    BY <1>1, <1>3 DEF Goto, PCs
  <2>2. UNCHANGED <<at, twin>>
    BY <1>3 DEF place
  <2>3. ASSUME NEW u \in Threads, Inside(u)'
        PROVE  u # t /\ Inside(u) /\ pc'[u] = pc[u]
    BY <2>1, <2>3 DEF Inside
  <2>4. PlaceOK'
    BY <1>1, <2>1, <2>2, <2>3 DEF TypeInv, PlaceOK, Twinned, HasPrelude
  <2>5. QED
    BY <1>1, <2>1, <2>2, <2>4
<1>4. CASE Goto(t, "pass") /\ Advance(t)
  <2>1. pc' \in [Threads -> PCs] /\ pc'[t] = "pass" /\ \A u \in Threads : u # t => pc'[u] = pc[u]
    BY <1>1, <1>4 DEF Goto, PCs
  <2>2. /\ at' \in [Threads -> Nat] /\ twin' \in [Threads -> BOOLEAN]
        /\ \A u \in Threads : u # t => at'[u] = at[u] /\ twin'[u] = twin[u]
        /\ \/ /\ Twinned(prog[t], opts[t], at[t]) /\ ~twin[t]
              /\ twin'[t] = TRUE /\ at'[t] = at[t]
           \/ /\ ~(Twinned(prog[t], opts[t], at[t]) /\ ~twin[t])
              /\ twin'[t] = FALSE /\ at'[t] = at[t] + 1
    <3>1. CASE Twinned(prog[t], opts[t], at[t]) /\ ~twin[t]
      BY <1>1, <1>4, <3>1 DEF Advance
    <3>2. CASE ~(Twinned(prog[t], opts[t], at[t]) /\ ~twin[t])
      <4>1. /\ twin' = [twin EXCEPT ![t] = FALSE] /\ at' = [at EXCEPT ![t] = @ + 1]
        BY <1>4, <3>2 DEF Advance
      <4>2. QED
        BY <1>1, <1>2, <3>2, <4>1
    <3>3. QED
      BY <3>1, <3>2
  <2>3. /\ at'[t] <= Len(prog[t]) + 1
        /\ twin'[t] => at'[t] <= Len(prog[t]) /\ Twinned(prog[t], opts[t], at'[t])
        /\ at'[t] # 0
    BY <1>2, <2>2 DEF Twinned
  <2>4. ASSUME NEW u \in Threads, Inside(u)', u # t
        PROVE  Inside(u) /\ pc'[u] = pc[u] /\ at'[u] = at[u] /\ twin'[u] = twin[u]
    BY <2>1, <2>2, <2>4 DEF Inside
  <2>5. PlaceOK'
    BY <1>1, <2>1, <2>3, <2>4 DEF TypeInv, PlaceOK, Twinned, HasPrelude
  <2>6. QED
    BY <2>1, <2>2, <2>5
<1>5. QED
  BY <1>3, <1>4 DEF GoOn

LEMMA LeaveTypes ==
  ASSUME TypeInv, NEW t \in Threads, NEW f \in BOOLEAN, Leave(t, f)
  PROVE  past' \in [Backends -> [names : SUBSET Names, methods : SUBSET Methods, failed : BOOLEAN]]
<1>1. NamesOf(prog[t]) \subseteq Names /\ MethodsOf(prog[t]) \subseteq Methods
  BY ThreadTypes, FileOf
<1>2. QED
  BY <1>1 DEF TypeInv, TypeOK, Leave

LEMMA NextTypes == TypeInv /\ [Next]_vars => TypeInv'
<1> SUFFICES ASSUME TypeInv, [Next]_vars PROVE TypeInv'
  OBVIOUS
<1>0. /\ pc \in [Threads -> PCs]
      /\ file \in [Threads -> 0..MaxFiles]
      /\ prog \in [Threads -> Programs \cup {<<>>}]
      /\ opts \in [Threads -> Options]
      /\ at \in [Threads -> Nat] /\ twin \in [Threads -> BOOLEAN]
      /\ globals \in Requests
      /\ degraded \in Files
      /\ req \in [Threads -> Requests]
      /\ report \in [Threads -> [of : Files, degraded : Files]]
      /\ server \in [Backends -> Servers]
      /\ intact \in [Threads -> BOOLEAN]
      /\ past \in [Backends -> [names : SUBSET Names, methods : SUBSET Methods, failed : BOOLEAN]]
      /\ PlaceOK
      /\ MaxFiles \in Nat
  BY ConstantsAssumption DEF TypeInv, TypeOK
\* TypeInv after a step that moves at most thread t.
<1>a. ASSUME NEW t \in Threads,
             pc' \in [Threads -> PCs], at' \in [Threads -> Nat], twin' \in [Threads -> BOOLEAN],
             PlaceOK',
             file' \in [Threads -> 0..MaxFiles],
             prog' \in [Threads -> Programs \cup {<<>>}],
             opts' \in [Threads -> Options],
             globals' \in Requests,
             degraded' \in Files,
             req' \in [Threads -> Requests],
             report' \in [Threads -> [of : Files, degraded : Files]],
             server' \in [Backends -> Servers],
             intact' \in [Threads -> BOOLEAN],
             past' \in [Backends -> [names : SUBSET Names, methods : SUBSET Methods, failed : BOOLEAN]]
      PROVE  TypeInv'
  BY <1>a DEF TypeInv, TypeOK, PlaceOK, Inside
\* PlaceOK after a step that moves t to a place where PlaceOK asks no more of it.
<1>b. ASSUME NEW t \in Threads, NEW l \in PCs, Goto(t, l), UNCHANGED place,
             \A u \in Threads : u # t => prog'[u] = prog[u] /\ opts'[u] = opts[u],
             \/ l \notin {"pass", "send", "lower"}
             \/ /\ pc[t] \in {"pass", "send"} /\ at[t] <= Len(prog[t])
                /\ prog'[t] = prog[t] /\ opts'[t] = opts[t]
      PROVE  pc' \in [Threads -> PCs] /\ PlaceOK'
  <2>1. /\ pc' \in [Threads -> PCs] /\ pc'[t] = l /\ \A u \in Threads : u # t => pc'[u] = pc[u]
        /\ UNCHANGED <<at, twin>>
    BY <1>0, <1>b DEF Goto, place
  <2>2. ASSUME NEW u \in Threads, u # t, Inside(u)'
        PROVE  /\ Inside(u) /\ pc'[u] = pc[u] /\ prog'[u] = prog[u] /\ opts'[u] = opts[u]
    BY <1>b, <2>1, <2>2 DEF Inside
  <2>3. ASSUME Inside(t)'
        PROVE  /\ Inside(t) /\ at[t] <= Len(prog[t]) /\ prog'[t] = prog[t] /\ opts'[t] = opts[t]
    BY <1>b, <2>1, <2>3 DEF Inside
  <2>4. ASSUME NEW u \in Threads, Inside(u)'
        PROVE  /\ at'[u] <= Len(prog'[u]) + 1
               /\ pc'[u] # "pass" => at'[u] <= Len(prog'[u])
               /\ twin'[u] => at'[u] <= Len(prog'[u]) /\ Twinned(prog'[u], opts'[u], at'[u])
               /\ at'[u] = 0 => HasPrelude(prog'[u], opts'[u])
    BY <1>0, <2>1, <2>2, <2>3, <2>4 DEF PlaceOK
  <2>5. QED
    BY <2>1, <2>4 DEF PlaceOK, Inside
<1>1. ASSUME NEW t \in Threads, NEW p \in Programs, NEW o \in Options, Begin(t, p, o)
      PROVE  TypeInv'
  <2>1. pc' \in [Threads -> PCs] /\ PlaceOK'
    BY <1>0, <1>1, <1>b DEF Begin, PCs
  <2>2. file' \in [Threads -> 0..MaxFiles]
    BY <1>0, <1>1 DEF Begin
  <2>3. QED
    BY <1>0, <1>1, <1>a, <2>1, <2>2 DEF Begin, place, driver
<1>2. ASSUME NEW t \in Threads, SetOptions(t) PROVE TypeInv'
  <2>1. pc' \in [Threads -> PCs] /\ PlaceOK'
    BY <1>2, <1>b DEF SetOptions, PCs, job
  <2>2. opts[t].best \in BOOLEAN
    BY <1>0 DEF Options
  <2>3. globals' \in Requests
    BY <1>0, <1>2, <2>2 DEF SetOptions, Requests, Numerics, Suffixes
  <2>4. QED
    BY <1>0, <1>2, <1>a, <2>1, <2>3 DEF SetOptions, job, place, history
<1>3. ASSUME NEW t \in Threads, FrontEnd(t) PROVE TypeInv'
  <2>1. pc' \in [Threads -> PCs] /\ PlaceOK'
    BY <1>3, <1>b DEF FrontEnd, PCs, job
  <2>2. degraded' \in Files
    BY <1>0, <1>3 DEF FrontEnd, Files, File
  <2>3. QED
    BY <1>0, <1>3, <1>a, <2>1, <2>2 DEF FrontEnd, job, place, history
<1>4. ASSUME NEW t \in Threads, IrOnly(t) PROVE TypeInv'
  <2>1. file' \in [Threads -> 0..MaxFiles] /\ degraded' \in Files
    BY <1>0, <1>4 DEF IrOnly, Files
  <2>2. PlaceOK'
    BY <1>0, <1>4 DEF IrOnly, place, PlaceOK, Inside, Twinned, HasPrelude
  <2>3. QED
    BY <1>0, <1>4, <1>a, <2>1, <2>2 DEF IrOnly, place, history
<1>5. ASSUME NEW t \in Threads, SetHeap(t) PROVE TypeInv'
  <2>1. pc' \in [Threads -> PCs] /\ PlaceOK'
    BY <1>5, <1>b DEF SetHeap, PCs, job
  <2>2. opts[t].heap \in BOOLEAN
    BY <1>0 DEF Options
  <2>3. globals' \in Requests
    BY <1>0, <1>5, <2>2 DEF SetHeap, Requests
  <2>4. QED
    BY <1>0, <1>5, <1>a, <2>1, <2>3 DEF SetHeap, job, place, history
<1>6. ASSUME NEW t \in Threads, Infer(t) PROVE TypeInv'
  <2>1. /\ pc' \in [Threads -> PCs] /\ pc'[t] = "pass"
        /\ \A u \in Threads : u # t => pc'[u] = pc[u] /\ at'[u] = at[u] /\ twin'[u] = twin[u]
        /\ UNCHANGED <<prog, opts>>
        /\ at' \in [Threads -> Nat] /\ twin' \in [Threads -> BOOLEAN]
        /\ at'[t] = IF HasPrelude(prog[t], opts[t]) THEN 0 ELSE 1
        /\ twin'[t] = FALSE
    BY <1>0, <1>6 DEF Infer, Goto, job, PCs
  <2>2. at'[t] <= Len(prog[t]) + 1
    BY <2>1, ThreadTypes
  <2>3. \A u \in Threads : u # t /\ Inside(u)' => Inside(u)
    BY <2>1 DEF Inside
  <2>4. ASSUME NEW u \in Threads, Inside(u)'
        PROVE  /\ at'[u] <= Len(prog'[u]) + 1
               /\ pc'[u] # "pass" => at'[u] <= Len(prog'[u])
               /\ twin'[u] => at'[u] <= Len(prog'[u]) /\ Twinned(prog'[u], opts'[u], at'[u])
               /\ at'[u] = 0 => HasPrelude(prog'[u], opts'[u])
    <3>1. CASE u = t
      BY <2>1, <2>2, <3>1
    <3>2. CASE u # t
      BY <1>0, <2>1, <2>3, <2>4, <3>2 DEF PlaceOK
    <3>3. QED
      BY <3>1, <3>2
  <2>a. PlaceOK'
    BY <2>4 DEF PlaceOK, Inside
  <2>5. QED
    BY <1>0, <1>6, <1>a, <2>1, <2>a DEF Infer, job, driver, history
<1>7. ASSUME NEW t \in Threads, Raise(t) PROVE TypeInv'
  <2>1. pc' \in [Threads -> PCs] /\ PlaceOK'
    BY <1>7, <1>b DEF Raise, PCs, job
  <2>2. QED
    BY <1>0, <1>7, <1>a, <2>1 DEF Raise, job, place, driver, history
<1>8. ASSUME NEW t \in Threads, SetPass(t) PROVE TypeInv'
  <2>1. pc' \in [Threads -> PCs] /\ PlaceOK'
    BY <1>8, <1>b DEF SetPass, PCs, job
  <2>2. Due(opts[t], twin[t]) \in Requests
    BY <1>0, DueIsRequest
  <2>3. globals' \in Requests
    BY <1>0, <1>8, <2>2 DEF SetPass, Requests
  <2>4. QED
    BY <1>0, <1>8, <1>a, <2>1, <2>3 DEF SetPass, job, place, history
<1>9. ASSUME NEW t \in Threads, Send(t) PROVE TypeInv'
  <2>1. at[t] <= Len(prog[t])
    BY <1>0, <1>9 DEF Send, PlaceOK, Inside
  <2>2. pc' \in [Threads -> PCs] /\ PlaceOK'
    BY <1>9, <1>b, <2>1 DEF Send, PCs, job
  <2>3. QED
    BY <1>0, <1>9, <1>a, <2>2 DEF Send, job, place, driver, history
<1>10. ASSUME NEW t \in Threads, Translate(t) PROVE TypeInv'
  <2>1. /\ pc[t] = "lower" /\ (\E srv : GoOn(t, srv)) /\ UNCHANGED <<job, driver, req, report, intact>>
        /\ server' = [server EXCEPT ![BackendOf[t]] = After(req[t], prog[t], opts[t], at[t], @)]
        /\ Leave(t, TRUE) \/ UNCHANGED past
    BY <1>10 DEF Translate
  <2>2. /\ pc' \in [Threads -> PCs] /\ at' \in [Threads -> Nat] /\ twin' \in [Threads -> BOOLEAN]
        /\ PlaceOK'
    BY <2>1, GoOnTypes
  <2>3. at[t] \in 0..Len(prog[t])
    BY <1>0, <2>1, ThreadTypes DEF PlaceOK, Inside
  <2>4. server' \in [Backends -> Servers]
    BY <1>0, <2>1, <2>3, ThreadTypes, AfterTypes
  <2>5. past' \in [Backends -> [names : SUBSET Names, methods : SUBSET Methods, failed : BOOLEAN]]
    BY <1>0, <2>1, LeaveTypes
  <2>6. QED
    BY <1>0, <1>a, <2>1, <2>2, <2>4, <2>5 DEF job, driver
<1>11. ASSUME NEW t \in Threads, OneShot(t) PROVE TypeInv'
  <2>1. /\ pc[t] = "lower" /\ (\E srv : GoOn(t, srv)) /\ UNCHANGED <<job, driver, req, report>>
        /\ server' = [server EXCEPT ![BackendOf[t]] = Fresh]
        /\ past' = [past EXCEPT ![BackendOf[t]] = NoPast]
        /\ intact' = [u \in Threads |-> intact[u] /\ BackendOf[u] # BackendOf[t]]
    BY <1>11 DEF OneShot
  <2>2. /\ pc' \in [Threads -> PCs] /\ at' \in [Threads -> Nat] /\ twin' \in [Threads -> BOOLEAN]
        /\ PlaceOK'
    BY <2>1, GoOnTypes
  <2>3. /\ server' \in [Backends -> Servers]
        /\ past' \in [Backends -> [names : SUBSET Names, methods : SUBSET Methods, failed : BOOLEAN]]
        /\ intact' \in [Threads -> BOOLEAN]
    BY <1>0, <2>1, FreshIsServer DEF NoPast
  <2>4. QED
    BY <1>0, <1>a, <2>1, <2>2, <2>3 DEF job, driver
<1>12. ASSUME NEW t \in Threads, Finish(t) PROVE TypeInv'
  <2>1. pc' \in [Threads -> PCs] /\ PlaceOK'
    BY <1>12, <1>b DEF Finish, PCs, job
  <2>2. report' \in [Threads -> [of : Files, degraded : Files]]
    BY <1>0, <1>12 DEF Finish, Files, File
  <2>3. past' \in [Backends -> [names : SUBSET Names, methods : SUBSET Methods, failed : BOOLEAN]]
    BY <1>12, LeaveTypes DEF Finish
  <2>4. QED
    BY <1>0, <1>12, <1>a, <2>1, <2>2, <2>3 DEF Finish, job, place, driver
<1>13. ASSUME NEW b \in Backends, Restart(b) PROVE TypeInv'
  <2>1. /\ server' \in [Backends -> Servers]
        /\ past' \in [Backends -> [names : SUBSET Names, methods : SUBSET Methods, failed : BOOLEAN]]
        /\ intact' \in [Threads -> BOOLEAN]
    BY <1>0, <1>13, FreshIsServer DEF Restart, NoPast
  <2>2. UNCHANGED <<pc, file, prog, opts, at, twin, globals, degraded, req, report>>
    BY <1>13 DEF Restart, job, place, driver
  <2>3. QED
    BY <1>0, <2>1, <2>2 DEF TypeInv, TypeOK, PlaceOK, Inside, Twinned, HasPrelude
<1>14. CASE UNCHANGED vars
  <2>1. UNCHANGED <<pc, file, prog, opts, at, twin, globals, degraded, req, report, server,
                    intact, past>>
    BY <1>14 DEF vars, job, place, driver, history
  <2>2. QED
    BY <1>0, <2>1 DEF TypeInv, TypeOK, PlaceOK, Inside, Twinned, HasPrelude
<1>15. QED
  BY <1>1, <1>2, <1>3, <1>4, <1>5, <1>6, <1>7, <1>8, <1>9, <1>10, <1>11, <1>12, <1>13, <1>14 DEF Next

LEMMA TypesStay == Spec => []TypeInv
<1>1. QED
  BY InitTypes, NextTypes, PTL DEF Spec

\* Every variable stays in its range, for any locks, files and backends: whatever
\* the interleaving, a request is a legal one and no pass is past the file's end.
THEOREM TypeCorrect == Spec => []TypeOK
<1>1. TypeInv => TypeOK
  BY DEF TypeInv
<1>2. QED
  BY <1>1, TypesStay, PTL
-----------------------------------------------------------------------------
(* What a cold process knows before each pass: the recursive function Cold.    *)

\* A set of numbers that is closed under counting holds them all.
LEMMA Counting ==
  ASSUME NEW S, S \subseteq Nat, 0 \in S, \A n \in S : n + 1 \in S
  PROVE  \A n \in Nat : n \in S
<1> SUFFICES ASSUME NEW n \in Nat, n \notin S PROVE FALSE
  OBVIOUS
<1> DEFINE T == {m \in Nat : m \notin S}
<1>1. T \subseteq Nat /\ T # {}
  OBVIOUS
<1> HIDE DEF T
<1>2. IsWellFoundedOn(OpToRel(<, Nat), Nat)
  BY NatLessThanWellFounded
<1>3. \E x \in T : \A y \in T : ~ (<<y, x>> \in OpToRel(<, Nat))
  BY <1>1, <1>2, WFMin
<1>4. PICK x \in T : \A y \in T : ~ (<<y, x>> \in {ss \in Nat \X Nat : ss[1] < ss[2]})
  BY <1>3 DEF OpToRel
<1>5. x \in Nat /\ x \notin S /\ x # 0
  BY DEF T
<1>6. x - 1 \in Nat /\ x - 1 < x /\ (x - 1) + 1 = x
  BY <1>5
<1>7. x - 1 \notin T
  BY <1>4, <1>5, <1>6
<1>8. x - 1 \in S
  BY <1>6, <1>7 DEF T
<1>9. QED
  BY <1>5, <1>6, <1>8

\* Cold starts from a fresh process and takes one pass after the other.
LEMMA ColdSteps ==
  ASSUME NEW p \in Programs \cup {<<>>}, NEW o
  PROVE  /\ Cold(p, o)[0] = Fresh
         /\ \A k \in 0..(2 * Len(p) + 1) : Cold(p, o)[k + 1] = Pass(p, o, k, Cold(p, o)[k])
<1> DEFINE Upto(n, g) == g = [k \in 0..n |-> IF k = 0 THEN Fresh ELSE Pass(p, o, k - 1, g[k - 1])]
           S == {n \in Nat : \E g : Upto(n, g)}
<1>1. 0 \in S
  <2>1. Upto(0, [k \in 0..0 |-> Fresh])
    OBVIOUS
  <2>2. QED
    BY <2>1
<1>2. ASSUME NEW n \in S PROVE n + 1 \in S
  <2>1. PICK g : Upto(n, g)
    BY <1>2
  <2>2. n \in Nat
    BY <1>2
  <2> DEFINE h == [k \in 0..(n + 1) |-> IF k \in 0..n THEN g[k] ELSE Pass(p, o, n, g[n])]
  <2>3. \A k \in 0..n : h[k] = g[k] /\ k \in 0..(n + 1)
    BY <2>2
  <2>4. \A k \in 0..n : g[k] = IF k = 0 THEN Fresh ELSE Pass(p, o, k - 1, g[k - 1])
    BY <2>1
  <2>5. ASSUME NEW k \in 0..(n + 1)
        PROVE  h[k] = IF k = 0 THEN Fresh ELSE Pass(p, o, k - 1, h[k - 1])
    <3>1. CASE k \in 0..n /\ k = 0
      BY <2>3, <2>4, <3>1
    <3>2. CASE k \in 0..n /\ k # 0
      <4>1. k - 1 \in 0..n
        BY <2>2, <3>2
      <4>2. QED
        BY <2>3, <2>4, <3>2, <4>1
    <3>3. CASE k = n + 1
      <4>1. k \notin 0..n /\ k # 0 /\ k - 1 = n /\ n \in 0..n
        BY <2>2, <3>3
      <4>2. h[k] = Pass(p, o, n, g[n]) /\ h[n] = g[n]
        BY <2>3, <4>1
      <4>3. QED
        BY <4>1, <4>2
    <3>4. QED
      BY <2>2, <3>1, <3>2, <3>3
  <2>6. Upto(n + 1, h)
    BY <2>5
  <2> HIDE DEF h, Upto
  <2>7. (\E f : Upto(n + 1, f)) /\ n + 1 \in Nat
    BY <2>2, <2>6
  <2>8. QED
    BY <2>7
<1>3. \A n \in Nat : n \in S
  <2> HIDE DEF S
  <2>1. S \subseteq Nat
    BY DEF S
  <2>2. QED
    BY <1>1, <1>2, <2>1, Counting
<1>4. Len(p) \in Nat /\ 2 * Len(p) + 2 \in Nat
  BY FileOf
<1> DEFINE N == 2 * Len(p) + 2
<1>5. \E g : Upto(N, g)
  BY <1>3, <1>4
<1>6. Upto(N, Cold(p, o))
  BY <1>5 DEF Cold
<1> DEFINE c == Cold(p, o)
<1>7. \A k \in 0..N : c[k] = IF k = 0 THEN Fresh ELSE Pass(p, o, k - 1, c[k - 1])
  <2> HIDE DEF c, N
  <2>1. c = [k \in 0..N |-> IF k = 0 THEN Fresh ELSE Pass(p, o, k - 1, c[k - 1])]
    BY <1>6 DEF c
  <2>2. QED
    BY <2>1
<1> HIDE DEF c
<1>8. c[0] = Fresh
  BY <1>4, <1>7
<1>9. ASSUME NEW k \in 0..(2 * Len(p) + 1) PROVE c[k + 1] = Pass(p, o, k, c[k])
  <2>1. k + 1 \in 0..N /\ k + 1 # 0 /\ (k + 1) - 1 = k
    BY <1>4
  <2>2. QED
    BY <1>7, <2>1
<1>10. QED
  BY <1>8, <1>9 DEF c

LEMMA Numbering ==
  ASSUME NEW i \in Nat
  PROVE  /\ Number(i, FALSE) = 2 * i /\ Number(i, TRUE) = 2 * i + 1
         /\ (2 * i) \div 2 = i /\ (2 * i + 1) \div 2 = i
         /\ ~((2 * i) % 2 = 1) /\ (2 * i + 1) % 2 = 1
BY DEF Number

LEMMA PassAt ==
  ASSUME NEW p, NEW o, NEW i \in Nat, NEW tw \in BOOLEAN, NEW srv
  PROVE  Pass(p, o, Number(i, tw), srv) =
           IF Sent(p, o, i, tw) THEN After(Due(o, tw), p, o, i, srv) ELSE srv
<1>1. CASE tw = TRUE
  <2>1. Number(i, TRUE) \div 2 = i /\ (Number(i, TRUE) % 2 = 1) = TRUE
    BY Numbering
  <2>2. QED
    BY <1>1, <2>1 DEF Pass
<1>2. CASE tw = FALSE
  <2>1. Number(i, FALSE) \div 2 = i /\ ~(Number(i, FALSE) % 2 = 1)
    BY Numbering
  <2>2. QED
    BY <1>2, <2>1 DEF Pass, Due, Sent
<1>3. QED
  BY <1>1, <1>2

\* The pass the driver comes to next sees what the one before has left.
LEMMA ColdNext ==
  ASSUME NEW p \in Programs \cup {<<>>}, NEW o, NEW i \in 0..Len(p), NEW tw \in BOOLEAN,
         Sent(p, o, i, tw)
  PROVE  /\ Twinned(p, o, i) /\ ~tw =>
              Cold(p, o)[Number(i, TRUE)] = After(Due(o, tw), p, o, i, Cold(p, o)[Number(i, tw)])
         /\ ~(Twinned(p, o, i) /\ ~tw) =>
              Cold(p, o)[Number(i + 1, FALSE)] = After(Due(o, tw), p, o, i, Cold(p, o)[Number(i, tw)])
<1> DEFINE c == Cold(p, o)
<1>0. Len(p) \in Nat /\ i \in Nat
  BY FileOf
<1>1. \A k \in 0..(2 * Len(p) + 1) : c[k + 1] = Pass(p, o, k, c[k])
  BY ColdSteps
<1> HIDE DEF c
<1>2. \A x \in BOOLEAN : c[Number(i, x) + 1] = Pass(p, o, Number(i, x), c[Number(i, x)])
  <2>1. 2 * i \in 0..(2 * Len(p) + 1) /\ 2 * i + 1 \in 0..(2 * Len(p) + 1)
    BY <1>0
  <2>2. QED
    BY <1>0, <1>1, <2>1, Numbering
<1>3. c[Number(i, tw) + 1] = After(Due(o, tw), p, o, i, c[Number(i, tw)])
  BY <1>0, <1>2, PassAt
<1>4. Number(i, FALSE) + 1 = Number(i, TRUE) /\ Number(i, TRUE) + 1 = Number(i + 1, FALSE)
  BY <1>0 DEF Number
<1>5. CASE tw
  BY <1>3, <1>4, <1>5 DEF c
<1>6. CASE ~tw /\ Twinned(p, o, i)
  BY <1>3, <1>4, <1>6 DEF c
<1>7. CASE ~tw /\ ~Twinned(p, o, i)
  <2>1. ~Sent(p, o, i, TRUE)
    BY <1>7 DEF Sent
  <2>2. \A x \in BOOLEAN : ~Sent(p, o, i, x) => c[Number(i, x) + 1] = c[Number(i, x)]
    BY <1>0, <1>2, PassAt
  <2>3. c[Number(i, TRUE) + 1] = c[Number(i, TRUE)]
    BY <2>1, <2>2
  <2>4. QED
    BY <1>3, <1>4, <1>7, <2>3 DEF c
<1>8. QED
  BY <1>5, <1>6, <1>7

\* The first pass sees a fresh process.
LEMMA ColdStarts ==
  ASSUME NEW p \in Programs \cup {<<>>}, NEW o
  PROVE  Cold(p, o)[Number(IF HasPrelude(p, o) THEN 0 ELSE 1, FALSE)] = Fresh
<1> DEFINE c == Cold(p, o)
<1>0. Len(p) \in Nat /\ 0 \in 0..(2 * Len(p) + 1) /\ 1 \in 0..(2 * Len(p) + 1)
  BY FileOf
<1>1. /\ c[0] = Fresh
      /\ \A k \in 0..(2 * Len(p) + 1) : c[k + 1] = Pass(p, o, k, c[k])
  BY ColdSteps
<1> HIDE DEF c
<1>2. c[1] = Pass(p, o, 0, c[0]) /\ c[2] = Pass(p, o, 1, c[1])
  <2>1. c[0 + 1] = Pass(p, o, 0, c[0]) /\ c[1 + 1] = Pass(p, o, 1, c[1])
    BY <1>0, <1>1
  <2>2. 0 + 1 = 1 /\ 1 + 1 = 2
    OBVIOUS
  <2>3. QED
    BY <2>1, <2>2
<1>3. Number(0, FALSE) = 0 /\ Number(0, TRUE) = 1 /\ Number(1, FALSE) = 2
  BY DEF Number
<1>4. CASE HasPrelude(p, o)
  BY <1>1, <1>3, <1>4 DEF c
<1>5. CASE ~HasPrelude(p, o)
  <2>1. ~Sent(p, o, 0, FALSE) /\ ~Sent(p, o, 0, TRUE)
    BY <1>5 DEF Sent
  <2>2. \A x \in BOOLEAN : ~Sent(p, o, 0, x) => \A srv : Pass(p, o, Number(0, x), srv) = srv
    BY PassAt
  <2>3. Pass(p, o, Number(0, FALSE), c[0]) = c[0] /\ Pass(p, o, Number(0, TRUE), c[1]) = c[1]
    BY <2>1, <2>2
  <2>4. QED
    BY <1>1, <1>2, <1>3, <1>5, <2>3 DEF c
<1>6. QED
  BY <1>4, <1>5

LEMMA ColdTypes ==
  ASSUME NEW p \in Programs \cup {<<>>}, NEW o \in Options
  PROVE  \A k \in 0..(2 * Len(p) + 2) : Cold(p, o)[k] \in Servers
<1> DEFINE c == Cold(p, o)
           S == {n \in Nat : n <= 2 * Len(p) + 2 => c[n] \in Servers}
<1>0. Len(p) \in Nat
  BY FileOf
<1>1. /\ c[0] = Fresh
      /\ \A k \in 0..(2 * Len(p) + 1) : c[k + 1] = Pass(p, o, k, c[k])
  BY ColdSteps
<1> HIDE DEF c
<1>2. 0 \in S
  BY <1>1, FreshIsServer
<1>3. ASSUME NEW n \in S PROVE n + 1 \in S
  <2>1. SUFFICES ASSUME n + 1 <= 2 * Len(p) + 2 PROVE c[n + 1] \in Servers
    BY <1>3
  <2>2. n \in 0..(2 * Len(p) + 1) /\ c[n] \in Servers
    BY <1>0, <1>3, <2>1
  <2>3. n \div 2 \in 0..Len(p)
    BY <1>0, <2>2
  <2>4. \A tw \in BOOLEAN : After(Due(o, tw), p, o, n \div 2, c[n]) \in Servers
    <3> DEFINE i == n \div 2
    <3>1. i \in 0..Len(p)
      BY <2>3
    <3> HIDE DEF i
    <3>2. \A tw \in BOOLEAN : After(Due(o, tw), p, o, i, c[n]) \in Servers
      BY <2>2, <3>1, DueIsRequest, AfterTypes
    <3>3. QED
      BY <3>2 DEF i
  <2>5. Pass(p, o, n, c[n]) \in Servers
    BY <2>2, <2>4 DEF Pass
  <2>6. QED
    BY <1>1, <2>2, <2>5
<1>4. \A n \in Nat : n \in S
  <2> HIDE DEF S
  <2>1. S \subseteq Nat
    BY DEF S
  <2>2. QED
    BY <1>2, <1>3, <2>1, Counting
<1>5. QED
  BY <1>0, <1>4 DEF c
-----------------------------------------------------------------------------
(* Registries compared: what one process has, another has too.                 *)

\* Whatever process c registered, process w has registered the same way.
Covers(c, w) ==
  /\ \A k \in Names \X Suffixes : c.classes[k] # NoClass => w.classes[k] = c.classes[k]
  /\ c.containers \subseteq w.containers
  /\ c.noncomp \subseteq w.noncomp

\* The processes c and w know the same of the names in N.
Agree(N, c, w) ==
  \A n \in N, x \in Suffixes :
    /\ c.classes[<<n, x>>] = w.classes[<<n, x>>]
    /\ \A f \in Fields : (<<n, x, f>> \in c.containers) <=> (<<n, x, f>> \in w.containers)
    /\ (<<n, x>> \in c.noncomp) <=> (<<n, x>> \in w.noncomp)

\* Of the methods in M processes c and w know the same classes.
SameMethods(M, c, w) ==
  \A d \in Names \X Suffixes \X Methods \X Infos :
    d[3] \in M => ((d \in c.methods) <=> (d \in w.methods))

\* Process w has registered something under name n.
Knows(w, n) ==
  \E x \in Suffixes :
    \/ w.classes[<<n, x>>] # NoClass
    \/ <<n, x>> \in w.noncomp
    \/ \E f \in Fields : <<n, x, f>> \in w.containers

LEMMA FreshKnowsNothing ==
  /\ \A n \in Names : ~Knows(Fresh, n)
  /\ ~Fresh.mutator /\ Fresh.methods = {}
BY DEF Knows, Fresh

\* Two processes that take the same request lower it alike.
LEMMA EnterKeeps ==
  ASSUME NEW r \in Requests, NEW c \in Servers, NEW w \in Servers
  PROVE  /\ Covers(c, w) => Covers(Enter(r, c), Enter(r, w))
         /\ \A N : Agree(N, c, w) => Agree(N, Enter(r, c), Enter(r, w))
         /\ \A M : SameMethods(M, c, w) => SameMethods(M, Enter(r, c), Enter(r, w))
         /\ \A n : Knows(Enter(r, c), n) <=> Knows(c, n)
<1> DEFINE cc == Enter(r, c)
           ww == Enter(r, w)
<1>1. /\ cc.classes = c.classes /\ cc.containers = c.containers /\ cc.noncomp = c.noncomp
      /\ ww.classes = w.classes /\ ww.containers = w.containers /\ ww.noncomp = w.noncomp
      /\ cc.methods = c.methods /\ ww.methods = w.methods
  BY EnterTypes
<1> HIDE DEF cc, ww
<1>2. Covers(c, w) => Covers(cc, ww)
  BY <1>1 DEF Covers
<1>3. \A N : Agree(N, c, w) => Agree(N, cc, ww)
  BY <1>1 DEF Agree
<1>4. \A n : Knows(cc, n) <=> Knows(c, n)
  BY <1>1 DEF Knows
<1>5. \A M : SameMethods(M, c, w) => SameMethods(M, cc, ww)
  BY <1>1 DEF SameMethods
<1>6. QED
  BY <1>2, <1>3, <1>4, <1>5 DEF cc, ww

LEMMA TaintCarries ==
  ASSUME NEW s \in Statements, NEW c \in Servers, NEW w \in Servers, c.refs = w.refs
  PROVE  /\ c.noncomp \subseteq w.noncomp => (Tainted(s, c) => Tainted(s, w))
         /\ \A N : s.uses \subseteq N /\ Agree(N, c, w) => (Tainted(s, c) <=> Tainted(s, w))
<1>1. c.noncomp \subseteq w.noncomp => (Tainted(s, c) => Tainted(s, w))
  BY DEF Tainted
<1>2. ASSUME NEW N, s.uses \subseteq N, Agree(N, c, w) PROVE Tainted(s, c) <=> Tainted(s, w)
  <2>1. \A n \in s.uses : (<<n, "">> \in c.noncomp) <=> (<<n, "">> \in w.noncomp)
    BY <1>2 DEF Agree, Suffixes
  <2>2. QED
    BY <2>1 DEF Tainted
<1>3. QED
  BY <1>1, <1>2

\* A class is registered alike in two processes that take the same request.
LEMMA ReadyKeeps ==
  ASSUME NEW s \in Statements, NEW c \in Servers, NEW w \in Servers, c.refs = w.refs
  PROVE  /\ \A k \in Names \X Suffixes :
              (c.classes[k] # NoClass => w.classes[k] = c.classes[k])
                => (Ready(s, c).classes[k] # NoClass => Ready(s, w).classes[k] = Ready(s, c).classes[k])
         /\ \A k \in Names \X Suffixes :
              c.classes[k] = w.classes[k] => Ready(s, c).classes[k] = Ready(s, w).classes[k]
         /\ \A M : SameMethods(M, c, w) => SameMethods(M, Ready(s, c), Ready(s, w))
         /\ \A d \in Ready(s, w).methods : d \in w.methods \/ d[3] \in s.methods
<1> DEFINE x == c.refs.suffix
           key == <<s.name, x>>
           cc == Ready(s, c)
           ww == Ready(s, w)
<1>0. x = w.refs.suffix
  OBVIOUS
<1>1. /\ cc.classes = IF s.kind = "class" THEN [c.classes EXCEPT ![key] = s.info] ELSE c.classes
      /\ cc.methods = IF s.kind = "class" THEN Declared(s, x, c.methods) ELSE c.methods
  BY ReadyTypes
<1>2. /\ ww.classes = IF s.kind = "class" THEN [w.classes EXCEPT ![key] = s.info] ELSE w.classes
      /\ ww.methods = IF s.kind = "class" THEN Declared(s, x, w.methods) ELSE w.methods
  <2> HIDE DEF x
  <2>1. QED
    BY <1>0, ReadyTypes
<1>3. /\ c.classes \in [Names \X Suffixes -> Infos \cup {NoClass}]
      /\ w.classes \in [Names \X Suffixes -> Infos \cup {NoClass}]
  BY DEF Servers
<1> HIDE DEF x, key, cc, ww
<1>4. \A k \in Names \X Suffixes :
        (c.classes[k] # NoClass => w.classes[k] = c.classes[k])
          => (cc.classes[k] # NoClass => ww.classes[k] = cc.classes[k])
  BY <1>1, <1>2, <1>3
<1>5. \A k \in Names \X Suffixes : c.classes[k] = w.classes[k] => cc.classes[k] = ww.classes[k]
  BY <1>1, <1>2, <1>3
<1>6. ASSUME NEW M, SameMethods(M, c, w) PROVE SameMethods(M, cc, ww)
  <2>1. ASSUME NEW d \in Names \X Suffixes \X Methods \X Infos, d[3] \in M
        PROVE  (d \in cc.methods) <=> (d \in ww.methods)
    <3>1. (d \in c.methods) <=> (d \in w.methods)
      BY <1>6, <2>1 DEF SameMethods
    <3>2. (d \in Declared(s, x, c.methods)) <=> (d \in Declared(s, x, w.methods))
      BY <3>1 DEF Declared
    <3>3. QED
      BY <1>1, <1>2, <3>1, <3>2
  <2>2. QED
    BY <2>1 DEF SameMethods
<1>7. ASSUME NEW d \in ww.methods PROVE d \in w.methods \/ d[3] \in s.methods
  <2>1. d \in Declared(s, x, w.methods) => d \in w.methods \/ d[3] \in s.methods
    BY DEF Declared
  <2>2. QED
    BY <1>2, <1>7, <2>1
<1>8. QED
  BY <1>4, <1>5, <1>6, <1>7 DEF cc, ww

\* Two processes that know the same classes of a method take the same class for
\* the receiver of a call of it.
LEMMA SameReceiver ==
  ASSUME NEW c \in Servers, NEW w \in Servers, NEW M, SameMethods(M, c, w), NEW m \in M
  PROVE  Receiver(m, c) = Receiver(m, w)
<1>1. ASSUME NEW d, d[3] = m PROVE (d \in c.methods) <=> (d \in w.methods)
  <2>1. c.methods \subseteq Names \X Suffixes \X Methods \X Infos
    BY DEF Servers
  <2>2. w.methods \subseteq Names \X Suffixes \X Methods \X Infos
    BY DEF Servers
  <2>3. QED
    BY <1>1, <2>1, <2>2 DEF SameMethods
<1>2. {d \in c.methods : d[3] = m} = {d \in w.methods : d[3] = m}
  BY <1>1
<1>3. QED
  BY <1>2 DEF Receiver

LEMMA SameFault ==
  ASSUME NEW s \in Statements, NEW c \in Servers, NEW w \in Servers, c.refs = w.refs,
         NEW M, s.asks \subseteq M, SameMethods(M, c, w)
  PROVE  /\ \A m \in s.asks : Receiver(m, Ready(s, c)) = Receiver(m, Ready(s, w))
         /\ Faulty(s, c) <=> Faulty(s, w)
<1>1. /\ SameMethods(M, Ready(s, c), Ready(s, w))
      /\ Ready(s, c) \in Servers /\ Ready(s, w) \in Servers
  BY ReadyKeeps, ReadyTypes
<1>2. \A m \in s.asks : Receiver(m, Ready(s, c)) = Receiver(m, Ready(s, w))
  BY <1>1, SameReceiver
<1>3. QED
  BY <1>2 DEF Faulty

LEMMA LowerCovers ==
  ASSUME NEW s \in Statements, NEW c \in Servers, NEW w \in Servers, c.refs = w.refs,
         Covers(c, w)
  PROVE  Covers(Lower(s, c), Lower(s, w))
<1> DEFINE key == <<s.name, c.refs.suffix>>
           cc == Lower(s, c)
           ww == Lower(s, w)
<1>0. key = <<s.name, w.refs.suffix>>
  OBVIOUS
<1>a. /\ cc.containers = c.containers
      /\ cc.classes = Ready(s, c).classes
      /\ cc.noncomp = IF s.kind = "def" /\ (Tainted(s, c) \/ (s.real /\ c.refs.numeric = "exact"))
                      THEN c.noncomp \cup {key} ELSE c.noncomp
  BY LowerTypes
<1>b. /\ ww.containers = w.containers
      /\ ww.classes = Ready(s, w).classes
      /\ ww.noncomp = IF s.kind = "def" /\ (Tainted(s, w) \/ (s.real /\ c.refs.numeric = "exact"))
                      THEN w.noncomp \cup {key} ELSE w.noncomp
  <2> HIDE DEF key
  <2>1. /\ ww.containers = w.containers /\ ww.classes = Ready(s, w).classes
        /\ ww.noncomp = IF s.kind = "def" /\ (Tainted(s, w) \/ (s.real /\ w.refs.numeric = "exact"))
                        THEN w.noncomp \cup {<<s.name, w.refs.suffix>>} ELSE w.noncomp
    BY LowerTypes
  <2> HIDE DEF ww
  <2>2. QED
    BY <1>0, <2>1
<1>3. Tainted(s, c) => Tainted(s, w)
  BY TaintCarries DEF Covers
<1> HIDE DEF key, cc, ww
<1>4. \A k \in Names \X Suffixes : cc.classes[k] # NoClass => ww.classes[k] = cc.classes[k]
  BY <1>a, <1>b, ReadyKeeps DEF Covers
<1>5. cc.noncomp \subseteq ww.noncomp
  BY <1>a, <1>b, <1>3 DEF Covers
<1>6. cc.containers \subseteq ww.containers
  BY <1>a, <1>b DEF Covers
<1>7. QED
  BY <1>4, <1>5, <1>6 DEF Covers, cc, ww

LEMMA LowerAgrees ==
  ASSUME NEW s \in Statements, NEW c \in Servers, NEW w \in Servers, c.refs = w.refs,
         NEW N, N \subseteq Names, s.uses \subseteq N, Agree(N, c, w)
  PROVE  Agree(N, Lower(s, c), Lower(s, w))
<1> DEFINE key == <<s.name, c.refs.suffix>>
           cc == Lower(s, c)
           ww == Lower(s, w)
<1>0. key = <<s.name, w.refs.suffix>>
  OBVIOUS
<1>a. /\ cc.containers = c.containers
      /\ cc.classes = Ready(s, c).classes
      /\ cc.noncomp = IF s.kind = "def" /\ (Tainted(s, c) \/ (s.real /\ c.refs.numeric = "exact"))
                      THEN c.noncomp \cup {key} ELSE c.noncomp
  BY LowerTypes
<1>b. /\ ww.containers = w.containers
      /\ ww.classes = Ready(s, w).classes
      /\ ww.noncomp = IF s.kind = "def" /\ (Tainted(s, w) \/ (s.real /\ c.refs.numeric = "exact"))
                      THEN w.noncomp \cup {key} ELSE w.noncomp
  <2> HIDE DEF key
  <2>1. /\ ww.containers = w.containers /\ ww.classes = Ready(s, w).classes
        /\ ww.noncomp = IF s.kind = "def" /\ (Tainted(s, w) \/ (s.real /\ w.refs.numeric = "exact"))
                        THEN w.noncomp \cup {<<s.name, w.refs.suffix>>} ELSE w.noncomp
    BY LowerTypes
  <2> HIDE DEF ww
  <2>2. QED
    BY <1>0, <2>1
<1>3. Tainted(s, c) <=> Tainted(s, w)
  BY TaintCarries
<1> HIDE DEF key, cc, ww
<1>4. ASSUME NEW n \in N, NEW x \in Suffixes
      PROVE  /\ cc.classes[<<n, x>>] = ww.classes[<<n, x>>]
             /\ \A f \in Fields : (<<n, x, f>> \in cc.containers) <=> (<<n, x, f>> \in ww.containers)
             /\ (<<n, x>> \in cc.noncomp) <=> (<<n, x>> \in ww.noncomp)
  <2> DEFINE k == <<n, x>>
  <2>1. k \in Names \X Suffixes
    BY <1>4
  <2>2. /\ c.classes[k] = w.classes[k]
        /\ \A f \in Fields : (<<n, x, f>> \in c.containers) <=> (<<n, x, f>> \in w.containers)
        /\ (k \in c.noncomp) <=> (k \in w.noncomp)
    BY <1>4 DEF Agree
  <2> HIDE DEF k
  <2>3. cc.classes[k] = ww.classes[k]
    BY <1>a, <1>b, <2>1, <2>2, ReadyKeeps
  <2>4. (k \in cc.noncomp) <=> (k \in ww.noncomp)
    BY <1>a, <1>b, <1>3, <2>2
  <2>5. \A f \in Fields : (<<n, x, f>> \in cc.containers) <=> (<<n, x, f>> \in ww.containers)
    BY <1>a, <1>b, <2>2
  <2>6. QED
    BY <2>3, <2>4, <2>5 DEF k
<1>5. QED
  BY <1>4 DEF Agree, cc, ww

\* Lowering registers nothing but the statement's own name.
LEMMA LowerKnows ==
  ASSUME NEW s \in Statements, NEW w \in Servers, NEW n \in Names, Knows(Lower(s, w), n)
  PROVE  Knows(w, n) \/ n = s.name
<1> DEFINE key == <<s.name, w.refs.suffix>>
           ww == Lower(s, w)
<1>1. /\ ww.containers = w.containers
      /\ ww.noncomp \subseteq w.noncomp \cup {key}
      /\ ww.classes = IF s.kind = "class" THEN [w.classes EXCEPT ![key] = s.info] ELSE w.classes
  <2>1. /\ ww.containers = w.containers /\ ww.classes = Ready(s, w).classes
        /\ ww.noncomp \subseteq w.noncomp \cup {key}
    BY LowerTypes
  <2>2. Ready(s, w).classes =
          IF s.kind = "class" THEN [w.classes EXCEPT ![key] = s.info] ELSE w.classes
    BY ReadyTypes
  <2>3. QED
    BY <2>1, <2>2
<1>2. w.classes \in [Names \X Suffixes -> Infos \cup {NoClass}]
  BY DEF Servers
<1>3. PICK x \in Suffixes : \/ ww.classes[<<n, x>>] # NoClass
                            \/ <<n, x>> \in ww.noncomp
                            \/ \E f \in Fields : <<n, x, f>> \in ww.containers
  BY DEF Knows
<1> HIDE DEF ww
<1>4. CASE <<n, x>> = key
  BY <1>4 DEF key
<1>5. CASE <<n, x>> # key
  <2> DEFINE k == <<n, x>>
  <2>1. k \in Names \X Suffixes /\ k # key
    BY <1>5
  <2> HIDE DEF k, key
  <2>2. ww.classes[k] = w.classes[k] /\ (k \in ww.noncomp => k \in w.noncomp)
    BY <1>1, <1>2, <2>1
  <2>3. QED
    BY <1>1, <1>3, <2>2 DEF k, Knows
<1>6. QED
  BY <1>4, <1>5

\* One request sent to two processes keeps what they have in common.
LEMMA AfterKeeps ==
  ASSUME NEW r \in Requests, NEW p \in Programs \cup {<<>>}, NEW o, NEW i \in 0..Len(p),
         NEW c \in Servers, NEW w \in Servers
  PROVE  /\ Covers(c, w) => Covers(After(r, p, o, i, c), After(r, p, o, i, w))
         /\ Agree(NamesOf(p), c, w) => Agree(NamesOf(p), After(r, p, o, i, c), After(r, p, o, i, w))
         /\ \A n \in Names : Knows(After(r, p, o, i, w), n) => Knows(w, n) \/ n \in NamesOf(p)
         /\ \A M : SameMethods(M, c, w) => SameMethods(M, After(r, p, o, i, c), After(r, p, o, i, w))
         /\ \A d \in After(r, p, o, i, w).methods : d \in w.methods \/ d[3] \in MethodsOf(p)
<1> DEFINE ec == Enter(r, c)
           ew == Enter(r, w)
           N == NamesOf(p)
<1>1. /\ ec \in Servers /\ ew \in Servers /\ ec.refs = ew.refs
      /\ Covers(c, w) => Covers(ec, ew)
      /\ Agree(N, c, w) => Agree(N, ec, ew)
      /\ \A n : Knows(ew, n) <=> Knows(w, n)
      /\ N \subseteq Names
      /\ \A M : SameMethods(M, c, w) => SameMethods(M, ec, ew)
      /\ ew.methods = w.methods
  BY EnterTypes, EnterKeeps, FileOf
<1>2. CASE i = 0
  <2> DEFINE X == ContainersOf(p, o)
             pc1 == LowerPrelude(p, o, ec)
             pw1 == LowerPrelude(p, o, ew)
  <2>1. After(r, p, o, i, c) = pc1 /\ After(r, p, o, i, w) = pw1
    BY <1>2 DEF After
  <2> HIDE DEF ec, ew, N
  <2>2. /\ pc1 = [ec EXCEPT !.containers = ec.containers \cup X]
        /\ pw1 = [ew EXCEPT !.containers = ew.containers \cup X]
        /\ \A n \in Names, x \in Suffixes, f \in Fields : <<n, x, f>> \in X => n \in N
    BY <1>1, PreludeTypes DEF N
  <2> HIDE DEF pc1, pw1, X
  <2>3. /\ pc1.classes = ec.classes /\ pc1.noncomp = ec.noncomp /\ pc1.containers = ec.containers \cup X
        /\ pw1.classes = ew.classes /\ pw1.noncomp = ew.noncomp /\ pw1.containers = ew.containers \cup X
        /\ pc1.methods = ec.methods /\ pw1.methods = ew.methods
    BY <1>1, <2>2 DEF Servers
  <2>4. Covers(ec, ew) => Covers(pc1, pw1)
    BY <2>3 DEF Covers
  <2>5. Agree(N, ec, ew) => Agree(N, pc1, pw1)
    BY <2>3 DEF Agree
  <2>6. \A n \in Names : Knows(pw1, n) => Knows(ew, n) \/ n \in N
    BY <2>2, <2>3 DEF Knows
  <2>7. \A M : SameMethods(M, ec, ew) => SameMethods(M, pc1, pw1)
    BY <2>3 DEF SameMethods
  <2>8. QED
    BY <1>1, <2>1, <2>3, <2>4, <2>5, <2>6, <2>7 DEF N
<1>3. CASE i # 0
  <2> DEFINE s == p[i]
  <2>1. s \in Statements /\ s.name \in N /\ s.uses \subseteq N /\ s.methods \subseteq MethodsOf(p)
    BY <1>3, FileOf
  <2>2. After(r, p, o, i, c) = Lower(s, ec) /\ After(r, p, o, i, w) = Lower(s, ew)
    BY <1>3 DEF After
  <2> HIDE DEF ec, ew, N, s
  <2>3. Covers(ec, ew) => Covers(Lower(s, ec), Lower(s, ew))
    BY <1>1, <2>1, LowerCovers
  <2>4. Agree(N, ec, ew) => Agree(N, Lower(s, ec), Lower(s, ew))
    BY <1>1, <2>1, LowerAgrees
  <2>5. \A n \in Names : Knows(Lower(s, ew), n) => Knows(ew, n) \/ n = s.name
    BY <1>1, <2>1, LowerKnows
  <2>6. \A M : SameMethods(M, ec, ew) => SameMethods(M, Lower(s, ec), Lower(s, ew))
    <3>1. /\ Lower(s, ec).methods = Ready(s, ec).methods
          /\ Lower(s, ew).methods = Ready(s, ew).methods
      BY <1>1, <2>1, LowerTypes
    <3>2. \A M : SameMethods(M, ec, ew) => SameMethods(M, Ready(s, ec), Ready(s, ew))
      BY <1>1, <2>1, ReadyKeeps
    <3>3. QED
      BY <3>1, <3>2 DEF SameMethods
  <2>7. \A d \in Lower(s, ew).methods : d \in ew.methods \/ d[3] \in MethodsOf(p)
    <3>1. \A d \in Ready(s, ew).methods : d \in ew.methods \/ d[3] \in s.methods
      BY <1>1, <2>1, ReadyKeeps
    <3>2. QED
      BY <1>1, <2>1, <3>1, LowerTypes
  <2>8. QED
    BY <1>1, <2>1, <2>2, <2>3, <2>4, <2>5, <2>6, <2>7 DEF N
<1>4. QED
  BY <1>2, <1>3

\* The mutator flag is left set by nothing but a strict failure.
LEMMA AfterUnmarked ==
  ASSUME NEW r \in Requests, NEW p \in Programs \cup {<<>>}, NEW o, NEW i \in 0..Len(p),
         NEW w \in Servers, ~w.mutator,
         ~(i > 0 /\ Throws(p[i], Enter(r, w)) /\ ~r.best)
  PROVE  ~After(r, p, o, i, w).mutator
<1> DEFINE ew == Enter(r, w)
<1>1. ew \in Servers /\ ~ew.mutator /\ ew.refs = r
  BY EnterTypes
<1> HIDE DEF ew
<1>2. CASE i = 0
  <2>1. After(r, p, o, i, w) = LowerPrelude(p, o, ew)
    BY <1>2 DEF After, ew
  <2>2. LowerPrelude(p, o, ew) = [ew EXCEPT !.containers = ew.containers \cup ContainersOf(p, o)]
    BY <1>1, PreludeTypes
  <2>3. [ew EXCEPT !.containers = ew.containers \cup ContainersOf(p, o)].mutator = ew.mutator
    BY <1>1 DEF Servers
  <2>4. QED
    BY <1>1, <2>1, <2>2, <2>3
<1>3. CASE i # 0
  <2> DEFINE s == p[i]
  <2>1. s \in Statements /\ i > 0
    BY <1>3, FileOf
  <2>2. ~(Faulty(s, ew) /\ ~r.best)
    BY <1>1, <2>1 DEF Throws, ew
  <2>3. After(r, p, o, i, w) = Lower(s, ew)
    BY <1>3 DEF After, ew
  <2> HIDE DEF s
  <2>4. Lower(s, ew).mutator =
          (ew.mutator \/ (s.kind = "class" /\ Faulty(s, ew) /\ ~ew.refs.best /\ ~ew.refs.heap))
    BY <1>1, <2>1, LowerTypes
  <2>5. QED
    BY <1>1, <2>2, <2>3, <2>4
<1>4. QED
  BY <1>2, <1>3

\* What a statement finds in a process that covers another.
LEMMA ViewCovers ==
  ASSUME NEW s \in Statements, NEW c \in Servers, NEW w \in Servers, c.refs = w.refs,
         Covers(c, w), NEW M, SameMethods(M, c, w)
  PROVE  LET mine == View(s, c)
             got == View(s, w)
         IN  /\ \A n \in DOMAIN mine.classes :
                  mine.classes[n] # NoClass => got.classes[n] = mine.classes[n]
             /\ DOMAIN mine.receivers = s.asks
             /\ \A m \in s.asks : m \in M => got.receivers[m] = mine.receivers[m]
             /\ mine.containers \subseteq got.containers
             /\ mine.noncomp => got.noncomp
<1> DEFINE mine == View(s, c)
           got == View(s, w)
<1>1. /\ mine.classes = [n \in s.uses |-> Ready(s, c).classes[<<n, "">>]]
      /\ got.classes = [n \in s.uses |-> Ready(s, w).classes[<<n, "">>]]
      /\ mine.receivers = [m \in s.asks |-> Receiver(m, Ready(s, c))]
      /\ got.receivers = [m \in s.asks |-> Receiver(m, Ready(s, w))]
      /\ mine.containers = {k \in c.containers : c.refs.heap /\ k[1] \in s.uses}
      /\ got.containers = {k \in w.containers : w.refs.heap /\ k[1] \in s.uses}
      /\ mine.noncomp = Tainted(s, c) /\ got.noncomp = Tainted(s, w)
  BY DEF View
<1> HIDE DEF mine, got
<1>2. s.uses \subseteq Names
  BY DEF Statements
<1>3. \A n \in s.uses : Ready(s, c).classes[<<n, "">>] # NoClass
                        => Ready(s, w).classes[<<n, "">>] = Ready(s, c).classes[<<n, "">>]
  <2>1. \A n \in s.uses : <<n, "">> \in Names \X Suffixes
    BY <1>2 DEF Suffixes
  <2>2. QED
    BY <2>1, ReadyKeeps DEF Covers
<1>4. \A n \in DOMAIN mine.classes : mine.classes[n] # NoClass => got.classes[n] = mine.classes[n]
  BY <1>1, <1>3
<1>5. mine.containers \subseteq got.containers
  BY <1>1 DEF Covers
<1>6. Tainted(s, c) => Tainted(s, w)
  BY TaintCarries DEF Covers
<1>7. ASSUME NEW m \in s.asks, m \in M PROVE got.receivers[m] = mine.receivers[m]
  <2>1. /\ SameMethods(M, Ready(s, c), Ready(s, w))
        /\ Ready(s, c) \in Servers /\ Ready(s, w) \in Servers
    BY ReadyKeeps, ReadyTypes
  <2>2. Receiver(m, Ready(s, c)) = Receiver(m, Ready(s, w))
    BY <1>7, <2>1, SameReceiver
  <2>3. /\ mine.receivers = [k \in s.asks |-> Receiver(k, Ready(s, c))]
        /\ got.receivers = [k \in s.asks |-> Receiver(k, Ready(s, w))]
    BY <1>1
  <2>4. mine.receivers[m] = Receiver(m, Ready(s, c)) /\ got.receivers[m] = Receiver(m, Ready(s, w))
    BY <1>7, <2>3
  <2>5. QED
    BY <2>2, <2>4
<1>8. DOMAIN mine.receivers = s.asks
  BY <1>1
<1>9. QED
  BY <1>1, <1>4, <1>5, <1>6, <1>7, <1>8 DEF mine, got

\* Two processes that agree on what a statement mentions look the same to it.
LEMMA ViewAgrees ==
  ASSUME NEW s \in Statements, NEW c \in Servers, NEW w \in Servers, c.refs = w.refs,
         c.mutator = w.mutator, NEW N, s.uses \subseteq N, Agree(N, c, w),
         NEW M, s.asks \subseteq M, SameMethods(M, c, w)
  PROVE  View(s, c) = View(s, w)
<1>1. Tainted(s, c) = Tainted(s, w)
  <2>1. Tainted(s, c) <=> Tainted(s, w)
    BY TaintCarries
  <2>2. QED
    BY <2>1 DEF Tainted
<1>2. [n \in s.uses |-> Ready(s, c).classes[<<n, "">>]] = [n \in s.uses |-> Ready(s, w).classes[<<n, "">>]]
  <2>1. \A n \in s.uses : c.classes[<<n, "">>] = w.classes[<<n, "">>] /\ <<n, "">> \in Names \X Suffixes
    BY DEF Agree, Suffixes, Statements
  <2>2. \A n \in s.uses : Ready(s, c).classes[<<n, "">>] = Ready(s, w).classes[<<n, "">>]
    BY <2>1, ReadyKeeps
  <2>3. QED
    BY <2>2
<1>3. ASSUME NEW a \in Servers, NEW b \in Servers, a.refs = b.refs, Agree(N, a, b)
      PROVE  {k \in a.containers : a.refs.heap /\ k[1] \in s.uses} \subseteq
               {k \in b.containers : b.refs.heap /\ k[1] \in s.uses}
  <2>1. ASSUME NEW k \in a.containers, k[1] \in s.uses PROVE k \in b.containers
    <3>1. a.containers \subseteq Names \X Suffixes \X Fields
      BY DEF Servers
    <3>2. PICK n \in Names, x \in Suffixes, f \in Fields : k = <<n, x, f>>
      BY <3>1
    <3>3. n \in N
      BY <2>1, <3>2
    <3>4. QED
      BY <1>3, <3>2, <3>3 DEF Agree
  <2>2. QED
    BY <1>3, <2>1
<1>4. {k \in c.containers : c.refs.heap /\ k[1] \in s.uses} =
        {k \in w.containers : w.refs.heap /\ k[1] \in s.uses}
  <2>1. Agree(N, w, c)
    BY DEF Agree
  <2>2. QED
    BY <1>3, <2>1
<1>5. [m \in s.asks |-> Receiver(m, Ready(s, c))] = [m \in s.asks |-> Receiver(m, Ready(s, w))]
  BY SameFault
<1>6. QED
  BY <1>1, <1>2, <1>4, <1>5 DEF View
-----------------------------------------------------------------------------
(* The warm process and a cold one, side by side.                              *)

\* The process that lowers the file of a thread inside and nothing else, where
\* that thread is now.
ColdAt(t) == Cold(prog[t], opts[t])[Number(at[t], twin[t])]

\* The names of the file of thread t are new to its process.
NewNames(t) == past[BackendOf[t]].names \cap NamesOf(prog[t]) = {}

\* No class of an earlier file declares a method the file asks for by name.
NewAsks(t) == past[BackendOf[t]].methods \cap AsksOf(prog[t]) = {}

\* The methods no class of an earlier file declares.
NewMethods(t) == Methods \ past[BackendOf[t]].methods

\* What NothingOwnIsMissing says of thread t.
SeesOwn(t) ==
  LET mine == ColdView(t)
      got == seen[t].view
  IN  /\ \A n \in DOMAIN mine.classes : mine.classes[n] # NoClass => got.classes[n] = mine.classes[n]
      /\ \A m \in DOMAIN mine.receivers :
           m \notin past[BackendOf[t]].methods => got.receivers[m] = mine.receivers[m]
      /\ mine.containers \subseteq got.containers
      /\ mine.noncomp => got.noncomp

\* The process of a thread inside has everything a cold one has, and knows the
\* same classes of methods that are new to it.  If the file's names are new to it
\* it knows exactly as much of them; if the methods it asks for are, a cold one
\* has not left the mutator flag set either.  So it was with the statement
\* lowered last.
ThreadInv(t) ==
  LET w == server[BackendOf[t]] IN
  /\ Inside(t) /\ intact[t] /\ NewAsks(t) => ~ColdAt(t).mutator
  /\ Inside(t) /\ intact[t] => Covers(ColdAt(t), w)
  /\ Inside(t) /\ intact[t] => SameMethods(NewMethods(t), ColdAt(t), w)
  /\ Inside(t) /\ intact[t] /\ NewNames(t) => Agree(NamesOf(prog[t]), ColdAt(t), w)
  /\ Looked(t) /\ intact[t] => SeesOwn(t)
  /\ Looked(t) /\ intact[t] /\ NewNames(t) /\ NewAsks(t) /\ ~past[BackendOf[t]].failed
       => seen[t].view = ColdView(t)

\* A process knows the names and methods of the files that have ended on it and of
\* the one it is lowering, no others; the mutator flag is set by a failed file alone.
BackendInv(b) ==
  /\ \A n \in Names : Knows(server[b], n) =>
       \/ n \in past[b].names
       \/ \E t \in Threads : Inside(t) /\ BackendOf[t] = b /\ n \in NamesOf(prog[t])
  /\ \A d \in server[b].methods :
       \/ d[3] \in past[b].methods
       \/ \E t \in Threads : Inside(t) /\ BackendOf[t] = b /\ d[3] \in MethodsOf(prog[t])
  /\ ~past[b].failed => ~server[b].mutator

WarmInv ==
  /\ TypeInv
  /\ seen = [t \in Threads |-> seen[t]]
  /\ \A t \in Threads : ThreadInv(t)
  /\ \A b \in Backends : BackendInv(b)

LEMMA WarmIsEnough == WarmInv => NothingOwnIsMissing /\ WarmLikeCold
<1> SUFFICES ASSUME WarmInv PROVE NothingOwnIsMissing /\ WarmLikeCold
  OBVIOUS
<1>1. \A t \in Threads : Looked(t) /\ intact[t] => SeesOwn(t)
  BY DEF WarmInv, ThreadInv
<1>2. \A t \in Threads :
        Looked(t) /\ intact[t] /\ NewNames(t) /\ NewAsks(t) /\ ~past[BackendOf[t]].failed
          => seen[t].view = ColdView(t)
  BY DEF WarmInv, ThreadInv
<1>3. NothingOwnIsMissing
  BY <1>1 DEF NothingOwnIsMissing, SeesOwn
<1>4. WarmLikeCold
  BY <1>2 DEF WarmLikeCold, SharesNothing, NewNames, NewAsks
<1>5. QED
  BY <1>3, <1>4

LEMMA InitWarm == Init => WarmInv
<1> SUFFICES ASSUME Init PROVE WarmInv
  OBVIOUS
<1>1. TypeInv
  BY InitTypes
<1>2. /\ seen = [t \in Threads |-> NothingSeen]
      /\ \A t \in Threads : pc[t] = "out"
      /\ \A b \in Backends : server[b] = Fresh
  BY DEF Init
<1>3. \A t \in Threads : ~Inside(t) /\ ~Looked(t) /\ seen[t] = NothingSeen
  BY <1>2 DEF Inside, Looked
<1>4. \A b \in Backends : BackendInv(b)
  BY <1>2, FreshKnowsNothing DEF BackendInv
<1>5. \A t \in Threads : ThreadInv(t)
  BY <1>3 DEF ThreadInv
<1>6. seen = [t \in Threads |-> seen[t]]
  BY <1>2, <1>3
<1>7. QED
  BY <1>1, <1>4, <1>5, <1>6 DEF WarmInv

\* A thread is where a cold process has got to.
LEMMA ColdTyped ==
  ASSUME TypeInv, NEW t \in Threads, Inside(t)
  PROVE  /\ ColdAt(t) \in Servers
         /\ at[t] <= Len(prog[t]) =>
              at[t] \in 0..Len(prog[t]) /\ Sent(prog[t], opts[t], at[t], twin[t])
<1>1. /\ at[t] \in Nat /\ twin[t] \in BOOLEAN /\ Len(prog[t]) \in Nat
      /\ prog[t] \in Programs \cup {<<>>} /\ opts[t] \in Options
  BY ThreadTypes
<1>2. /\ at[t] <= Len(prog[t]) + 1
      /\ twin[t] => at[t] <= Len(prog[t]) /\ Twinned(prog[t], opts[t], at[t])
      /\ at[t] = 0 => HasPrelude(prog[t], opts[t])
  BY DEF TypeInv, PlaceOK
<1>3. Number(at[t], twin[t]) \in 0..(2 * Len(prog[t]) + 2)
  BY <1>1, <1>2 DEF Number
<1>4. ColdAt(t) \in Servers
  BY <1>1, <1>3, ColdTypes DEF ColdAt
<1>5. Sent(prog[t], opts[t], at[t], twin[t])
  BY <1>2 DEF Sent, Twinned
<1>6. QED
  BY <1>1, <1>4, <1>5

\* A step that leaves the file of thread u alone, its place inside and what its
\* process holds of it, if that is the process that has lowered all of the file.
LEMMA ThreadStays ==
  ASSUME WarmInv, TypeInv', NEW u \in Threads,
         prog'[u] = prog[u], opts'[u] = opts[u], seen'[u] = seen[u],
         intact'[u] => intact[u],
         Inside(u)' => Inside(u) /\ at'[u] = at[u] /\ twin'[u] = twin[u],
         Inside(u)' /\ intact'[u] => server'[BackendOf[u]] = server[BackendOf[u]],
         intact'[u] => /\ past[BackendOf[u]].names \subseteq past'[BackendOf[u]].names
                       /\ past[BackendOf[u]].methods \subseteq past'[BackendOf[u]].methods
                       /\ past[BackendOf[u]].failed => past'[BackendOf[u]].failed
  PROVE  ThreadInv(u)'
<1> DEFINE b == BackendOf[u]
<1>1. ThreadInv(u)
  BY DEF WarmInv
<1>2. /\ Inside(u)' => ColdAt(u)' = ColdAt(u)
      /\ Looked(u)' <=> Looked(u)
      /\ ColdView(u)' = ColdView(u)
      /\ NamesOf(prog[u])' = NamesOf(prog[u])
      /\ AsksOf(prog[u])' = AsksOf(prog[u])
  BY DEF ColdAt, Looked, ColdView, ColdServer
<1>3. intact'[u] => /\ NewNames(u)' => NewNames(u)
                    /\ NewAsks(u)' => NewAsks(u)
                    /\ NewMethods(u)' \subseteq NewMethods(u)
  BY <1>2 DEF NewNames, NewAsks, NewMethods
<1>4. intact'[u] => (SeesOwn(u) => SeesOwn(u)')
  BY <1>2 DEF SeesOwn
<1>5. /\ Inside(u)' /\ intact'[u] /\ NewAsks(u)' => ~ColdAt(u)'.mutator
      /\ Inside(u)' /\ intact'[u] => Covers(ColdAt(u), server[b])'
      /\ Inside(u)' /\ intact'[u] /\ NewNames(u)' => Agree(NamesOf(prog[u]), ColdAt(u), server[b])'
  BY <1>1, <1>2, <1>3 DEF ThreadInv, Covers, Agree
<1>6. ASSUME Inside(u)', intact'[u] PROVE SameMethods(NewMethods(u), ColdAt(u), server[b])'
  <2>1. SameMethods(NewMethods(u), ColdAt(u), server[b])
    BY <1>1, <1>6 DEF ThreadInv
  <2>2. ColdAt(u)' = ColdAt(u) /\ server'[b] = server[b] /\ NewMethods(u)' \subseteq NewMethods(u)
    BY <1>2, <1>3, <1>6
  <2>3. QED
    BY <2>1, <2>2 DEF SameMethods
<1>7. /\ Looked(u)' /\ intact'[u] => SeesOwn(u)'
      /\ Looked(u)' /\ intact'[u] /\ NewNames(u)' /\ NewAsks(u)' /\ ~past'[b].failed
           => seen'[u].view = ColdView(u)'
  BY <1>1, <1>2, <1>3, <1>4 DEF ThreadInv
<1>8. QED
  BY <1>5, <1>6, <1>7 DEF ThreadInv

\* A step that leaves process b alone and forgets none of its files.
LEMMA BackendStays ==
  ASSUME WarmInv, NEW b \in Backends,
         server'[b] = server[b],
         past[b].names \subseteq past'[b].names,
         past[b].methods \subseteq past'[b].methods,
         past[b].failed => past'[b].failed,
         \A t \in Threads : Inside(t) /\ BackendOf[t] = b =>
           \/ Inside(t)' /\ prog'[t] = prog[t]
           \/ /\ NamesOf(prog[t]) \subseteq past'[b].names
              /\ MethodsOf(prog[t]) \subseteq past'[b].methods
  PROVE  BackendInv(b)'
<1>1. BackendInv(b)
  BY DEF WarmInv
<1>2. ASSUME NEW n \in Names, Knows(server'[b], n)
      PROVE  \/ n \in past'[b].names
             \/ \E t \in Threads : Inside(t)' /\ BackendOf[t] = b /\ n \in NamesOf(prog'[t])
  <2>1. \/ n \in past[b].names
        \/ \E t \in Threads : Inside(t) /\ BackendOf[t] = b /\ n \in NamesOf(prog[t])
    BY <1>1, <1>2 DEF BackendInv
  <2>2. QED
    BY <2>1
<1>3. \A n \in Names : Knows(server[b], n)' <=> Knows(server'[b], n)
  BY DEF Knows
<1>4. \A t : NamesOf(prog[t])' = NamesOf(prog'[t]) /\ MethodsOf(prog[t])' = MethodsOf(prog'[t])
  BY DEF NamesOf, MethodsOf
<1>5. ~past'[b].failed => ~server'[b].mutator
  BY <1>1 DEF BackendInv
<1>6. ASSUME NEW d \in server'[b].methods
      PROVE  \/ d[3] \in past'[b].methods
             \/ \E t \in Threads : Inside(t)' /\ BackendOf[t] = b /\ d[3] \in MethodsOf(prog'[t])
  <2>1. \/ d[3] \in past[b].methods
        \/ \E t \in Threads : Inside(t) /\ BackendOf[t] = b /\ d[3] \in MethodsOf(prog[t])
    BY <1>1, <1>6 DEF BackendInv
  <2>2. QED
    BY <2>1
<1>7. QED
  BY <1>2, <1>3, <1>4, <1>5, <1>6 DEF BackendInv

\* A step before, after or between the requests of a translation.
LEMMA QuietWarm ==
  ASSUME WarmInv, TypeInv', UNCHANGED <<prog, opts, at, twin, server, seen, intact, past>>,
         \A u \in Threads : Inside(u)' <=> Inside(u)
  PROVE  WarmInv'
<1>1. \A u \in Threads : ThreadInv(u)'
  <2> SUFFICES ASSUME NEW u \in Threads PROVE ThreadInv(u)'
    OBVIOUS
  <2>1. QED
    BY ThreadStays
<1>2. \A b \in Backends : BackendInv(b)'
  <2> SUFFICES ASSUME NEW b \in Backends PROVE BackendInv(b)'
    OBVIOUS
  <2>1. QED
    BY BackendStays
<1>3. (seen = [t \in Threads |-> seen[t]])'
  BY DEF WarmInv
<1>4. QED
  BY <1>1, <1>2, <1>3 DEF WarmInv

LEMMA BeginWarm ==
  ASSUME WarmInv, TypeInv', NEW t \in Threads, NEW p \in Programs, NEW o \in Options, Begin(t, p, o)
  PROVE  WarmInv'
<1>0. TypeOK /\ seen = [u \in Threads |-> seen[u]]
  BY DEF WarmInv, TypeInv
<1>1. /\ pc'[t] = "options" /\ \A u \in Threads : u # t => pc'[u] = pc[u]
      /\ \A u \in Threads : u # t =>
           prog'[u] = prog[u] /\ opts'[u] = opts[u] /\ seen'[u] = seen[u] /\ intact'[u] = intact[u]
      /\ seen'[t] = NothingSeen
      /\ seen' = [u \in Threads |-> seen'[u]]
      /\ UNCHANGED <<at, twin, server, past>>
      /\ pc[t] = "out"
  BY <1>0 DEF Begin, Goto, TypeOK, place
<1>2. ~Inside(t) /\ ~Inside(t)' /\ \A u \in Threads : u # t => (Inside(u)' <=> Inside(u))
  BY <1>1 DEF Inside
<1>3. ASSUME NEW u \in Threads, u # t PROVE ThreadInv(u)'
  BY <1>1, <1>2, <1>3, ThreadStays
<1>4. ThreadInv(t)'
  BY <1>1, <1>2 DEF ThreadInv, Looked, NothingSeen
<1>5. ASSUME NEW b \in Backends PROVE BackendInv(b)'
  BY <1>1, <1>2, BackendStays
<1>6. QED
  BY <1>1, <1>3, <1>4, <1>5 DEF WarmInv

\* The first pass of a file meets the names of earlier files only, and a cold
\* process knows none.
LEMMA InferWarm ==
  ASSUME WarmInv, TypeInv', OneInside, NEW t \in Threads, Infer(t)
  PROVE  WarmInv'
<1>0. TypeInv /\ TypeOK /\ seen = [u \in Threads |-> seen[u]]
  BY DEF WarmInv, TypeInv
<1> DEFINE b == BackendOf[t]
<1>1. /\ pc[t] = "infer" /\ pc'[t] = "pass" /\ \A u \in Threads : u # t => pc'[u] = pc[u]
      /\ \A u \in Threads : u # t => at'[u] = at[u] /\ twin'[u] = twin[u]
      /\ at'[t] = (IF HasPrelude(prog[t], opts[t]) THEN 0 ELSE 1) /\ twin'[t] = FALSE
      /\ UNCHANGED <<prog, opts, seen, intact, server, past>>
  BY <1>0 DEF Infer, Goto, TypeOK, job, history
<1>2. /\ \A u \in Threads : ~Inside(u)
      /\ \A u \in Threads : u # t => ~Inside(u)'
      /\ Inside(t)'
  <2>1. \A u \in Threads : u # t => pc[u] = "out"
    BY <1>1 DEF OneInside
  <2>2. QED
    BY <1>1, <2>1 DEF Inside
<1>3. /\ prog[t] \in Programs \cup {<<>>} /\ server[b] \in Servers /\ b \in Backends
      /\ NamesOf(prog[t]) \subseteq Names
  BY <1>0, ThreadTypes, FileOf
<1>4. ColdAt(t)' = Fresh
  <2>1. Cold(prog[t], opts[t])[Number(IF HasPrelude(prog[t], opts[t]) THEN 0 ELSE 1, FALSE)] = Fresh
    BY <1>3, ColdStarts
  <2>2. QED
    BY <1>1, <2>1 DEF ColdAt
<1>5. Covers(Fresh, server[b])
  BY DEF Covers, Fresh
<1>6. ASSUME NewNames(t) PROVE Agree(NamesOf(prog[t]), Fresh, server[b])
  <2>1. ASSUME NEW n \in NamesOf(prog[t]) PROVE ~Knows(server[b], n)
    <3>1. n \in Names /\ n \notin past[b].names
      BY <1>3, <1>6 DEF NewNames
    <3>2. BackendInv(b)
      BY <1>3 DEF WarmInv
    <3>3. QED
      BY <1>2, <3>1, <3>2 DEF BackendInv
  <2>2. ASSUME NEW n \in NamesOf(prog[t]), NEW x \in Suffixes
        PROVE  /\ Fresh.classes[<<n, x>>] = server[b].classes[<<n, x>>]
               /\ \A f \in Fields : (<<n, x, f>> \in Fresh.containers) <=> (<<n, x, f>> \in server[b].containers)
               /\ (<<n, x>> \in Fresh.noncomp) <=> (<<n, x>> \in server[b].noncomp)
    <3>1. /\ server[b].classes[<<n, x>>] = NoClass /\ <<n, x>> \notin server[b].noncomp
          /\ \A f \in Fields : <<n, x, f>> \notin server[b].containers
      BY <2>1 DEF Knows
    <3>2. n \in Names
      BY <1>3
    <3>3. Fresh.classes[<<n, x>>] = NoClass /\ Fresh.noncomp = {} /\ Fresh.containers = {}
      BY <3>2 DEF Fresh
    <3>4. QED
      BY <3>1, <3>3
  <2>3. QED
    BY <2>2 DEF Agree
<1>a. SameMethods(NewMethods(t), Fresh, server[b])
  <2>1. \A d \in server[b].methods : d[3] \in past[b].methods
    BY <1>2, <1>3 DEF WarmInv, BackendInv
  <2>2. QED
    BY <2>1, FreshKnowsNothing DEF SameMethods, NewMethods
<1>7. ThreadInv(t)'
  <2>1. ThreadInv(t)
    BY DEF WarmInv
  <2>2. /\ Looked(t)' <=> Looked(t)
        /\ ColdView(t)' = ColdView(t)
        /\ NewNames(t)' <=> NewNames(t)
        /\ NewAsks(t)' <=> NewAsks(t)
        /\ NewMethods(t)' = NewMethods(t)
        /\ NamesOf(prog[t])' = NamesOf(prog[t])
    BY <1>1 DEF Looked, ColdView, ColdServer, NewNames, NewAsks, NewMethods
  <2>3. SeesOwn(t) => SeesOwn(t)'
    BY <1>1, <2>2 DEF SeesOwn
  <2>4. ~ColdAt(t)'.mutator
    BY <1>4, FreshKnowsNothing
  <2>5. Covers(ColdAt(t), server[b])'
    BY <1>1, <1>4, <1>5 DEF Covers
  <2>6. NewNames(t)' => Agree(NamesOf(prog[t]), ColdAt(t), server[b])'
    BY <1>1, <1>4, <1>6, <2>2 DEF Agree
  <2>7. /\ Looked(t)' /\ intact'[t] => SeesOwn(t)'
        /\ Looked(t)' /\ intact'[t] /\ NewNames(t)' /\ NewAsks(t)' /\ ~past'[b].failed
             => seen'[t].view = ColdView(t)'
    BY <1>1, <2>1, <2>2, <2>3 DEF ThreadInv
  <2>8. SameMethods(NewMethods(t), ColdAt(t), server[b])'
    BY <1>1, <1>4, <1>a, <2>2 DEF SameMethods
  <2>9. QED
    BY <2>4, <2>5, <2>6, <2>7, <2>8 DEF ThreadInv
<1>8. ASSUME NEW u \in Threads, u # t PROVE ThreadInv(u)'
  BY <1>1, <1>2, <1>8, ThreadStays
<1>9. ASSUME NEW d \in Backends PROVE BackendInv(d)'
  BY <1>1, <1>2, BackendStays
<1>10. (seen = [u \in Threads |-> seen[u]])'
  BY <1>0, <1>1
<1>11. QED
  BY <1>7, <1>8, <1>9, <1>10 DEF WarmInv

\* What the file leaves is part of what the process has met.
LEMMA Left ==
  ASSUME TypeInv, NEW t \in Threads, NEW f \in BOOLEAN, Leave(t, f)
  PROVE  /\ \A b \in Backends : /\ past[b].names \subseteq past'[b].names
                                /\ past[b].methods \subseteq past'[b].methods
                                /\ past[b].failed => past'[b].failed
         /\ NamesOf(prog[t]) \subseteq past'[BackendOf[t]].names
         /\ MethodsOf(prog[t]) \subseteq past'[BackendOf[t]].methods
         /\ f => past'[BackendOf[t]].failed
<1>1. past \in [Backends -> [names : SUBSET Names, methods : SUBSET Methods, failed : BOOLEAN]] /\ BackendOf[t] \in Backends
  BY ThreadTypes DEF TypeInv, TypeOK
<1>2. past' = [past EXCEPT ![BackendOf[t]] =
             [names |-> past[BackendOf[t]].names \cup NamesOf(prog[t]),
              methods |-> past[BackendOf[t]].methods \cup MethodsOf(prog[t]),
              failed |-> past[BackendOf[t]].failed \/ f]]
  BY <1>1 DEF Leave
<1>3. QED
  BY <1>1, <1>2

LEMMA FinishWarm ==
  ASSUME WarmInv, TypeInv', OneInside, NEW t \in Threads, Finish(t)
  PROVE  WarmInv'
<1>0. TypeInv /\ TypeOK
  BY DEF WarmInv, TypeInv
<1>1. /\ pc[t] = "pass" /\ pc'[t] = "out" /\ \A u \in Threads : u # t => pc'[u] = pc[u]
      /\ UNCHANGED <<prog, opts, at, twin, server, seen, intact>>
      /\ Leave(t, FALSE)
  BY <1>0 DEF Finish, Goto, TypeOK, job, place
<1>2. /\ \A b \in Backends : /\ past[b].names \subseteq past'[b].names
                             /\ past[b].methods \subseteq past'[b].methods
                             /\ past[b].failed => past'[b].failed
      /\ NamesOf(prog[t]) \subseteq past'[BackendOf[t]].names
      /\ MethodsOf(prog[t]) \subseteq past'[BackendOf[t]].methods
  BY <1>0, <1>1, Left
<1>3. ~Inside(t)' /\ \A u \in Threads : u # t => (Inside(u)' <=> Inside(u))
  BY <1>1 DEF Inside
<1>4. ASSUME NEW u \in Threads PROVE ThreadInv(u)'
  <2>1. BackendOf[u] \in Backends
    BY <1>0, ThreadTypes
  <2>2. QED
    BY <1>1, <1>2, <1>3, <2>1, ThreadStays
<1>5. ASSUME NEW b \in Backends PROVE BackendInv(b)'
  <2>1. ASSUME NEW u \in Threads, Inside(u), BackendOf[u] = b
        PROVE  \/ Inside(u)' /\ prog'[u] = prog[u]
               \/ /\ NamesOf(prog[u]) \subseteq past'[b].names
                  /\ MethodsOf(prog[u]) \subseteq past'[b].methods
    BY <1>1, <1>2, <1>3, <2>1
  <2>2. QED
    BY <1>1, <1>2, <2>1, BackendStays
<1>6. (seen = [u \in Threads |-> seen[u]])'
  BY <1>1 DEF WarmInv
<1>7. QED
  BY <1>4, <1>5, <1>6 DEF WarmInv

\* A process that dies takes what it knew with it, and every file on it is
\* served by more than one.
LEMMA RestartWarm ==
  ASSUME WarmInv, TypeInv', NEW b \in Backends, Restart(b)
  PROVE  WarmInv'
<1>0. TypeInv /\ TypeOK
  BY DEF WarmInv, TypeInv
<1>1. /\ UNCHANGED <<pc, prog, opts, at, twin, seen>>
      /\ server'[b] = Fresh /\ \A d \in Backends : d # b => server'[d] = server[d] /\ past'[d] = past[d]
      /\ \A u \in Threads : intact'[u] => intact[u] /\ BackendOf[u] # b
  BY <1>0 DEF Restart, TypeOK, job, place
<1>2. \A u \in Threads : Inside(u)' <=> Inside(u)
  BY <1>1 DEF Inside
<1>3. ASSUME NEW u \in Threads PROVE ThreadInv(u)'
  <2>1. BackendOf[u] \in Backends
    BY <1>0, ThreadTypes
  <2>2. QED
    BY <1>1, <1>2, <2>1, ThreadStays
<1>4. ASSUME NEW d \in Backends, d # b PROVE BackendInv(d)'
  BY <1>1, <1>2, <1>4, BackendStays
<1>5. BackendInv(b)'
  <2>1. \A n \in Names : ~Knows(server[b], n)'
    BY <1>1, FreshKnowsNothing DEF Knows
  <2>2. ~server'[b].mutator
    BY <1>1, FreshKnowsNothing
  <2>3. server'[b].methods = {}
    BY <1>1, FreshKnowsNothing
  <2>4. QED
    BY <2>1, <2>2, <2>3 DEF BackendInv
<1>6. (seen = [u \in Threads |-> seen[u]])'
  BY <1>1 DEF WarmInv
<1>7. QED
  BY <1>3, <1>4, <1>5, <1>6 DEF WarmInv

\* Going on from a pass: the cold process takes the same pass.
LEMMA GoingOn ==
  ASSUME TypeInv, NEW t \in Threads, pc[t] = "lower", NEW srv, GoOn(t, srv), UNCHANGED job, Inside(t)'
  PROVE  /\ ColdAt(t)' = After(Due(opts[t], twin[t]), prog[t], opts[t], at[t], ColdAt(t))
         /\ ~(Fails(t, srv) /\ ~opts[t].best)
<1> DEFINE p == prog[t]
           o == opts[t]
           i == at[t]
           c == Cold(p, o)
<1>0. /\ p \in Programs \cup {<<>>} /\ o \in Options /\ i \in 0..Len(p) /\ twin[t] \in BOOLEAN
      /\ Sent(p, o, i, twin[t])
  <2>1. Inside(t) /\ at[t] <= Len(prog[t])
    BY DEF TypeInv, PlaceOK, Inside
  <2>2. QED
    BY <2>1, ThreadTypes, ColdTyped
<1>1. /\ pc \in [Threads -> PCs] /\ at \in [Threads -> Nat] /\ twin \in [Threads -> BOOLEAN]
      /\ UNCHANGED <<prog, opts>>
  BY DEF TypeInv, TypeOK, job
<1>2. ~Goto(t, "out")
  BY <1>1 DEF Goto, Inside
<1>3. ~(Fails(t, srv) /\ ~opts[t].best) /\ Advance(t)
  BY <1>2 DEF GoOn
<1>4. ColdAt(t)' = c[Number(at'[t], twin'[t])]
  BY <1>1 DEF ColdAt
<1> DEFINE ac == After(Due(o, twin[t]), p, o, i, c[Number(i, twin[t])])
<1>c. /\ Twinned(p, o, i) /\ ~twin[t] => c[Number(i, TRUE)] = ac
      /\ ~(Twinned(p, o, i) /\ ~twin[t]) => c[Number(i + 1, FALSE)] = ac
  <2> HIDE DEF p, o, i
  <2>1. QED
    BY <1>0, ColdNext
<1>5. CASE Twinned(p, o, i) /\ ~twin[t]
  <2>1. twin' = [twin EXCEPT ![t] = TRUE] /\ at' = at
    BY <1>3, <1>5 DEF Advance
  <2>2. twin'[t] = TRUE /\ at'[t] = i
    BY <1>1, <2>1
  <2>3. c[Number(i, TRUE)] = ac
    BY <1>c, <1>5
  <2>4. QED
    BY <1>3, <1>4, <2>2, <2>3 DEF ColdAt
<1>6. CASE ~(Twinned(p, o, i) /\ ~twin[t])
  <2>1. twin' = [twin EXCEPT ![t] = FALSE] /\ at' = [at EXCEPT ![t] = @ + 1]
    BY <1>3, <1>6 DEF Advance
  <2>2. twin'[t] = FALSE /\ at'[t] = i + 1
    BY <1>1, <2>1
  <2>3. c[Number(i + 1, FALSE)] = ac
    BY <1>c, <1>6
  <2>4. QED
    BY <1>3, <1>4, <2>2, <2>3 DEF ColdAt
<1>7. QED
  BY <1>5, <1>6

\* Where a thread that has a statement lowered is, and who else is inside.
LEMMA Lowering ==
  ASSUME TypeInv, OptionsInv, NEW t \in Threads, pc[t] = "lower"
  PROVE  /\ Inside(t)
         /\ req[t] = Due(opts[t], twin[t]) /\ req[t] \in Requests /\ req[t].best = opts[t].best
         /\ prog[t] \in Programs \cup {<<>>} /\ at[t] \in 0..Len(prog[t])
         /\ BackendOf[t] \in Backends /\ server[BackendOf[t]] \in Servers
         /\ ColdAt(t) \in Servers
         /\ \A u \in Threads : u # t => ~Inside(u)
<1>1. Inside(t) /\ at[t] <= Len(prog[t])
  BY DEF TypeInv, PlaceOK, Inside
<1>2. req[t] = Due(opts[t], twin[t])
  BY DEF OptionsInv, RequestsCarryOwnOptions
<1>3. req[t].best = opts[t].best
  <2>1. Due(opts[t], twin[t]).best = opts[t].best
    BY DEF Due
  <2>2. QED
    BY <1>2, <2>1
<1>4. \A u \in Threads : u # t => ~Inside(u)
  BY DEF OptionsInv, OneInside, Inside
<1>5. QED
  BY <1>1, <1>2, <1>3, <1>4, ThreadTypes, ColdTyped

LEMMA OneShotWarm ==
  ASSUME WarmInv, TypeInv', OptionsInv, NEW t \in Threads, OneShot(t)
  PROVE  WarmInv'
<1> DEFINE b == BackendOf[t]
<1>0. TypeInv /\ TypeOK /\ seen = [u \in Threads |-> seen[u]] /\ pc[t] = "lower"
  BY DEF WarmInv, TypeInv, OneShot
<1>1. /\ GoOn(t, Fresh) /\ UNCHANGED <<prog, opts>> /\ UNCHANGED job
      /\ server'[b] = Fresh /\ \A d \in Backends : d # b => server'[d] = server[d] /\ past'[d] = past[d]
      /\ \A u \in Threads : intact'[u] => intact[u] /\ BackendOf[u] # b
      /\ \A u \in Threads : u # t => seen'[u] = seen[u]
      /\ seen' = [u \in Threads |-> seen'[u]]
  BY <1>0, ThreadTypes DEF OneShot, TypeOK, job, Witness
<1>2. \A u \in Threads : u # t => pc'[u] = pc[u] /\ at'[u] = at[u] /\ twin'[u] = twin[u]
  BY <1>0, <1>1, GoOnTypes
<1>3. \A u \in Threads : u # t => ~Inside(u) /\ ~Inside(u)'
  BY <1>0, <1>2, Lowering DEF Inside
<1>4. ASSUME NEW u \in Threads, u # t PROVE ThreadInv(u)'
  <2>1. BackendOf[u] \in Backends
    BY <1>0, ThreadTypes
  <2>2. QED
    BY <1>1, <1>2, <1>3, <1>4, <2>1, ThreadStays
<1>5. ThreadInv(t)'
  <2>1. ~intact'[t]
    BY <1>1
  <2>2. QED
    BY <2>1 DEF ThreadInv
<1>6. ASSUME NEW d \in Backends, d # b PROVE BackendInv(d)'
  <2>1. \A u \in Threads : Inside(u) /\ BackendOf[u] = d => u # t
    BY <1>6
  <2>2. QED
    BY <1>1, <1>3, <1>6, <2>1, BackendStays
<1>7. BackendInv(b)'
  <2>1. \A n \in Names : ~Knows(server[b], n)'
    BY <1>1, FreshKnowsNothing DEF Knows
  <2>2. ~server'[b].mutator
    BY <1>1, FreshKnowsNothing
  <2>3. server'[b].methods = {}
    BY <1>1, FreshKnowsNothing
  <2>4. QED
    BY <2>1, <2>2, <2>3 DEF BackendInv
<1>8. QED
  BY <1>1, <1>4, <1>5, <1>6, <1>7 DEF WarmInv

LEMMA TranslateWarm ==
  ASSUME WarmInv, TypeInv', OptionsInv, NEW t \in Threads, Translate(t)
  PROVE  WarmInv'
<1> DEFINE b == BackendOf[t]
           s == prog[t][at[t]]
           aw == After(req[t], prog[t], opts[t], at[t], server[b])
           ac == After(req[t], prog[t], opts[t], at[t], ColdAt(t))
<1>0. TypeInv /\ TypeOK /\ seen = [u \in Threads |-> seen[u]] /\ pc[t] = "lower"
  BY DEF WarmInv, TypeInv, Translate
<1>1. /\ GoOn(t, server[b]) /\ UNCHANGED <<prog, opts, intact>> /\ UNCHANGED job
      /\ server'[b] = aw /\ \A d \in Backends : d # b => server'[d] = server[d]
      /\ \A u \in Threads : u # t => seen'[u] = seen[u]
      /\ seen' = [u \in Threads |-> seen'[u]]
      /\ seen'[t] = IF at[t] = 0 THEN NothingSeen
                    ELSE [at |-> at[t], twin |-> twin[t], view |-> View(s, Enter(req[t], server[b]))]
  BY <1>0, ThreadTypes DEF Translate, TypeOK, job, Witness
<1>2. \/ Fails(t, server[b]) /\ ~opts[t].best /\ Leave(t, TRUE)
      \/ ~(Fails(t, server[b]) /\ ~opts[t].best) /\ UNCHANGED past
  BY DEF Translate
<1>3. /\ Inside(t) /\ req[t] = Due(opts[t], twin[t]) /\ req[t] \in Requests
      /\ req[t].best = opts[t].best
      /\ prog[t] \in Programs \cup {<<>>} /\ at[t] \in 0..Len(prog[t])
      /\ b \in Backends /\ server[b] \in Servers /\ ColdAt(t) \in Servers
      /\ \A u \in Threads : u # t => ~Inside(u)
  BY <1>0, Lowering
<1>4. \A u \in Threads : u # t => pc'[u] = pc[u] /\ at'[u] = at[u] /\ twin'[u] = twin[u] /\ ~Inside(u)'
  BY <1>0, <1>1, <1>3, GoOnTypes DEF Inside
<1>5. /\ \A d \in Backends : /\ past[d].names \subseteq past'[d].names
                             /\ past[d].methods \subseteq past'[d].methods
                             /\ past[d].failed => past'[d].failed
      /\ Fails(t, server[b]) /\ ~opts[t].best => /\ NamesOf(prog[t]) \subseteq past'[b].names
                                                /\ MethodsOf(prog[t]) \subseteq past'[b].methods
                                                /\ past'[b].failed
  BY <1>0, <1>2, Left
<1>6. Inside(t)' => ColdAt(t)' = ac /\ ~(Fails(t, server[b]) /\ ~opts[t].best)
  BY <1>0, <1>1, <1>3, GoingOn
<1>7. ~(Fails(t, server[b]) /\ ~opts[t].best) => Inside(t)'
  <2>1. SUFFICES ASSUME ~(Fails(t, server[b]) /\ ~opts[t].best) PROVE pc'[t] = "pass"
    BY DEF Inside
  <2>2. Goto(t, "pass")
    BY <1>1, <2>1 DEF GoOn
  <2>3. QED
    BY <1>0, <2>2 DEF Goto, TypeOK
<1>8. /\ intact[t] /\ NewAsks(t) => ~ColdAt(t).mutator
      /\ intact[t] => SameMethods(NewMethods(t), ColdAt(t), server[b])
      /\ intact[t] => Covers(ColdAt(t), server[b])
      /\ intact[t] /\ NewNames(t) => Agree(NamesOf(prog[t]), ColdAt(t), server[b])
  BY <1>3 DEF WarmInv, ThreadInv
<1>9. /\ \A n \in Names : Knows(server[b], n) => n \in past[b].names \/ n \in NamesOf(prog[t])
      /\ \A d \in server[b].methods : d[3] \in past[b].methods \/ d[3] \in MethodsOf(prog[t])
      /\ ~past[b].failed => ~server[b].mutator
  BY <1>3 DEF WarmInv, BackendInv
<1>10. /\ Covers(ColdAt(t), server[b]) => Covers(ac, aw)
       /\ Agree(NamesOf(prog[t]), ColdAt(t), server[b]) => Agree(NamesOf(prog[t]), ac, aw)
       /\ \A n \in Names : Knows(aw, n) => Knows(server[b], n) \/ n \in NamesOf(prog[t])
       /\ \A M : SameMethods(M, ColdAt(t), server[b]) => SameMethods(M, ac, aw)
       /\ \A d \in aw.methods : d \in server[b].methods \/ d[3] \in MethodsOf(prog[t])
  BY <1>3, AfterKeeps
<1>11. ~(Fails(t, server[b]) /\ ~opts[t].best) => (~server[b].mutator => ~aw.mutator)
  <2>1. SUFFICES ASSUME ~(Fails(t, server[b]) /\ ~opts[t].best), ~server[b].mutator
                 PROVE  ~aw.mutator
    OBVIOUS
  <2>2. ~(at[t] > 0 /\ Throws(prog[t][at[t]], Enter(req[t], server[b])) /\ ~req[t].best)
    BY <1>3, <2>1 DEF Fails
  <2>3. QED
    BY <1>3, <2>1, <2>2, AfterUnmarked
\* What the warm process finds in a method's name the cold one finds, so it does
\* not fail where this one did not.
<1>a. ASSUME NewAsks(t), intact[t], at[t] # 0
      PROVE  LET M == NewMethods(t)
                 ec == Enter(req[t], ColdAt(t))
                 ew == Enter(req[t], server[b])
             IN  /\ s \in Statements /\ s.asks \subseteq M /\ SameMethods(M, ec, ew)
                 /\ ec \in Servers /\ ew \in Servers /\ ec.refs = req[t] /\ ew.refs = req[t]
  <2>1. s \in Statements /\ s.asks \subseteq AsksOf(prog[t]) /\ AsksOf(prog[t]) \subseteq Methods
    BY <1>3, <1>a, FileOf
  <2>2. s.asks \subseteq NewMethods(t)
    BY <1>a, <2>1 DEF NewAsks, NewMethods
  <2>3. SameMethods(NewMethods(t), Enter(req[t], ColdAt(t)), Enter(req[t], server[b]))
    BY <1>3, <1>8, <1>a, EnterKeeps
  <2>4. QED
    BY <1>3, <2>1, <2>2, <2>3, EnterTypes
<1>b. ASSUME NewAsks(t), intact[t], ~(Fails(t, server[b]) /\ ~opts[t].best)
      PROVE  ~ac.mutator
  <2>1. ~(at[t] > 0 /\ Throws(prog[t][at[t]], Enter(req[t], ColdAt(t))) /\ ~req[t].best)
    <3>1. SUFFICES ASSUME at[t] > 0, ~req[t].best, Throws(s, Enter(req[t], ColdAt(t))) PROVE FALSE
      OBVIOUS
    <3> DEFINE ec == Enter(req[t], ColdAt(t))
               ew == Enter(req[t], server[b])
               M == NewMethods(t)
    <3>2. /\ s \in Statements /\ s.asks \subseteq M /\ SameMethods(M, ec, ew)
          /\ ec \in Servers /\ ew \in Servers /\ ec.refs = req[t] /\ ew.refs = req[t]
      BY <1>3, <1>a, <1>b, <3>1
    <3>3. ~Throws(s, ew)
      BY <1>3, <1>b, <3>1 DEF Fails
    <3>4. Throws(s, ec)
      BY <3>1
    <3> HIDE DEF ec, ew, M, s
    <3>5. Faulty(s, ec) <=> Faulty(s, ew)
      BY <3>2, SameFault
    <3>6. QED
      BY <3>2, <3>3, <3>4, <3>5 DEF Throws
  <2>2. ~ColdAt(t).mutator
    BY <1>8, <1>b
  <2>3. QED
    BY <1>3, <2>1, <2>2, AfterUnmarked
<1>12. /\ NewNames(t)' => NewNames(t)
       /\ NewAsks(t)' => NewAsks(t)
       /\ NewMethods(t)' \subseteq NewMethods(t)
  BY <1>1, <1>3, <1>5 DEF NewNames, NewAsks, NewMethods
<1>13. ASSUME Inside(t)'
       PROVE  /\ intact'[t] /\ NewAsks(t)' => ~ColdAt(t)'.mutator
              /\ intact'[t] => Covers(ColdAt(t), server[b])'
              /\ intact'[t] => SameMethods(NewMethods(t), ColdAt(t), server[b])'
              /\ intact'[t] /\ NewNames(t)' => Agree(NamesOf(prog[t]), ColdAt(t), server[b])'
  <2>a. intact'[t] /\ NewAsks(t)' => ~ac.mutator
    BY <1>1, <1>6, <1>12, <1>13, <1>b
  <2> HIDE DEF ac, aw
  <2>1. ColdAt(t)' = ac /\ server'[b] = aw /\ intact'[t] = intact[t]
        /\ NamesOf(prog[t])' = NamesOf(prog[t])
    BY <1>1, <1>6, <1>13
  <2>2. intact[t] => Covers(ac, aw)
    BY <1>8, <1>10
  <2>3. intact[t] /\ NewNames(t) => Agree(NamesOf(prog[t]), ac, aw)
    BY <1>8, <1>10
  <2>4. Covers(ac, aw) => Covers(ColdAt(t), server[b])'
    BY <2>1 DEF Covers
  <2>5. Agree(NamesOf(prog[t]), ac, aw) => Agree(NamesOf(prog[t]), ColdAt(t), server[b])'
    BY <2>1 DEF Agree
  <2>6. intact[t] => SameMethods(NewMethods(t), ac, aw)
    BY <1>8, <1>10
  <2>7. SameMethods(NewMethods(t), ac, aw) => SameMethods(NewMethods(t), ColdAt(t), server[b])'
    BY <1>12, <2>1 DEF SameMethods
  <2>8. QED
    BY <1>12, <2>a, <2>1, <2>2, <2>3, <2>4, <2>5, <2>6, <2>7
<1>14. /\ Looked(t)' /\ intact'[t] => SeesOwn(t)'
       /\ Looked(t)' /\ intact'[t] /\ NewNames(t)' /\ NewAsks(t)' /\ ~past'[b].failed
            => seen'[t].view = ColdView(t)'
  <2>1. CASE at[t] = 0
    BY <1>1, <2>1 DEF Looked, NothingSeen
  <2>2. CASE at[t] # 0
    <3> DEFINE ec == Enter(req[t], ColdAt(t))
               ew == Enter(req[t], server[b])
    <3>1. s \in Statements /\ s.uses \subseteq NamesOf(prog[t])
      BY <1>3, <2>2, FileOf
    <3>2. seen'[t].at = at[t] /\ seen'[t].twin = twin[t] /\ seen'[t].view = View(s, ew)
      BY <1>1, <2>2
    <3>3. ColdView(t)' = View(s, ec)
      <4>1. ColdServer(t)' = ec
        BY <1>1, <1>3, <3>2 DEF ColdServer, ColdAt
      <4>2. QED
        BY <1>1, <3>2, <4>1 DEF ColdView
    <3>4. /\ ec \in Servers /\ ew \in Servers /\ ec.refs = ew.refs
          /\ ec.mutator = ColdAt(t).mutator /\ ew.mutator = server[b].mutator
          /\ Covers(ColdAt(t), server[b]) => Covers(ec, ew)
          /\ Agree(NamesOf(prog[t]), ColdAt(t), server[b]) => Agree(NamesOf(prog[t]), ec, ew)
          /\ \A M : SameMethods(M, ColdAt(t), server[b]) => SameMethods(M, ec, ew)
      BY <1>3, EnterTypes, EnterKeeps
    <3>a. NewAsks(t) => s.asks \subseteq NewMethods(t)
      <4>1. s.asks \subseteq AsksOf(prog[t]) /\ AsksOf(prog[t]) \subseteq Methods
        BY <1>3, <2>2, FileOf
      <4>2. QED
        BY <4>1 DEF NewAsks, NewMethods
    <3>b. s.asks \subseteq Methods
      BY <3>1 DEF Statements
    <3> HIDE DEF ec, ew, s, ac, aw
    <3>5. ASSUME intact'[t] PROVE SeesOwn(t)'
      <4>1. Covers(ec, ew) /\ SameMethods(NewMethods(t), ec, ew)
        BY <1>1, <1>8, <3>4, <3>5
      <4>2. LET mine == View(s, ec)
                got == View(s, ew)
            IN  /\ \A n \in DOMAIN mine.classes :
                     mine.classes[n] # NoClass => got.classes[n] = mine.classes[n]
                /\ DOMAIN mine.receivers = s.asks
                /\ \A m \in s.asks :
                     m \in NewMethods(t) => got.receivers[m] = mine.receivers[m]
                /\ mine.containers \subseteq got.containers
                /\ mine.noncomp => got.noncomp
        BY <3>1, <3>4, <4>1, ViewCovers
      <4>3. \A m \in s.asks : m \notin past'[b].methods => m \in NewMethods(t)
        BY <1>3, <1>5, <3>b DEF NewMethods
      <4>4. QED
        BY <3>2, <3>3, <4>2, <4>3 DEF SeesOwn
    <3>6. ASSUME intact'[t], NewNames(t)', NewAsks(t)', ~past'[b].failed
          PROVE  seen'[t].view = ColdView(t)'
      <4>1. intact[t] /\ NewNames(t) /\ NewAsks(t) /\ ~past[b].failed
        BY <1>1, <1>3, <1>5, <1>12, <3>6
      <4>2. Agree(NamesOf(prog[t]), ec, ew) /\ SameMethods(NewMethods(t), ec, ew)
        BY <1>8, <3>4, <4>1
      <4>3. ec.mutator = ew.mutator
        <5>1. ~ec.mutator /\ ~ew.mutator /\ ec.mutator \in BOOLEAN /\ ew.mutator \in BOOLEAN
          BY <1>8, <1>9, <3>4, <4>1 DEF Servers
        <5>2. QED
          BY <5>1
      <4>4. View(s, ec) = View(s, ew)
        BY <3>1, <3>4, <3>a, <4>1, <4>2, <4>3, ViewAgrees
      <4>5. QED
        BY <3>2, <3>3, <4>4
    <3>7. QED
      BY <3>5, <3>6
  <2>3. QED
    BY <2>1, <2>2
<1>15. ThreadInv(t)'
  BY <1>13, <1>14 DEF ThreadInv
<1>16. ASSUME NEW u \in Threads, u # t PROVE ThreadInv(u)'
  <2>1. BackendOf[u] \in Backends
    BY <1>0, ThreadTypes
  <2>2. QED
    BY <1>1, <1>4, <1>5, <1>16, <2>1, ThreadStays
<1>17. ASSUME NEW d \in Backends, d # b PROVE BackendInv(d)'
  <2>1. \A u \in Threads : Inside(u) /\ BackendOf[u] = d => FALSE
    BY <1>3, <1>17
  <2>2. QED
    BY <1>1, <1>5, <1>17, <2>1, BackendStays
<1>18. BackendInv(b)'
  <2> HIDE DEF ac, aw
  <2>1. \A n \in Names : Knows(server[b], n)' <=> Knows(aw, n)
    BY <1>1 DEF Knows
  <2>2. ASSUME NEW n \in Names, Knows(aw, n)
        PROVE  \/ n \in past'[b].names
               \/ Inside(t)' /\ n \in NamesOf(prog[t])'
    <3>1. n \in past[b].names \/ n \in NamesOf(prog[t])
      BY <1>9, <1>10, <2>2
    <3>2. NamesOf(prog[t])' = NamesOf(prog[t])
      BY <1>1
    <3>3. QED
      BY <1>3, <1>5, <1>7, <3>1, <3>2
  <2>3. ~past'[b].failed => ~server'[b].mutator
    BY <1>1, <1>3, <1>5, <1>9, <1>11
  <2>4. ASSUME NEW d \in server'[b].methods
        PROVE  \/ d[3] \in past'[b].methods
               \/ Inside(t)' /\ d[3] \in MethodsOf(prog[t])'
    <3>1. d[3] \in past[b].methods \/ d[3] \in MethodsOf(prog[t])
      BY <1>1, <1>9, <1>10, <2>4
    <3>2. MethodsOf(prog[t])' = MethodsOf(prog[t])
      BY <1>1
    <3>3. QED
      BY <1>3, <1>5, <1>7, <3>1, <3>2
  <2>5. QED
    BY <1>3, <2>1, <2>2, <2>3, <2>4 DEF BackendInv
<1>19. QED
  BY <1>1, <1>15, <1>16, <1>17, <1>18 DEF WarmInv

LEMMA NextWarm == ASSUME SharedLock PROVE OptionsInv /\ WarmInv /\ [Next]_vars => WarmInv'
<1> SUFFICES ASSUME OptionsInv, WarmInv, [Next]_vars PROVE WarmInv'
  OBVIOUS
<1>0. OneInside /\ TypeInv /\ TypeOK
  BY DEF OptionsInv, WarmInv, TypeInv
<1>1. TypeInv'
  BY <1>0, NextTypes
<1>2. ASSUME NEW t \in Threads,
             SetOptions(t) \/ FrontEnd(t) \/ SetHeap(t) \/ Raise(t) \/ SetPass(t) \/ Send(t)
      PROVE  WarmInv'
  <2>1. UNCHANGED <<prog, opts, at, twin, server, seen, intact, past>>
    BY <1>2 DEF SetOptions, FrontEnd, SetHeap, Raise, SetPass, Send, job, place, history
  <2>2. PICK l \in PCs : Goto(t, l) /\ (Inside(t) <=> l \in {"pass", "send", "lower"})
    BY <1>2 DEF SetOptions, FrontEnd, SetHeap, Raise, SetPass, Send, Inside, PCs
  <2>3. \A u \in Threads : Inside(u)' <=> Inside(u)
    BY <1>0, <2>2 DEF Goto, Inside, TypeOK
  <2>4. QED
    BY <1>1, <2>1, <2>3, QuietWarm
<1>3. ASSUME NEW t \in Threads, IrOnly(t) PROVE WarmInv'
  <2>1. UNCHANGED <<pc, prog, opts, at, twin, server, seen, intact, past>>
    BY <1>3 DEF IrOnly, place, history
  <2>2. \A u \in Threads : Inside(u)' <=> Inside(u)
    BY <2>1 DEF Inside
  <2>3. QED
    BY <1>1, <2>1, <2>2, QuietWarm
<1>4. CASE UNCHANGED vars
  <2>1. UNCHANGED <<pc, prog, opts, at, twin, server, seen, intact, past>>
    BY <1>4 DEF vars, job, place, history
  <2>2. \A u \in Threads : Inside(u)' <=> Inside(u)
    BY <2>1 DEF Inside
  <2>3. QED
    BY <1>1, <2>1, <2>2, QuietWarm
<1>5. ASSUME NEW t \in Threads, NEW p \in Programs, NEW o \in Options, Begin(t, p, o)
      PROVE  WarmInv'
  BY <1>1, <1>5, BeginWarm
<1>6. ASSUME NEW t \in Threads, Infer(t) \/ Finish(t) PROVE WarmInv'
  BY <1>0, <1>1, <1>6, InferWarm, FinishWarm
<1>7. ASSUME NEW t \in Threads, Translate(t) \/ OneShot(t) PROVE WarmInv'
  BY <1>1, <1>7, TranslateWarm, OneShotWarm
<1>8. ASSUME NEW b \in Backends, Restart(b) PROVE WarmInv'
  BY <1>1, <1>8, RestartWarm
<1>9. QED
  BY <1>2, <1>3, <1>4, <1>5, <1>6, <1>7, <1>8 DEF Next

\* The strengthened invariant of the registries, under one lock.
THEOREM WarmInvariant == ASSUME SharedLock PROVE Spec => []WarmInv
<1>1. OptionsInv /\ WarmInv /\ [Next]_vars => WarmInv'
  BY NextWarm, SharedLock
<1>2. Spec => []OptionsInv
  BY OptionsStay, SharedLock
<1>3. QED
  BY InitWarm, <1>1, <1>2, PTL DEF Spec

\* Codegen finds what earlier statements of the file registered, whatever files
\* the process translated before (CodeGenerator.lean, classRegistry and the
\* other process-global registries).
THEOREM NothingOwnIsLost == ASSUME SharedLock PROVE Spec => []NothingOwnIsMissing
<1>1. QED
  BY WarmInvariant, WarmIsEnough, SharedLock, PTL

\* A warm process lowers each statement of a file with names of its own as a
\* fresh process would, unless an earlier file failed on it.
THEOREM WarmIsCold == ASSUME SharedLock PROVE Spec => []WarmLikeCold
<1>1. QED
  BY WarmInvariant, WarmIsEnough, SharedLock, PTL
=============================================================================

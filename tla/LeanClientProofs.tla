-------------------------- MODULE LeanClientProofs --------------------------
(***************************************************************************)
(* Machine-checked facts about LeanClient, for any set of threads, any     *)
(* bound on their calls and any choice of long kinds, when all threads     *)
(* take one lock and sessions are started before they are used.            *)
(***************************************************************************)
EXTENDS LeanClient, TLAPS

LEMMA InitType == Init => TypeOK
  <1> SUFFICES ASSUME Init PROVE TypeOK
    OBVIOUS
  <1>1. DataOK
    BY MaxCallsAssumption DEF Init, AInit, DataOK, Requests, Hows, PCs, Lines, Closers
  <1>2. FlagsOK
    BY DEF Init, FlagsOK
  <1>3. QED
    BY <1>1, <1>2 DEF TypeOK

\* The first unread line, if there is one, is a line, and so are the others.
LEMMA FirstLine ==
  DataOK /\ out # <<>> =>
    Head(out) \in Lines /\ Head(out).for \in Requests /\ Tail(out) \in Seq(Lines)
  <1> SUFFICES ASSUME DataOK, out # <<>>
               PROVE  Head(out) \in Lines /\ Head(out).for \in Requests
                      /\ Tail(out) \in Seq(Lines)
    OBVIOUS
  <1>1. Head(out) \in Lines /\ Tail(out) \in Seq(Lines)
    BY DEF DataOK
  <1>2. QED
    BY <1>1 DEF Lines

\* A method that returns leaves the data of its caller well typed.
LEMMA ReturnData ==
  ASSUME NEW t \in Threads, NEW how \in Hows, NEW r \in Requests, DataOK, ReturnFor(t, how, r)
  PROVE  /\ kind' \in [Threads -> Kinds \cup {"none"}]
         /\ asked' \in [Threads -> 0..MaxCalls]
         /\ got' \in [Threads -> [how : Hows, for : Requests]]
         /\ pc' \in [Threads -> PCs]
         /\ budget' \in [Threads -> {"none", "startup", "short"}]
  BY DEF ReturnFor, DataOK, Goto, PCs

\* So do the two ways on from a close().
LEMMA AfterCloseData ==
  ASSUME NEW t \in Threads, DataOK, AfterClose(t)
  PROVE  /\ kind' \in [Threads -> Kinds \cup {"none"}]
         /\ asked' \in [Threads -> 0..MaxCalls]
         /\ got' \in [Threads -> [how : Hows, for : Requests]]
         /\ pc' \in [Threads -> PCs]
         /\ budget' \in [Threads -> {"none", "startup", "short"}]
  <1>1. CASE kind[t] = "translate"
    BY <1>1 DEF AfterClose, Goto, calls, DataOK, PCs
  <1>2. CASE kind[t] # "translate"
    <2>1. Mine(t) \in Requests /\ "fallback" \in Hows
      BY DEF Mine, Requests, Hows, DataOK
    <2>2. QED
      BY <1>2, <2>1, ReturnData DEF AfterClose, Return
  <1>3. QED
    BY <1>1, <1>2

\* What the lines of close() and the assignments of self.proc do to the child.
ChildOK ==
  /\ proc \in {"none", "live", "dead"}
  /\ shut \in {"open", "input", "all"}
  /\ inp \in Seq(Requests)
  /\ out \in Seq(Lines)
  /\ orphans \in Nat
  /\ awaited \subseteq Closers

LEMMA ChildData ==
  ASSUME DataOK,
         \/ Replace("live") \/ Drop
         \/ \E c \in Closers : EndInput(c) \/ Reap(c) \/ Linger(c)
  PROVE  ChildOK'
  <1>1. awaited' \subseteq Closers
    BY DEF Replace, Drop, EndInput, Reap, Linger, DataOK
  <1>2. orphans' \in Nat
    BY DEF Replace, Drop, EndInput, Reap, Linger, DataOK
  <1>3. inp' \in Seq(Requests) /\ out' \in Seq(Lines)
    <2>1. (inp' = inp /\ out' = out) \/ (inp' = <<>> /\ out' = <<>>)
      BY DEF Replace, Drop, EndInput, Reap, Linger
    <2>2. inp \in Seq(Requests) /\ out \in Seq(Lines)
      BY DEF DataOK
    <2>3. <<>> \in Seq(Requests) /\ <<>> \in Seq(Lines)
      OBVIOUS
    <2>4. QED
      BY ONLY <2>1, <2>2, <2>3
  <1>4. proc' \in {"none", "live", "dead"} /\ shut' \in {"open", "input", "all"}
    BY DEF Replace, Drop, EndInput, Reap, Linger, DataOK
  <1>5. QED
    BY <1>1, <1>2, <1>3, <1>4 DEF ChildOK

LEMMA NextData == DataOK /\ [Next]_vars => DataOK'
  <1> SUFFICES ASSUME DataOK, [Next]_vars PROVE DataOK'
    OBVIOUS
  <1> USE DEF DataOK, calls, child, stop, Goto
  <1>1. ASSUME NEW t \in Threads, Acquire(t) PROVE DataOK'
    BY <1>1 DEF Acquire, PCs
  <1>2. ASSUME NEW t \in Threads, Release(t) PROVE DataOK'
    BY <1>2 DEF Release, PCs
  <1>3. ASSUME NEW t \in Threads, StartFirst(t) PROVE DataOK'
    BY <1>3 DEF StartFirst, PCs
  <1>4. ASSUME NEW t \in Threads, UseCache(t) PROVE DataOK'
    BY <1>4 DEF UseCache, Return, ReturnFor, Mine, Requests, Hows, PCs
  <1>5. ASSUME NEW t \in Threads, Start(t) PROVE DataOK'
    BY <1>5 DEF Start, PCs
  <1>6. ASSUME NEW t \in Threads, BuildFails(t) PROVE DataOK'
    BY <1>6 DEF BuildFails, Return, ReturnFor, Mine, Requests, Hows, PCs
  <1>7. ASSUME NEW t \in Threads, Spawn(t) PROVE DataOK'
    BY <1>7, ChildData DEF Spawn, PCs, ChildOK
  <1>8. ASSUME NEW t \in Threads, Write(t) PROVE DataOK'
    BY <1>8 DEF Write, Mine, Requests, PCs
  <1>9. ASSUME NEW t \in Threads, WriteBroken(t) PROVE DataOK'
    BY <1>9 DEF WriteBroken, PCs
  <1>10. ASSUME NEW t \in Threads, WriteRaises(t) PROVE DataOK'
    BY <1>10 DEF WriteRaises, Return, ReturnFor, Mine, Requests, Hows, PCs
  <1>11. ASSUME NEW t \in Threads, ReadLine(t) PROVE DataOK'
    <2> DEFINE how == IF Usable(kind[t], Head(out)) THEN "answer" ELSE "fallback"
    <2>1. out # <<>> /\ ReturnFor(t, how, Head(out).for)
      BY <1>11 DEF ReadLine
    <2>2. Head(out).for \in Requests /\ Tail(out) \in Seq(Lines)
      BY <2>1, FirstLine
    <2>3. how \in Hows
      BY DEF Hows
    <2> HIDE DEF how
    <2>4. QED
      BY <1>11, <2>1, <2>2, <2>3, ReturnData DEF ReadLine
  <1>12. ASSUME NEW t \in Threads, ReadBroken(t) PROVE DataOK'
    <2>1. out' \in Seq(Lines)
      BY <1>12, FirstLine DEF ReadBroken
    <2>2. CASE kind[t] = "translate"
      BY <1>12, <2>1, <2>2 DEF ReadBroken, PCs
    <2>3. CASE kind[t] # "translate"
      <3>1. Mine(t) \in Requests /\ "fallback" \in Hows
        BY DEF Mine, Requests, Hows
      <3>2. QED
        BY <1>12, <2>1, <2>3, <3>1, ReturnData DEF ReadBroken, Return
    <2>4. QED
      BY <2>2, <2>3
  <1>13. ASSUME NEW t \in Threads, NoAnswer(t) PROVE DataOK'
    BY <1>13 DEF NoAnswer, PCs
  <1>14. ASSUME NEW t \in Threads, WaitRaises(t) PROVE DataOK'
    BY <1>14 DEF WaitRaises, Return, ReturnFor, Mine, Requests, Hows, PCs
  <1>15. ASSUME NEW t \in Threads, OneShot(t) PROVE DataOK'
    BY <1>15 DEF OneShot, Return, ReturnFor, Mine, Requests, Hows, PCs
  <1>16. ASSUME NEW t \in Threads, CloseNothing(t) PROVE DataOK'
    BY <1>16, AfterCloseData DEF CloseNothing
  <1>17. ASSUME NEW t \in Threads, CloseBegin(t) \/ CloseReap(t) PROVE DataOK'
    <2>1. t \in Closers
      BY DEF Closers
    <2>2. ChildOK'
      BY <1>17, <2>1, ChildData DEF CloseBegin, CloseReap
    <2>3. QED
      BY <1>17, <2>2 DEF CloseBegin, CloseReap, PCs, ChildOK
  <1>18. ASSUME NEW t \in Threads, CloseRaises(t) PROVE DataOK'
    BY <1>18 DEF CloseRaises, Return, ReturnFor, Mine, Requests, Hows, PCs
  <1>19. ASSUME NEW t \in Threads, CloseFails(t) PROVE DataOK'
    <2>1. t \in Closers
      BY DEF Closers
    <2>2. ChildOK'
      BY <1>19, <2>1, ChildData DEF CloseFails
    <2>3. Mine(t) \in Requests /\ "raised" \in Hows
      BY DEF Mine, Requests, Hows
    <2>4. QED
      BY <1>19, <2>2, <2>3, ReturnData DEF CloseFails, Return, ChildOK
  <1>20. ASSUME NEW t \in Threads, CloseEnd(t) PROVE DataOK'
    <2>1. ChildOK'
      BY <1>20, ChildData DEF CloseEnd
    <2>2. QED
      BY <1>20, <2>1, AfterCloseData DEF CloseEnd, ChildOK
  <1>21. ASSUME NEW t \in Threads, StartSession(t) PROVE DataOK'
    BY <1>21, MaxCallsAssumption DEF StartSession, Enter, PCs, Kinds
  <1>22. ASSUME NEW t \in Threads, NEW k \in Kinds, Call(t, k) PROVE DataOK'
    BY <1>22, MaxCallsAssumption DEF Call, Enter, PCs
  <1>23. ASSUME Stop PROVE DataOK'
    <2>1. ChildOK'
      <3>1. "session" \in Closers
        BY DEF Closers
      <3>2. CASE StopRaises
        BY <3>2 DEF StopRaises, ChildOK
      <3>3. CASE StopBegin \/ StopReap \/ StopFails \/ StopEnd
        BY <3>1, <3>3, ChildData DEF StopBegin, StopReap, StopFails, StopEnd
      <3>4. QED
        BY <1>23, <3>2, <3>3 DEF Stop
    <2>2. QED
      BY <1>23, <2>1 DEF Stop, StopBegin, StopReap, StopRaises, StopFails, StopEnd, ChildOK
  <1>24. ASSUME Boot PROVE DataOK'
    BY <1>24 DEF Boot, client
  <1>25. ASSUME Crash PROVE DataOK'
    BY <1>25 DEF Crash, client
  <1>26. ASSUME Serve PROVE DataOK'
    BY <1>26 DEF Serve, client, Lines
  <1>27. ASSUME CrashMidLine PROVE DataOK'
    BY <1>27 DEF CrashMidLine, client, Lines
  <1>28. ASSUME UNCHANGED vars PROVE DataOK'
    BY <1>28 DEF vars
  <1>29. QED
    BY <1>1, <1>2, <1>3, <1>4, <1>5, <1>6, <1>7, <1>8, <1>9, <1>10, <1>11, <1>12, <1>13,
       <1>14, <1>15, <1>16, <1>17, <1>18, <1>19, <1>20, <1>21, <1>22, <1>23, <1>24,
       <1>25, <1>26, <1>27, <1>28 DEF Next, Timed, Untimed

LEMMA NextFlags == FlagsOK /\ [Next]_vars => FlagsOK'
  <1> SUFFICES ASSUME FlagsOK, [Next]_vars PROVE FlagsOK'
    OBVIOUS
  <1> USE DEF FlagsOK, child, stop
  <1>1. CASE UNCHANGED vars
    BY <1>1 DEF vars
  <1>2. ASSUME NEW t \in Threads,
               \/ Acquire(t) \/ Release(t) \/ StartSession(t)
               \/ \E k \in Kinds : Call(t, k)
        PROVE  FlagsOK'
    BY <1>2 DEF Acquire, Release, StartSession, Call, Enter
  <1>3. ASSUME NEW t \in Threads, Timed(t) PROVE FlagsOK'
    BY <1>3 DEF Timed, StartFirst, UseCache, Start, Write, WriteBroken, WriteRaises,
       ReadLine, ReadBroken, NoAnswer, WaitRaises, CloseNothing, CloseBegin, CloseReap,
       CloseRaises, CloseFails, CloseEnd, EndInput, Reap, Linger, Drop, Replace
  <1>4. ASSUME NEW t \in Threads, Untimed(t) PROVE FlagsOK'
    BY <1>4 DEF Untimed, BuildFails, Spawn, Replace, OneShot
  <1>5. CASE Stop
    BY <1>5 DEF Stop, StopBegin, StopReap, StopRaises, StopFails, StopEnd,
       EndInput, Reap, Linger, Drop, Replace
  <1>6. CASE Boot \/ Serve \/ Crash \/ CrashMidLine
    BY <1>6 DEF Boot, Serve, Crash, CrashMidLine, client
  <1>7. QED
    BY <1>1, <1>2, <1>3, <1>4, <1>5, <1>6 DEF Next

\* Every variable of the client stays in its range: LeanClient's TypeOK.
THEOREM TypeCorrect == Spec => []TypeOK
  BY InitType, NextData, NextFlags, PTL DEF Spec, TypeOK
-----------------------------------------------------------------------------
(* What makes the invariants inductive when all threads take the same lock and *)
(* sessions are started before they are used.                                *)

SharedLock == \A t, u \in Threads : LockOf[t] = LockOf[u]

\* One thread at a time is inside the lock or a start, and only there has it a
\* call open.
OneInside ==
  /\ \A t, u \in Threads : t # u => pc[t] = "out" \/ pc[u] = "out"
  /\ \A t \in Threads : Open(t) <=> pc[t] \notin {"out", "held"}

\* What is in the pipes belongs to the thread that waits on them, and there is
\* never more than one line's worth of it.
PipesOwn ==
  /\ proc # "none" /\ shut # "all" =>
       \A t \in Threads : pc[t] = "wait" =>
          /\ \A i \in 1..Len(inp) : inp[i] = Mine(t)
          /\ \A i \in 1..Len(out) : out[i].for = Mine(t)
  /\ Len(inp) + Len(out) <= 1

\* A process that has answered has booted; one about to be replaced is gone.
BootFacts ==
  /\ (out # <<>> \/ warm) => booted
  /\ \A t \in Threads : pc[t] \in {"first", "spawn"} => proc # "live"

\* A closing thread drops the child it has waited for, and so does Session.close
\* as long as no call has run beside it.
ClosersOwn ==
  /\ \A t \in Threads :
       /\ pc[t] = "reap" => t \in awaited \/ proc = "none"
       /\ pc[t] = "drop" => proc # "live"
  /\ ~raced /\ stopping # "no" =>
       /\ \A t \in Threads : ~Open(t)
       /\ stopping = "reap" => "session" \in awaited
       /\ stopping = "drop" => proc # "live"

\* Only `request` retries.
OneShotOnlyTranslates ==
  \A t \in Threads : pc[t] = "oneshot" => kind[t] = "translate"

IInv ==
  /\ TypeOK
  /\ OneInside
  /\ PipesOwn
  /\ BootFacts
  /\ ClosersOwn
  /\ OneShotOnlyTranslates
  /\ QuietBetweenCalls
  /\ ReplyIsOwn
  /\ ShortBudgetOnlyIfBooted
  /\ NoOrphanBackend

\* Its two halves: where the threads are, and the child.
Control == OneInside /\ OneShotOnlyTranslates /\ ReplyIsOwn

Pipes == PipesOwn /\ QuietBetweenCalls

Held == BootFacts /\ ClosersOwn /\ ShortBudgetOnlyIfBooted /\ NoOrphanBackend

\* No thread is anywhere the invariants say something of the child.
Idle == \A u \in Threads : pc[u] \in {"out", "held", "oneshot"}

LEMMA InitInv == Init => IInv
  <1> SUFFICES ASSUME Init PROVE IInv
    OBVIOUS
  <1>1. TypeOK
    BY InitType
  <1>2. OneInside /\ ReplyIsOwn
    BY DEF Init, AInit, OneInside, ReplyIsOwn, Open, Mine
  <1>3. PipesOwn /\ BootFacts /\ QuietBetweenCalls /\ ShortBudgetOnlyIfBooted
       /\ NoOrphanBackend /\ OneShotOnlyTranslates /\ ClosersOwn
    BY DEF Init, PipesOwn, BootFacts, QuietBetweenCalls, ShortBudgetOnlyIfBooted, NoOrphanBackend,
       OneShotOnlyTranslates, ClosersOwn
  <1>4. QED
    BY <1>1, <1>2, <1>3 DEF IInv

\* A thread that moves on within its call is still the only one inside.
LEMMA Moves ==
  ASSUME DataOK, Control, NEW t \in Threads, NEW l \in PCs \ {"out", "held"},
         pc[t] \notin {"out", "held"}, Goto(t, l), UNCHANGED calls,
         l = "oneshot" => kind[t] = "translate"
  PROVE  Control' /\ pc'[t] = l /\ \A u \in Threads : u # t => pc[u] = "out" /\ pc'[u] = "out"
  <1>1. /\ pc' = [pc EXCEPT ![t] = l]
        /\ UNCHANGED <<kind, asked, got>>
        /\ pc \in [Threads -> PCs]
    BY DEF Goto, calls, DataOK
  <1>2. pc'[t] = l /\ \A u \in Threads : u # t => pc[u] = "out" /\ pc'[u] = "out"
    BY <1>1 DEF Control, OneInside
  <1>3. OneInside'
    BY <1>1, <1>2 DEF Control, OneInside, Open
  <1>4. OneShotOnlyTranslates'
    BY <1>1, <1>2 DEF Control, OneShotOnlyTranslates
  <1>5. ReplyIsOwn'
    BY <1>1 DEF Control, ReplyIsOwn, Open, Mine
  <1>6. QED
    BY <1>2, <1>3, <1>4, <1>5 DEF Control

\* One that returns leaves nobody in a call, with an outcome of its own.
LEMMA Returns ==
  ASSUME DataOK, Control, NEW t \in Threads, NEW how \in Hows,
         pc[t] \notin {"out", "held"}, ReturnFor(t, how, Mine(t))
  PROVE  /\ Control' /\ Idle'
         /\ \A u \in Threads : u # t => pc[u] = "out"
  <1>1. PICK l \in {"out", "held"} :
          /\ pc' = [pc EXCEPT ![t] = l]
          /\ kind' = [kind EXCEPT ![t] = "none"]
          /\ got' = [got EXCEPT ![t] = [how |-> how, for |-> Mine(t)]]
          /\ asked' = asked
    BY DEF ReturnFor, Goto
  <1>2. \A u \in Threads : u # t => pc[u] = "out" /\ pc'[u] = "out" /\ ~Open(u)
    BY <1>1 DEF Control, OneInside, DataOK
  <1>3. pc'[t] = l /\ kind'[t] = "none" /\ got'[t].for = Mine(t)
    BY <1>1 DEF DataOK
  <1>4. \A u \in Threads : u # t => kind'[u] = kind[u] /\ got'[u] = got[u]
    BY <1>1 DEF DataOK
  <1>5. \A u \in Threads : ~Open(u)'
    BY <1>2, <1>3, <1>4 DEF Open
  <1>6. OneInside'
    BY <1>2, <1>3, <1>5 DEF OneInside
  <1>7. Idle' /\ OneShotOnlyTranslates'
    BY <1>2, <1>3 DEF Idle, OneShotOnlyTranslates
  <1>8. ReplyIsOwn'
    BY <1>1, <1>2, <1>3, <1>4 DEF Control, ReplyIsOwn, Mine
  <1>9. QED
    BY <1>2, <1>6, <1>7, <1>8 DEF Control

\* So does one that has closed its child, except that it may retry.
LEMMA AfterCloses ==
  ASSUME DataOK, Control, NEW t \in Threads, pc[t] \notin {"out", "held"}, AfterClose(t)
  PROVE  Control' /\ Idle'
  <1>1. CASE kind[t] = "translate"
    <2>1. Goto(t, "oneshot") /\ UNCHANGED calls /\ "oneshot" \in PCs \ {"out", "held"}
      BY <1>1 DEF AfterClose, PCs
    <2>2. QED
      BY <1>1, <2>1, Moves DEF Idle
  <1>2. CASE kind[t] # "translate"
    <2>1. ReturnFor(t, "fallback", Mine(t)) /\ "fallback" \in Hows
      BY <1>2 DEF AfterClose, Return, Hows
    <2>2. QED
      BY <2>1, Returns
  <1>3. QED
    BY <1>1, <1>2

LEMMA NextInv == ASSUME SharedLock, ~Alongside PROVE IInv /\ [Next]_vars => IInv'
  <1> SUFFICES ASSUME IInv, [Next]_vars PROVE IInv'
    OBVIOUS
  <1>a. TypeOK'
    BY NextData, NextFlags DEF IInv, TypeOK
  <1>b. DataOK /\ FlagsOK /\ Control /\ Pipes /\ Held
    BY DEF IInv, TypeOK, Control, Pipes, Held
  <1> USE <1>b DEF child, stop
  <1> DEFINE P == PipesOwn' /\ QuietBetweenCalls'
             H == BootFacts' /\ ClosersOwn' /\ ShortBudgetOnlyIfBooted' /\ NoOrphanBackend'
  <1>1. ASSUME NEW t \in Threads, Acquire(t) PROVE Control' /\ P /\ H
    <2>1. /\ pc' = [pc EXCEPT ![t] = "held"]
          /\ \A u \in Threads : pc[u] = "out"
          /\ UNCHANGED <<kind, asked, got>>
      <3>1. \A u \in Threads : kind[u] # "libraryInfo"
        BY <1>1 DEF Acquire, NobodyStarts
      <3>2. QED
        BY <1>1 DEF Acquire, LockFree, SharedLock, Goto, calls
    <2>2. Control'
      BY <2>1 DEF DataOK, Control, OneInside, OneShotOnlyTranslates, ReplyIsOwn, Open, Mine
    <2>3. P
      BY <1>1, <2>1 DEF DataOK, Acquire, Pipes, PipesOwn, QuietBetweenCalls, Mine
    <2>4. H
      BY <1>1, <2>1 DEF DataOK, Acquire, Held, BootFacts, ClosersOwn,
         ShortBudgetOnlyIfBooted, NoOrphanBackend, Open
    <2>5. QED
      BY <2>2, <2>3, <2>4
  <1>2. ASSUME NEW t \in Threads, Release(t) PROVE Control' /\ P /\ H
    <2>1. /\ pc' = [pc EXCEPT ![t] = "out"]
          /\ pc[t] = "held"
          /\ UNCHANGED <<kind, asked, got>>
      BY <1>2 DEF Release, Goto, calls
    <2>2. Control'
      BY <2>1 DEF DataOK, Control, OneInside, OneShotOnlyTranslates, ReplyIsOwn, Open, Mine
    <2>3. P
      BY <1>2, <2>1 DEF DataOK, Release, Pipes, PipesOwn, QuietBetweenCalls, Mine
    <2>4. H
      BY <1>2, <2>1 DEF DataOK, Release, Held, BootFacts, ClosersOwn,
         ShortBudgetOnlyIfBooted, NoOrphanBackend, Open
    <2>5. QED
      BY <2>2, <2>3, <2>4
  <1>3. ASSUME NEW t \in Threads, NEW k \in Kinds, NEW l \in {"boot", "start"}, Enter(t, k, l),
               pc[t] \in {"out", "held"}, \A u \in Threads : u # t => pc[u] = "out"
        PROVE  Control' /\ P /\ H
    <2>1. /\ pc' = [pc EXCEPT ![t] = l]
          /\ kind' = [kind EXCEPT ![t] = k]
          /\ asked' = [asked EXCEPT ![t] = @ + 1]
          /\ got' = got
      BY <1>3 DEF Enter, Goto
    <2>2. Control'
      BY <1>3, <2>1 DEF DataOK, Control, OneInside, OneShotOnlyTranslates, ReplyIsOwn,
         Open, Mine, Kinds
    <2>3. P
      BY <1>3, <2>1 DEF DataOK, Enter, Pipes, PipesOwn, QuietBetweenCalls, Mine
    <2>4. BootFacts' /\ ShortBudgetOnlyIfBooted' /\ NoOrphanBackend'
      BY <1>3, <2>1 DEF DataOK, FlagsOK, Enter, Held, BootFacts, ShortBudgetOnlyIfBooted,
         NoOrphanBackend
    <2>5. ClosersOwn'
      BY <1>3, <2>1 DEF DataOK, FlagsOK, Enter, Held, ClosersOwn
    <2>6. QED
      BY <2>2, <2>3, <2>4, <2>5
  <1>4. ASSUME NEW t \in Threads, StartSession(t) PROVE Control' /\ P /\ H
    <2>1. Enter(t, "libraryInfo", "boot") /\ \A u \in Threads : pc[u] = "out"
      BY <1>4 DEF StartSession, NobodyInside
    <2>2. QED
      BY <1>3, <2>1 DEF Kinds
  <1>5. ASSUME NEW t \in Threads, NEW k \in Kinds, Call(t, k) PROVE Control' /\ P /\ H
    <2>1. Enter(t, k, "start") /\ pc[t] = "held" /\ \A u \in Threads : u # t => pc[u] = "out"
      BY <1>5 DEF Call, Control, OneInside
    <2>2. QED
      BY <1>3, <2>1
  <1>6. ASSUME NEW t \in Threads, StartFirst(t) PROVE Control' /\ P /\ H
    <2>1. PICK l \in {"start", "first"} :
            /\ Control' /\ pc'[t] = l
            /\ \A u \in Threads : u # t => pc[u] = "out" /\ pc'[u] = "out"
            /\ l \in {"first", "spawn"} => proc # "live"
      <3>1. \E l \in {"start", "first"} : Goto(t, l) /\ (l \in {"first", "spawn"} => proc # "live")
        BY <1>6 DEF StartFirst
      <3>2. UNCHANGED calls /\ pc[t] \notin {"out", "held"}
        BY <1>6 DEF StartFirst, calls
      <3>3. QED
        BY <3>1, <3>2, Moves DEF PCs
    <2>2. P
      BY <1>6, <2>1 DEF StartFirst, Pipes, PipesOwn, QuietBetweenCalls, Mine, calls
    <2>3. BootFacts' /\ ShortBudgetOnlyIfBooted' /\ NoOrphanBackend'
      BY <1>6, <2>1 DEF StartFirst, FlagsOK, Held, BootFacts, ClosersOwn,
         ShortBudgetOnlyIfBooted, NoOrphanBackend
    <2>4. raced' \/ stopping' = "no"
      BY <1>6 DEF StartFirst, Control, OneInside, Held, ClosersOwn
    <2>5. ClosersOwn'
      BY <1>6, <2>1, <2>4 DEF StartFirst, Held, BootFacts, ClosersOwn
    <2>6. QED
      BY <2>1, <2>2, <2>3, <2>5
  <1>7. ASSUME NEW t \in Threads, UseCache(t) PROVE Control' /\ P /\ H
    <2>1. Control' /\ Idle' /\ \A u \in Threads : u # t => pc[u] = "out"
      <3>1. PICK how \in {"cached"} : ReturnFor(t, how, Mine(t))
        BY <1>7 DEF UseCache, Return
      <3>2. pc[t] \notin {"out", "held"}
        BY <1>7 DEF UseCache
      <3>3. QED
        BY <3>1, <3>2, Returns DEF Hows
    <2>2. P
      BY <1>7, <2>1 DEF UseCache, Idle, Pipes, PipesOwn, QuietBetweenCalls, Mine, calls
    <2>3. BootFacts' /\ ShortBudgetOnlyIfBooted' /\ NoOrphanBackend'
      BY <1>7, <2>1 DEF UseCache, Idle, FlagsOK, Held, BootFacts, ClosersOwn,
         ShortBudgetOnlyIfBooted, NoOrphanBackend
    <2>4. raced' \/ stopping' = "no"
      BY <1>7 DEF UseCache, Control, OneInside, Held, ClosersOwn
    <2>5. ClosersOwn'
      BY <1>7, <2>1, <2>4 DEF UseCache, Idle, Held, BootFacts, ClosersOwn
    <2>6. QED
      BY <2>1, <2>2, <2>3, <2>5
  <1>8. ASSUME NEW t \in Threads, Start(t) PROVE Control' /\ P /\ H
    <2>1. PICK l \in {"write", "spawn"} :
            /\ Control' /\ pc'[t] = l
            /\ \A u \in Threads : u # t => pc[u] = "out" /\ pc'[u] = "out"
            /\ l \in {"first", "spawn"} => proc # "live"
      <3>1. \E l \in {"write", "spawn"} : Goto(t, l) /\ (l \in {"first", "spawn"} => proc # "live")
        BY <1>8 DEF Start
      <3>2. UNCHANGED calls /\ pc[t] \notin {"out", "held"}
        BY <1>8 DEF Start, calls
      <3>3. QED
        BY <3>1, <3>2, Moves DEF PCs
    <2>2. P
      BY <1>8, <2>1 DEF Start, Pipes, PipesOwn, QuietBetweenCalls, Mine, calls
    <2>3. BootFacts' /\ ShortBudgetOnlyIfBooted' /\ NoOrphanBackend'
      BY <1>8, <2>1 DEF Start, FlagsOK, Held, BootFacts, ClosersOwn,
         ShortBudgetOnlyIfBooted, NoOrphanBackend
    <2>4. raced' \/ stopping' = "no"
      BY <1>8 DEF Start, Control, OneInside, Held, ClosersOwn
    <2>5. ClosersOwn'
      BY <1>8, <2>1, <2>4 DEF Start, Held, BootFacts, ClosersOwn
    <2>6. QED
      BY <2>1, <2>2, <2>3, <2>5
  <1>9. ASSUME NEW t \in Threads, BuildFails(t) PROVE Control' /\ P /\ H
    <2>1. Control' /\ Idle' /\ \A u \in Threads : u # t => pc[u] = "out"
      <3>1. PICK how \in {"raised"} : ReturnFor(t, how, Mine(t))
        BY <1>9 DEF BuildFails, Return
      <3>2. pc[t] \notin {"out", "held"}
        BY <1>9 DEF BuildFails
      <3>3. QED
        BY <3>1, <3>2, Returns DEF Hows
    <2>2. P
      BY <1>9, <2>1 DEF BuildFails, Idle, Pipes, PipesOwn, QuietBetweenCalls, Mine,
         calls
    <2>3. BootFacts' /\ ShortBudgetOnlyIfBooted' /\ NoOrphanBackend'
      BY <1>9, <2>1 DEF BuildFails, Idle, FlagsOK, Held, BootFacts, ClosersOwn,
         ShortBudgetOnlyIfBooted, NoOrphanBackend
    <2>4. raced' \/ stopping' = "no"
      BY <1>9 DEF BuildFails, Control, OneInside, Held, ClosersOwn
    <2>5. ClosersOwn'
      BY <1>9, <2>1, <2>4 DEF BuildFails, Idle, Held, BootFacts, ClosersOwn
    <2>6. QED
      BY <2>1, <2>2, <2>3, <2>5
  <1>10. ASSUME NEW t \in Threads, Spawn(t) PROVE Control' /\ P /\ H
    <2>1. PICK l \in {"start", "write"} :
            /\ Control' /\ pc'[t] = l
            /\ \A u \in Threads : u # t => pc[u] = "out" /\ pc'[u] = "out"
      <3>1. \E l \in {"start", "write"} : Goto(t, l)
        BY <1>10 DEF Spawn
      <3>2. UNCHANGED calls /\ pc[t] \notin {"out", "held"}
        BY <1>10 DEF Spawn, calls
      <3>3. QED
        BY <3>1, <3>2, Moves DEF PCs
    <2>2. P
      BY <1>10, <2>1 DEF Spawn, Replace, Pipes, PipesOwn, QuietBetweenCalls, Mine, calls
    <2>3. BootFacts' /\ ShortBudgetOnlyIfBooted' /\ NoOrphanBackend'
      BY <1>10, <2>1 DEF Spawn, Replace, FlagsOK, Held, BootFacts, ClosersOwn,
         ShortBudgetOnlyIfBooted, NoOrphanBackend
    <2>4. raced' \/ stopping' = "no"
      BY <1>10 DEF Spawn, Control, OneInside, Held, ClosersOwn
    <2>5. ClosersOwn'
      BY <1>10, <2>1, <2>4 DEF Spawn, Replace, Held, BootFacts, ClosersOwn
    <2>6. QED
      BY <2>1, <2>2, <2>3, <2>5
  <1>11. ASSUME NEW t \in Threads, Write(t) PROVE Control' /\ P /\ H
    <2>1. Control' /\ pc'[t] = "wait" /\ \A u \in Threads : u # t => pc[u] = "out" /\ pc'[u] = "out"
      <3>1. Goto(t, "wait") /\ UNCHANGED calls /\ pc[t] \notin {"out", "held"}
        BY <1>11 DEF Write, calls
      <3>2. QED
        BY <3>1, Moves DEF PCs
    <2>2. P
      <3>1. inp = <<>> /\ out = <<>>
        BY <1>11, <2>1 DEF Write, Pipes, QuietBetweenCalls
      <3>2. inp' = <<Mine(t)>> /\ out' = <<>>
        BY <1>11, <3>1 DEF Write
      <3>3. Mine(t)' = Mine(t)
        BY <1>11 DEF Write, Mine, calls
      <3>4. PipesOwn'
        BY <2>1, <3>2, <3>3 DEF PipesOwn
      <3>5. QuietBetweenCalls'
        BY <2>1 DEF QuietBetweenCalls
      <3>6. QED
        BY <3>4, <3>5
    <2>3. ShortBudgetOnlyIfBooted'
      BY <1>11, <2>1 DEF Write, DataOK, FlagsOK, Held, BootFacts, ShortBudgetOnlyIfBooted
    <2>4. BootFacts' /\ NoOrphanBackend'
      BY <1>11, <2>1 DEF Write, Held, BootFacts, NoOrphanBackend
    <2>5. ClosersOwn'
      BY <1>11, <2>1 DEF Write, Held, ClosersOwn, Open, calls
    <2>6. QED
      BY <2>1, <2>2, <2>3, <2>4, <2>5
  <1>12. ASSUME NEW t \in Threads, WriteBroken(t) PROVE Control' /\ P /\ H
    <2>1. Control' /\ pc'[t] = "close" /\ \A u \in Threads : u # t => pc[u] = "out" /\ pc'[u] = "out"
      <3>1. Goto(t, "close") /\ UNCHANGED calls /\ pc[t] \notin {"out", "held"}
        BY <1>12 DEF WriteBroken, calls
      <3>2. QED
        BY <3>1, Moves DEF PCs
    <2>2. P
      BY <1>12, <2>1 DEF WriteBroken, Pipes, PipesOwn, QuietBetweenCalls, Mine, calls
    <2>3. BootFacts' /\ ShortBudgetOnlyIfBooted' /\ NoOrphanBackend'
      BY <1>12, <2>1 DEF WriteBroken, FlagsOK, Held, BootFacts, ClosersOwn,
         ShortBudgetOnlyIfBooted, NoOrphanBackend
    <2>4. raced' \/ stopping' = "no"
      BY <1>12 DEF WriteBroken, Control, OneInside, Held, ClosersOwn
    <2>5. ClosersOwn'
      BY <1>12, <2>1, <2>4 DEF WriteBroken, Held, BootFacts, ClosersOwn
    <2>6. QED
      BY <2>1, <2>2, <2>3, <2>5
  <1>13. ASSUME NEW t \in Threads, WriteRaises(t) PROVE Control' /\ P /\ H
    <2>1. Control' /\ Idle' /\ \A u \in Threads : u # t => pc[u] = "out"
      <3>1. PICK how \in {"raised"} : ReturnFor(t, how, Mine(t))
        BY <1>13 DEF WriteRaises, Return
      <3>2. pc[t] \notin {"out", "held"}
        BY <1>13 DEF WriteRaises
      <3>3. QED
        BY <3>1, <3>2, Returns DEF Hows
    <2>2. P
      BY <1>13, <2>1 DEF WriteRaises, Idle, Pipes, PipesOwn, QuietBetweenCalls, Mine,
         calls
    <2>3. BootFacts' /\ ShortBudgetOnlyIfBooted' /\ NoOrphanBackend'
      BY <1>13, <2>1 DEF WriteRaises, Idle, FlagsOK, Held, BootFacts, ClosersOwn,
         ShortBudgetOnlyIfBooted, NoOrphanBackend
    <2>4. raced' \/ stopping' = "no"
      BY <1>13 DEF WriteRaises, Control, OneInside, Held, ClosersOwn
    <2>5. ClosersOwn'
      BY <1>13, <2>1, <2>4 DEF WriteRaises, Idle, Held, BootFacts, ClosersOwn
    <2>6. QED
      BY <2>1, <2>2, <2>3, <2>5
  <1>14. ASSUME NEW t \in Threads, ReadLine(t) PROVE Control' /\ P /\ H
    <2>0. /\ pc[t] = "wait" /\ proc # "none" /\ shut # "all" /\ out # <<>>
          /\ out' = Tail(out) /\ inp' = inp /\ warm' = TRUE
      BY <1>14 DEF ReadLine
    <2>1. Control' /\ Idle' /\ \A u \in Threads : u # t => pc[u] = "out"
      <3>1. Head(out).for = Mine(t)
        BY <2>0 DEF DataOK, Pipes, PipesOwn
      <3>2. PICK how \in {"answer", "fallback"} : ReturnFor(t, how, Mine(t))
        BY <1>14, <3>1 DEF ReadLine
      <3>3. QED
        BY <2>0, <3>2, Returns DEF Hows
    <2>2. inp' = <<>> /\ out' = <<>>
      BY <2>0 DEF DataOK, Pipes, PipesOwn
    <2>3. P
      BY <2>1, <2>2 DEF PipesOwn, QuietBetweenCalls, Idle
    <2>4. BootFacts' /\ ShortBudgetOnlyIfBooted' /\ NoOrphanBackend'
      BY <1>14, <2>0, <2>1 DEF ReadLine, Idle, Held, BootFacts, ShortBudgetOnlyIfBooted,
         NoOrphanBackend
    <2>5. ClosersOwn'
      <3>1. Open(t)
        BY <2>0 DEF Control, OneInside
      <3>2. UNCHANGED <<stopping, raced>>
        BY <1>14 DEF ReadLine
      <3>3. QED
        BY <2>1, <3>1, <3>2 DEF Held, ClosersOwn, Idle
    <2>6. QED
      BY <2>1, <2>3, <2>4, <2>5
  <1>15. ASSUME NEW t \in Threads, ReadBroken(t) PROVE Control' /\ P /\ H
    <2>0. /\ pc[t] = "wait" /\ proc # "none" /\ shut # "all" /\ out # <<>>
          /\ out' = Tail(out) /\ inp' = inp /\ warm' = TRUE
      BY <1>15 DEF ReadBroken
    <2>1. inp' = <<>> /\ out' = <<>>
      BY <2>0 DEF DataOK, Pipes, PipesOwn
    <2>2. Control' /\ \A u \in Threads : pc'[u] \in {"out", "held", "oneshot", "close"}
      <3>1. CASE kind[t] = "translate"
        <4>1. Goto(t, "close") /\ UNCHANGED calls
          BY <1>15, <3>1 DEF ReadBroken
        <4>2. QED
          BY <2>0, <4>1, Moves DEF PCs
      <3>2. CASE kind[t] # "translate"
        <4>1. ReturnFor(t, "fallback", Mine(t)) /\ "fallback" \in Hows
          BY <1>15, <3>2 DEF ReadBroken, Return, Hows
        <4>2. Control' /\ Idle'
          BY <2>0, <4>1, Returns
        <4>3. QED
          BY <4>2 DEF Idle, Control, OneInside
      <3>3. QED
        BY <3>1, <3>2
    <2>3. P
      BY <2>1, <2>2 DEF PipesOwn, QuietBetweenCalls
    <2>4. BootFacts' /\ ShortBudgetOnlyIfBooted' /\ NoOrphanBackend'
      BY <1>15, <2>0, <2>2 DEF ReadBroken, Held, BootFacts, ShortBudgetOnlyIfBooted,
         NoOrphanBackend
    <2>5. ClosersOwn'
      <3>1. Open(t)
        BY <2>0 DEF Control, OneInside
      <3>2. UNCHANGED <<stopping, raced>>
        BY <1>15 DEF ReadBroken
      <3>3. QED
        BY <2>2, <3>1, <3>2 DEF Held, ClosersOwn
    <2>6. QED
      BY <2>2, <2>3, <2>4, <2>5
  <1>16. ASSUME NEW t \in Threads, NoAnswer(t) PROVE Control' /\ P /\ H
    <2>1. Control' /\ pc'[t] = "close" /\ \A u \in Threads : u # t => pc[u] = "out" /\ pc'[u] = "out"
      <3>1. Goto(t, "close") /\ UNCHANGED calls /\ pc[t] \notin {"out", "held"}
        BY <1>16 DEF NoAnswer, calls
      <3>2. QED
        BY <3>1, Moves DEF PCs
    <2>2. P
      BY <1>16, <2>1 DEF NoAnswer, Pipes, PipesOwn, QuietBetweenCalls, Mine, calls
    <2>3. BootFacts' /\ ShortBudgetOnlyIfBooted' /\ NoOrphanBackend'
      BY <1>16, <2>1 DEF NoAnswer, FlagsOK, Held, BootFacts, ClosersOwn,
         ShortBudgetOnlyIfBooted, NoOrphanBackend
    <2>4. raced' \/ stopping' = "no"
      BY <1>16 DEF NoAnswer, Control, OneInside, Held, ClosersOwn
    <2>5. ClosersOwn'
      BY <1>16, <2>1, <2>4 DEF NoAnswer, Held, BootFacts, ClosersOwn
    <2>6. QED
      BY <2>1, <2>2, <2>3, <2>5
  <1>17. ASSUME NEW t \in Threads, WaitRaises(t) PROVE Control' /\ P /\ H
    <2>1. Control' /\ Idle' /\ \A u \in Threads : u # t => pc[u] = "out"
      <3>1. PICK how \in {"raised"} : ReturnFor(t, how, Mine(t))
        BY <1>17 DEF WaitRaises, Return
      <3>2. pc[t] \notin {"out", "held"}
        BY <1>17 DEF WaitRaises
      <3>3. QED
        BY <3>1, <3>2, Returns DEF Hows
    <2>2. P
      BY <1>17, <2>1 DEF WaitRaises, Idle, Pipes, PipesOwn, QuietBetweenCalls, Mine,
         calls
    <2>3. BootFacts' /\ ShortBudgetOnlyIfBooted' /\ NoOrphanBackend'
      BY <1>17, <2>1 DEF WaitRaises, Idle, FlagsOK, Held, BootFacts, ClosersOwn,
         ShortBudgetOnlyIfBooted, NoOrphanBackend
    <2>4. raced' \/ stopping' = "no"
      BY <1>17 DEF WaitRaises, Control, OneInside, Held, ClosersOwn
    <2>5. ClosersOwn'
      BY <1>17, <2>1, <2>4 DEF WaitRaises, Idle, Held, BootFacts, ClosersOwn
    <2>6. QED
      BY <2>1, <2>2, <2>3, <2>5
  <1>18. ASSUME NEW t \in Threads, CloseNothing(t) PROVE Control' /\ P /\ H
    <2>1. Control' /\ Idle'
      BY <1>18, AfterCloses DEF CloseNothing
    <2>2. P
      BY <1>18, <2>1 DEF CloseNothing, Idle, Pipes, PipesOwn, QuietBetweenCalls, Mine,
         calls
    <2>3. BootFacts' /\ ShortBudgetOnlyIfBooted' /\ NoOrphanBackend'
      BY <1>18, <2>1 DEF CloseNothing, Idle, FlagsOK, Held, BootFacts, ClosersOwn,
         ShortBudgetOnlyIfBooted, NoOrphanBackend
    <2>4. raced' \/ stopping' = "no"
      BY <1>18 DEF CloseNothing, Control, OneInside, Held, ClosersOwn
    <2>5. ClosersOwn'
      BY <1>18, <2>1, <2>4 DEF CloseNothing, Idle, Held, BootFacts, ClosersOwn
    <2>6. QED
      BY <2>1, <2>2, <2>3, <2>5
  <1>19. ASSUME NEW t \in Threads, CloseBegin(t) PROVE Control' /\ P /\ H
    <2>1. Control' /\ pc'[t] = "reap" /\ \A u \in Threads : u # t => pc[u] = "out" /\ pc'[u] = "out"
      <3>1. Goto(t, "reap") /\ UNCHANGED calls /\ pc[t] \notin {"out", "held"}
        BY <1>19 DEF CloseBegin, calls
      <3>2. QED
        BY <3>1, Moves DEF PCs
    <2>2. P
      BY <1>19, <2>1 DEF CloseBegin, EndInput, Pipes, PipesOwn, QuietBetweenCalls, Mine,
         calls
    <2>3. BootFacts' /\ ShortBudgetOnlyIfBooted' /\ NoOrphanBackend'
      BY <1>19, <2>1 DEF CloseBegin, EndInput, FlagsOK, Held, BootFacts, ClosersOwn,
         ShortBudgetOnlyIfBooted, NoOrphanBackend
    <2>4. raced' \/ stopping' = "no"
      BY <1>19 DEF CloseBegin, Control, OneInside, Held, ClosersOwn
    <2>5. ClosersOwn'
      BY <1>19, <2>1, <2>4 DEF CloseBegin, EndInput, Held, BootFacts, ClosersOwn
    <2>6. QED
      BY <2>1, <2>2, <2>3, <2>5
  <1>20. ASSUME NEW t \in Threads, CloseReap(t) PROVE Control' /\ P /\ H
    <2>1. Control' /\ pc'[t] = "drop" /\ \A u \in Threads : u # t => pc[u] = "out" /\ pc'[u] = "out"
      <3>1. Goto(t, "drop") /\ UNCHANGED calls /\ pc[t] \notin {"out", "held"}
        BY <1>20 DEF CloseReap, calls
      <3>2. QED
        BY <3>1, Moves DEF PCs
    <2>2. P
      BY <1>20, <2>1 DEF CloseReap, Reap, Pipes, PipesOwn, QuietBetweenCalls, Mine, calls
    <2>3. BootFacts' /\ ShortBudgetOnlyIfBooted' /\ NoOrphanBackend'
      BY <1>20, <2>1 DEF CloseReap, Reap, FlagsOK, Held, BootFacts, ClosersOwn,
         ShortBudgetOnlyIfBooted, NoOrphanBackend
    <2>4. raced' \/ stopping' = "no"
      BY <1>20 DEF CloseReap, Control, OneInside, Held, ClosersOwn
    <2>5. ClosersOwn'
      BY <1>20, <2>1, <2>4 DEF CloseReap, Reap, Held, BootFacts, ClosersOwn
    <2>6. QED
      BY <2>1, <2>2, <2>3, <2>5
  <1>21. ASSUME NEW t \in Threads, CloseRaises(t) PROVE Control' /\ P /\ H
    <2>1. Control' /\ Idle' /\ \A u \in Threads : u # t => pc[u] = "out"
      <3>1. PICK how \in {"raised"} : ReturnFor(t, how, Mine(t))
        BY <1>21 DEF CloseRaises, Return
      <3>2. pc[t] \notin {"out", "held"}
        BY <1>21 DEF CloseRaises
      <3>3. QED
        BY <3>1, <3>2, Returns DEF Hows
    <2>2. P
      BY <1>21, <2>1 DEF CloseRaises, Idle, Pipes, PipesOwn, QuietBetweenCalls, Mine,
         calls
    <2>3. BootFacts' /\ ShortBudgetOnlyIfBooted' /\ NoOrphanBackend'
      BY <1>21, <2>1 DEF CloseRaises, Idle, FlagsOK, Held, BootFacts, ClosersOwn,
         ShortBudgetOnlyIfBooted, NoOrphanBackend
    <2>4. raced' \/ stopping' = "no"
      BY <1>21 DEF CloseRaises, Control, OneInside, Held, ClosersOwn
    <2>5. ClosersOwn'
      BY <1>21, <2>1, <2>4 DEF CloseRaises, Idle, Held, BootFacts, ClosersOwn
    <2>6. QED
      BY <2>1, <2>2, <2>3, <2>5
  <1>22. ASSUME NEW t \in Threads, CloseFails(t) PROVE Control' /\ P /\ H
    <2>1. Control' /\ Idle' /\ \A u \in Threads : u # t => pc[u] = "out"
      <3>1. PICK how \in {"raised"} : ReturnFor(t, how, Mine(t))
        BY <1>22 DEF CloseFails, Return
      <3>2. pc[t] \notin {"out", "held"}
        BY <1>22 DEF CloseFails
      <3>3. QED
        BY <3>1, <3>2, Returns DEF Hows
    <2>2. P
      BY <1>22, <2>1 DEF CloseFails, Linger, Idle, Pipes, PipesOwn, QuietBetweenCalls,
         Mine, calls
    <2>3. BootFacts' /\ ShortBudgetOnlyIfBooted' /\ NoOrphanBackend'
      BY <1>22, <2>1 DEF CloseFails, Linger, Idle, FlagsOK, Held, BootFacts, ClosersOwn,
         ShortBudgetOnlyIfBooted, NoOrphanBackend
    <2>4. raced' \/ stopping' = "no"
      BY <1>22 DEF CloseFails, Control, OneInside, Held, ClosersOwn
    <2>5. ClosersOwn'
      BY <1>22, <2>1, <2>4 DEF CloseFails, Linger, Idle, Held, BootFacts, ClosersOwn
    <2>6. QED
      BY <2>1, <2>2, <2>3, <2>5
  <1>23. ASSUME NEW t \in Threads, CloseEnd(t) PROVE Control' /\ P /\ H
    <2>1. Control' /\ Idle'
      BY <1>23, AfterCloses DEF CloseEnd
    <2>2. P
      BY <1>23, <2>1 DEF CloseEnd, Drop, Replace, Idle, Pipes, PipesOwn,
         QuietBetweenCalls, Mine, calls
    <2>3. BootFacts' /\ ShortBudgetOnlyIfBooted' /\ NoOrphanBackend'
      BY <1>23, <2>1 DEF CloseEnd, Drop, Replace, Idle, FlagsOK, Held, BootFacts,
         ClosersOwn, ShortBudgetOnlyIfBooted, NoOrphanBackend
    <2>4. raced' \/ stopping' = "no"
      BY <1>23 DEF CloseEnd, Control, OneInside, Held, ClosersOwn
    <2>5. ClosersOwn'
      BY <1>23, <2>1, <2>4 DEF CloseEnd, Drop, Replace, Idle, Held, BootFacts, ClosersOwn
    <2>6. QED
      BY <2>1, <2>2, <2>3, <2>5
  <1>24. ASSUME NEW t \in Threads, OneShot(t) PROVE Control' /\ P /\ H
    <2>1. Control' /\ Idle' /\ \A u \in Threads : u # t => pc[u] = "out"
      <3>1. PICK how \in {"oneshot", "failed"} : ReturnFor(t, how, Mine(t))
        BY <1>24 DEF OneShot, Return
      <3>2. pc[t] \notin {"out", "held"}
        BY <1>24 DEF OneShot
      <3>3. QED
        BY <3>1, <3>2, Returns DEF Hows
    <2>2. P
      BY <1>24, <2>1 DEF OneShot, Idle, Pipes, PipesOwn, QuietBetweenCalls, Mine, calls
    <2>3. BootFacts' /\ ShortBudgetOnlyIfBooted' /\ NoOrphanBackend'
      BY <1>24, <2>1 DEF OneShot, Idle, FlagsOK, Held, BootFacts, ClosersOwn,
         ShortBudgetOnlyIfBooted, NoOrphanBackend
    <2>4. raced' \/ stopping' = "no"
      BY <1>24 DEF OneShot, Control, OneInside, Held, ClosersOwn
    <2>5. ClosersOwn'
      BY <1>24, <2>1, <2>4 DEF OneShot, Idle, Held, BootFacts, ClosersOwn
    <2>6. QED
      BY <2>1, <2>2, <2>3, <2>5
  <1>25. ASSUME StopBegin PROVE Control' /\ P /\ H
    <2>1. Control'
      BY <1>25 DEF StopBegin, client, calls, Control, OneInside, OneShotOnlyTranslates,
         ReplyIsOwn, Open, Mine
    <2>2. P
      BY <1>25 DEF StopBegin, EndInput, client, calls, Control, OneInside, DataOK, Lines,
         Pipes, PipesOwn, QuietBetweenCalls, Mine
    <2>3. BootFacts' /\ ShortBudgetOnlyIfBooted' /\ NoOrphanBackend'
      BY <1>25 DEF StopBegin, EndInput, client, calls, FlagsOK, Held, BootFacts,
         ClosersOwn, ShortBudgetOnlyIfBooted, NoOrphanBackend, Open
    <2>4. ClosersOwn'
      BY <1>25, SessionAssumption DEF StopBegin, EndInput, client, calls, FlagsOK, Held,
         ClosersOwn, Open
    <2>5. QED
      BY <2>1, <2>2, <2>3, <2>4
  <1>26. ASSUME StopReap PROVE Control' /\ P /\ H
    <2>1. Control'
      BY <1>26 DEF StopReap, client, calls, Control, OneInside, OneShotOnlyTranslates,
         ReplyIsOwn, Open, Mine
    <2>2. P
      BY <1>26 DEF StopReap, Reap, client, calls, Control, OneInside, DataOK, Lines,
         Pipes, PipesOwn, QuietBetweenCalls, Mine
    <2>3. BootFacts' /\ ShortBudgetOnlyIfBooted' /\ NoOrphanBackend'
      BY <1>26 DEF StopReap, Reap, client, calls, FlagsOK, Held, BootFacts, ClosersOwn,
         ShortBudgetOnlyIfBooted, NoOrphanBackend, Open
    <2>4. ClosersOwn'
      BY <1>26, SessionAssumption DEF StopReap, Reap, client, calls, FlagsOK, Held,
         ClosersOwn, Open
    <2>5. QED
      BY <2>1, <2>2, <2>3, <2>4
  <1>27. ASSUME StopRaises PROVE Control' /\ P /\ H
    <2>1. Control'
      BY <1>27 DEF StopRaises, client, calls, Control, OneInside, OneShotOnlyTranslates,
         ReplyIsOwn, Open, Mine
    <2>2. P
      BY <1>27 DEF StopRaises, client, calls, Control, OneInside, DataOK, Lines, Pipes,
         PipesOwn, QuietBetweenCalls, Mine
    <2>3. BootFacts' /\ ShortBudgetOnlyIfBooted' /\ NoOrphanBackend'
      BY <1>27 DEF StopRaises, client, calls, FlagsOK, Held, BootFacts, ClosersOwn,
         ShortBudgetOnlyIfBooted, NoOrphanBackend, Open
    <2>4. ClosersOwn'
      BY <1>27, SessionAssumption DEF StopRaises, client, calls, FlagsOK, Held,
         ClosersOwn, Open
    <2>5. QED
      BY <2>1, <2>2, <2>3, <2>4
  <1>28. ASSUME StopFails PROVE Control' /\ P /\ H
    <2>1. Control'
      BY <1>28 DEF StopFails, client, calls, Control, OneInside, OneShotOnlyTranslates,
         ReplyIsOwn, Open, Mine
    <2>2. P
      BY <1>28 DEF StopFails, Linger, client, calls, Control, OneInside, DataOK, Lines,
         Pipes, PipesOwn, QuietBetweenCalls, Mine
    <2>3. BootFacts' /\ ShortBudgetOnlyIfBooted' /\ NoOrphanBackend'
      BY <1>28 DEF StopFails, Linger, client, calls, FlagsOK, Held, BootFacts,
         ClosersOwn, ShortBudgetOnlyIfBooted, NoOrphanBackend, Open
    <2>4. ClosersOwn'
      BY <1>28, SessionAssumption DEF StopFails, Linger, client, calls, FlagsOK, Held,
         ClosersOwn, Open
    <2>5. QED
      BY <2>1, <2>2, <2>3, <2>4
  <1>29. ASSUME StopEnd PROVE Control' /\ P /\ H
    <2>1. Control'
      BY <1>29 DEF StopEnd, client, calls, Control, OneInside, OneShotOnlyTranslates,
         ReplyIsOwn, Open, Mine
    <2>2. P
      BY <1>29 DEF StopEnd, Drop, Replace, client, calls, Control, OneInside, DataOK,
         Lines, Pipes, PipesOwn, QuietBetweenCalls, Mine
    <2>3. BootFacts' /\ ShortBudgetOnlyIfBooted' /\ NoOrphanBackend'
      BY <1>29 DEF StopEnd, Drop, Replace, client, calls, FlagsOK, Held, BootFacts,
         ClosersOwn, ShortBudgetOnlyIfBooted, NoOrphanBackend, Open
    <2>4. ClosersOwn'
      BY <1>29, SessionAssumption DEF StopEnd, Drop, Replace, client, calls, FlagsOK,
         Held, ClosersOwn, Open
    <2>5. QED
      BY <2>1, <2>2, <2>3, <2>4
  <1>30. ASSUME Boot PROVE Control' /\ P /\ H
    <2>1. Control'
      BY <1>30 DEF Boot, client, calls, Control, OneInside, OneShotOnlyTranslates,
         ReplyIsOwn, Open, Mine
    <2>2. P
      BY <1>30 DEF Boot, client, calls, Control, OneInside, DataOK, Lines, Pipes,
         PipesOwn, QuietBetweenCalls, Mine
    <2>3. BootFacts' /\ ShortBudgetOnlyIfBooted' /\ NoOrphanBackend'
      BY <1>30 DEF Boot, client, calls, FlagsOK, Held, BootFacts, ClosersOwn,
         ShortBudgetOnlyIfBooted, NoOrphanBackend, Open
    <2>4. ClosersOwn'
      BY <1>30, SessionAssumption DEF Boot, client, calls, FlagsOK, Held, ClosersOwn,
         Open
    <2>5. QED
      BY <2>1, <2>2, <2>3, <2>4
  <1>31. ASSUME Serve PROVE Control' /\ P /\ H
    <2>1. Control'
      BY <1>31 DEF Serve, client, calls, Control, OneInside, OneShotOnlyTranslates,
         ReplyIsOwn, Open, Mine
    <2>2. P
      BY <1>31 DEF Serve, client, calls, Control, OneInside, DataOK, Lines, Pipes,
         PipesOwn, QuietBetweenCalls, Mine
    <2>3. BootFacts' /\ ShortBudgetOnlyIfBooted' /\ NoOrphanBackend'
      BY <1>31 DEF Serve, client, calls, FlagsOK, Held, BootFacts, ClosersOwn,
         ShortBudgetOnlyIfBooted, NoOrphanBackend, Open
    <2>4. ClosersOwn'
      BY <1>31, SessionAssumption DEF Serve, client, calls, FlagsOK, Held, ClosersOwn,
         Open
    <2>5. QED
      BY <2>1, <2>2, <2>3, <2>4
  <1>32. ASSUME Crash PROVE Control' /\ P /\ H
    <2>1. Control'
      BY <1>32 DEF Crash, client, calls, Control, OneInside, OneShotOnlyTranslates,
         ReplyIsOwn, Open, Mine
    <2>2. P
      BY <1>32 DEF Crash, client, calls, Control, OneInside, DataOK, Lines, Pipes,
         PipesOwn, QuietBetweenCalls, Mine
    <2>3. BootFacts' /\ ShortBudgetOnlyIfBooted' /\ NoOrphanBackend'
      BY <1>32 DEF Crash, client, calls, FlagsOK, Held, BootFacts, ClosersOwn,
         ShortBudgetOnlyIfBooted, NoOrphanBackend, Open
    <2>4. ClosersOwn'
      BY <1>32, SessionAssumption DEF Crash, client, calls, FlagsOK, Held, ClosersOwn,
         Open
    <2>5. QED
      BY <2>1, <2>2, <2>3, <2>4
  <1>33. ASSUME CrashMidLine PROVE Control' /\ P /\ H
    <2>1. Control'
      BY <1>33 DEF CrashMidLine, client, calls, Control, OneInside,
         OneShotOnlyTranslates, ReplyIsOwn, Open, Mine
    <2>2. P
      BY <1>33 DEF CrashMidLine, client, calls, Control, OneInside, DataOK, Lines, Pipes,
         PipesOwn, QuietBetweenCalls, Mine
    <2>3. BootFacts' /\ ShortBudgetOnlyIfBooted' /\ NoOrphanBackend'
      BY <1>33 DEF CrashMidLine, client, calls, FlagsOK, Held, BootFacts, ClosersOwn,
         ShortBudgetOnlyIfBooted, NoOrphanBackend, Open
    <2>4. ClosersOwn'
      BY <1>33, SessionAssumption DEF CrashMidLine, client, calls, FlagsOK, Held,
         ClosersOwn, Open
    <2>5. QED
      BY <2>1, <2>2, <2>3, <2>4
  <1>34. ASSUME UNCHANGED vars PROVE Control' /\ P /\ H
    BY <1>34 DEF vars, calls, Control, OneInside, OneShotOnlyTranslates, ReplyIsOwn, Mine,
       Pipes, PipesOwn, QuietBetweenCalls, Held, BootFacts, ClosersOwn,
       ShortBudgetOnlyIfBooted, NoOrphanBackend, Open
  <1>35. Control' /\ P /\ H
    BY <1>1, <1>2, <1>4, <1>5, <1>6, <1>7, <1>8, <1>9, <1>10, <1>11, <1>12, <1>13,
       <1>14, <1>15, <1>16, <1>17, <1>18, <1>19, <1>20, <1>21, <1>22, <1>23, <1>24,
       <1>25, <1>26, <1>27, <1>28, <1>29, <1>30, <1>31, <1>32, <1>33, <1>34 DEF Next,
       Timed, Untimed, Stop
  <1>36. QED
    BY <1>a, <1>35 DEF Control, IInv

\* Every reachable state satisfies the inductive invariant.
THEOREM Inductive == ASSUME SharedLock, ~Alongside PROVE Spec => []IInv
  <1>1. Init => IInv
    BY InitInv
  <1>2. IInv /\ [Next]_vars => IInv'
    BY NextInv, SharedLock, ~Alongside
  <1>3. QED
    BY <1>1, <1>2, PTL DEF Spec

\* Under one shared lock, with the sessions started first, a caller never gets the
\* answer to somebody else's task, nor to an earlier one of its own, whatever
\* crashes, times out or is closed under it: LeanClient's ReplyIsOwn.
THEOREM RepliesAreOwn == ASSUME SharedLock, ~Alongside PROVE Spec => []ReplyIsOwn
  <1>1. IInv => ReplyIsOwn
    BY DEF IInv
  <1>2. QED
    BY <1>1, Inductive, SharedLock, ~Alongside, PTL

\* A booting child always gets the startup budget: ShortBudgetOnlyIfBooted.
THEOREM BudgetsAreSafe == ASSUME SharedLock, ~Alongside PROVE Spec => []ShortBudgetOnlyIfBooted
  <1>1. IInv => ShortBudgetOnlyIfBooted
    BY DEF IInv
  <1>2. QED
    BY <1>1, Inductive, SharedLock, ~Alongside, PTL

\* Until a Session.close runs beside a call, no running backend is let go of,
\* neither by a start nor at the end of a close(): NoOrphanBackend.
THEOREM NoOrphans == ASSUME SharedLock, ~Alongside PROVE Spec => []NoOrphanBackend
  <1>1. IInv => NoOrphanBackend
    BY DEF IInv
  <1>2. QED
    BY <1>1, Inductive, SharedLock, ~Alongside, PTL

\* Nothing is left in the pipes for the next caller: QuietBetweenCalls.
THEOREM PipesAreQuiet == ASSUME SharedLock, ~Alongside PROVE Spec => []QuietBetweenCalls
  <1>1. IInv => QuietBetweenCalls
    BY DEF IInv
  <1>2. QED
    BY <1>1, Inductive, SharedLock, ~Alongside, PTL

\* One step of the client is one step of AnswerOnce, or none of its business.
LEMMA StepRefines == ASSUME SharedLock, ~Alongside PROVE IInv /\ [Next]_vars => [ANext]_avars
  <1> SUFFICES ASSUME IInv, [Next]_vars PROVE [ANext]_avars
    OBVIOUS
  <1> USE DEF calls, avars
  <1>1. ASSUME NEW t \in Threads, NEW how \in Hows, ReturnFor(t, how, Mine(t)), Open(t),
               \/ how \in {"answer"} \cup Substitutes(kind[t])
               \/ how = "cached" /\ kind[t] = "libraryInfo"
        PROVE  ANext
    BY <1>1 DEF ReturnFor, Mine, ANext, End
  <1>2. ASSUME NEW t \in Threads, NEW k \in Kinds, Call(t, k) \/ (StartSession(t) /\ k = "libraryInfo")
        PROVE  ANext
    <2>1. \A u \in Threads : ~Open(u)
      BY <1>2 DEF Call, StartSession, NobodyInside, IInv, OneInside
    <2>2. PICK l \in {"boot", "start"} : Enter(t, k, l)
      BY <1>2 DEF Call, StartSession
    <2>3. QED
      BY <2>1, <2>2 DEF Enter, ANext, Begin
  <1>3. ASSUME NEW t \in Threads, pc[t] \notin {"out", "held"}
        PROVE  Open(t) /\ kind[t] \in Kinds
    BY <1>3 DEF IInv, OneInside, Open, TypeOK, DataOK
  <1>4. ASSUME NEW t \in Threads, UseCache(t) PROVE ANext
    BY <1>1, <1>3, <1>4 DEF UseCache, FromCache, Return, Hows
  <1>5. ASSUME NEW t \in Threads,
               \/ BuildFails(t) \/ WriteRaises(t) \/ WaitRaises(t)
               \/ CloseRaises(t) \/ CloseFails(t)
        PROVE  ANext
    <2>1. "raised" \in Hows /\ "raised" \in Substitutes(kind[t])
      BY DEF Hows, Substitutes
    <2>2. Open(t) /\ Return(t, "raised")
      BY <1>3, <1>5 DEF BuildFails, WriteRaises, WaitRaises, CloseRaises, CloseFails
    <2>3. QED
      BY <1>1, <2>1, <2>2 DEF Return
  <1>6. ASSUME NEW t \in Threads, ReadLine(t) PROVE ANext
    <2>1. DataOK /\ out # <<>> /\ pc[t] = "wait" /\ proc # "none" /\ shut # "all"
      BY <1>6 DEF ReadLine, IInv, TypeOK
    <2>2. Head(out).for = Mine(t)
      BY <2>1 DEF DataOK, IInv, PipesOwn
    <2>3. Open(t) /\ kind[t] \in Kinds
      BY <1>3, <2>1
    <2> DEFINE how == IF Usable(kind[t], Head(out)) THEN "answer" ELSE "fallback"
    <2>4. how \in Hows /\ how \in {"answer"} \cup Substitutes(kind[t])
      BY DEF Hows, Substitutes, Usable
    <2>5. ReturnFor(t, how, Mine(t))
      BY <1>6, <2>2 DEF ReadLine
    <2> HIDE DEF how
    <2>6. QED
      BY <1>1, <2>3, <2>4, <2>5
  <1>7. ASSUME NEW t \in Threads, ReadBroken(t) \/ CloseNothing(t) \/ CloseEnd(t)
        PROVE  [ANext]_avars
    <2>1. CASE kind[t] = "translate"
      BY <1>7, <2>1 DEF ReadBroken, CloseNothing, CloseEnd, AfterClose
    <2>2. CASE kind[t] # "translate"
      <3>1. "fallback" \in Hows /\ "fallback" \in Substitutes(kind[t])
        BY <2>2 DEF Hows, Substitutes
      <3>2. Open(t) /\ Return(t, "fallback")
        BY <1>3, <1>7, <2>2 DEF ReadBroken, CloseNothing, CloseEnd, AfterClose
      <3>3. QED
        BY <1>1, <3>1, <3>2 DEF Return
    <2>3. QED
      BY <2>1, <2>2
  <1>8. ASSUME NEW t \in Threads, OneShot(t) PROVE ANext
    <2>1. PICK how \in {"oneshot", "failed"} : Return(t, how)
      BY <1>8 DEF OneShot
    <2>2. kind[t] = "translate" /\ Open(t)
      BY <1>3, <1>8 DEF OneShot, IInv, OneShotOnlyTranslates
    <2>3. how \in Hows /\ how \in Substitutes(kind[t])
      BY <2>2 DEF Hows, Substitutes
    <2>4. QED
      BY <1>1, <2>1, <2>2, <2>3 DEF Return
  <1>9. ASSUME NEW t \in Threads,
               \/ Acquire(t) \/ Release(t) \/ StartFirst(t) \/ Start(t) \/ Spawn(t)
               \/ Write(t) \/ WriteBroken(t) \/ NoAnswer(t) \/ CloseBegin(t) \/ CloseReap(t)
        PROVE  UNCHANGED avars
    BY <1>9 DEF Acquire, Release, StartFirst, Start, Spawn, Write, WriteBroken, NoAnswer,
       CloseBegin, CloseReap
  <1>10. ASSUME Stop \/ Boot \/ Serve \/ Crash \/ CrashMidLine \/ UNCHANGED vars
         PROVE  UNCHANGED avars
    BY <1>10 DEF Stop, StopBegin, StopReap, StopRaises, StopFails, StopEnd, Boot, Serve,
       Crash, CrashMidLine, client, vars
  <1>11. QED
    BY <1>2, <1>4, <1>5, <1>6, <1>7, <1>8, <1>9, <1>10 DEF Next, Timed, Untimed, Kinds

\* The detailed client implements the abstract promise: PromiseKept.
THEOREM Refines == ASSUME SharedLock, ~Alongside PROVE Spec => PromiseKept
  <1>1. Init => AInit
    BY DEF Init
  <1>2. IInv /\ [Next]_vars => [ANext]_avars
    BY StepRefines, SharedLock, ~Alongside
  <1>3. QED
    BY <1>1, <1>2, Inductive, SharedLock, ~Alongside, PTL DEF Spec, PromiseKept, ASpec
=============================================================================

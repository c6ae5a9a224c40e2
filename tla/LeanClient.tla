----------------------------- MODULE LeanClient -----------------------------
(***************************************************************************)
(* The persistent client of the `py2lean` executable: one JSON task per    *)
(* line in, one JSON line out, over the pipes of a child process that the  *)
(* client boots, times out, kills and boots again.                         *)
(*                                                                         *)
(* Threads reach the client through `Session.translate`, which holds its   *)
(* session's lock from the first task to the last.  `LockOf` says which    *)
(* lock a thread takes: one shared Session gives all threads the same one, *)
(* while the module-level `translate` builds a Session, hence a lock, per  *)
(* call around one process-wide client.  `Session.start` and               *)
(* `Session.close` take no lock.                                           *)
(*                                                                         *)
(* The backend may crash, stop half way through a line, or never answer,   *)
(* at any moment and any number of times.                                  *)
(***************************************************************************)
EXTENDS AnswerOnce, Sequences

CONSTANTS
  LockOf,    \* the lock each thread's session holds during a translation
  Big,       \* kinds whose task line does not fit the pipe's buffer
  Alongside  \* the program may run Session.start beside a translation

ASSUME AlongsideAssumption == Alongside \in BOOLEAN

\* "session" names whoever is inside Session.close.
ASSUME SessionAssumption == "session" \notin Threads

VARIABLES
  pc,        \* where each thread is: see PCs
  proc,      \* self.proc: "none", or a child that is "live" or "dead"
  warm,      \* self._warm
  cached,    \* self._library_info is set
  budget,    \* the deadline each waiting thread has chosen
  booted,    \* the child has imported Mathlib and reads its input
  shut,      \* which of the child's pipes the client has closed
  inp,       \* task lines written to the child and not yet answered
  out,       \* response lines the child has written and nobody has read
  orphans,   \* children self.proc was taken off while they ran
  awaited,   \* the closers whose wait() is on the child still in self.proc
  stopping,  \* where Session.close() is: "no", "reap" or "drop"
  raced      \* Session.close() has run beside a call

child == <<proc, booted, shut, inp, out, orphans, awaited>>
calls == <<kind, asked, got>>
stop == <<stopping, raced>>
vars == <<calls, pc, warm, cached, budget, child, stop>>

\* "out": outside the session's lock.  "held": inside it, between calls.
\* "boot", "first": in the client.start() that opens Session.start.
PCs == {"out", "held", "boot", "first", "start", "spawn", "write", "wait",
        "close", "reap", "drop", "oneshot"}

\* Whoever runs close(): a thread inside a method, or Session.close().
Closers == Threads \cup {"session"}

\* A response line: the request it answers, the backend's verdict, and whether
\* the line was written to its end.
Lines == [for : Requests, result : BOOLEAN, whole : BOOLEAN]

DataOK ==
  /\ kind \in [Threads -> Kinds \cup {"none"}]
  /\ asked \in [Threads -> 0..MaxCalls]
  /\ got \in [Threads -> [how : Hows, for : Requests]]
  /\ pc \in [Threads -> PCs]
  /\ proc \in {"none", "live", "dead"}
  /\ budget \in [Threads -> {"none", "startup", "short"}]
  /\ shut \in {"open", "input", "all"}
  /\ inp \in Seq(Requests)
  /\ out \in Seq(Lines)
  /\ orphans \in Nat
  /\ awaited \subseteq Closers
  /\ stopping \in {"no", "reap", "drop"}

FlagsOK == {warm, cached, booted, raced} \subseteq BOOLEAN

\* Every variable is in its range.
TypeOK == DataOK /\ FlagsOK

Init ==
  /\ AInit
  /\ pc = [t \in Threads |-> "out"]
  /\ proc = "none"
  /\ warm = FALSE
  /\ cached = FALSE
  /\ budget = [t \in Threads |-> "none"]
  /\ booted = FALSE
  /\ shut = "open"
  /\ inp = <<>>
  /\ out = <<>>
  /\ orphans = 0
  /\ awaited = {}
  /\ stopping = "no"
  /\ raced = FALSE

-----------------------------------------------------------------------------
(* The session's lock, Session.start, and a call's beginning and end. *)

Goto(t, l) == pc' = [pc EXCEPT ![t] = l]

\* Mutant: the session takes no lock.
NoLock(t) == t \in Threads

LockFree(t) == \A u \in Threads : LockOf[u] = LockOf[t] => pc[u] = "out"

\* The documented use, `with Session(...) as s`, starts the session before it
\* hands it to anyone.
NobodyStarts == \A u \in Threads : kind[u] # "libraryInfo"
NobodyInside == \A u \in Threads : pc[u] = "out"

Acquire(t) ==
  /\ pc[t] = "out"
  /\ LockFree(t)
  /\ Alongside \/ NobodyStarts
  /\ Goto(t, "held")
  /\ UNCHANGED <<calls, warm, cached, budget, child, stop>>

Release(t) ==
  /\ pc[t] = "held"
  /\ Goto(t, "out")
  /\ UNCHANGED <<calls, warm, cached, budget, child, stop>>

Enter(t, k, l) ==
  /\ asked[t] < MaxCalls
  /\ Goto(t, l)
  /\ kind' = [kind EXCEPT ![t] = k]
  /\ asked' = [asked EXCEPT ![t] = @ + 1]
  /\ raced' = (raced \/ stopping # "no")
  /\ UNCHANGED <<got, warm, cached, budget, child, stopping>>

\* A translation calls one of its three methods.
Call(t, k) == pc[t] = "held" /\ Enter(t, k, "start")

\* Session.start: client.start(), then the library facts, without any lock.
\* (An exception of library_info is swallowed there, one of client.start() not.)
StartSession(t) ==
  /\ pc[t] = "out"
  /\ Alongside \/ NobodyInside
  /\ Enter(t, "libraryInfo", "boot")

\* The method returns to its caller with an outcome made for request r.
ReturnFor(t, how, r) ==
  /\ Goto(t, IF kind[t] = "libraryInfo" THEN "out" ELSE "held")
  /\ kind' = [kind EXCEPT ![t] = "none"]
  /\ got' = [got EXCEPT ![t] = [how |-> how, for |-> r]]
  /\ budget' = [budget EXCEPT ![t] = "none"]
  /\ UNCHANGED asked

\* Mutant: a request is numbered one too high.
MineOffByOne(t) == <<t, asked[t] + 1>>

Mine(t) == <<t, asked[t]>>

Return(t, how) == ReturnFor(t, how, Mine(t))
-----------------------------------------------------------------------------
(* start() *)

FromCache(t) == kind[t] = "libraryInfo" /\ cached

\* `library_info` answers from its cache without touching the backend.
UseCache(t) ==
  /\ pc[t] = "start" /\ FromCache(t)
  /\ Return(t, "cached")
  /\ UNCHANGED <<warm, cached, child, stop>>

\* The start() of Session.start itself.
StartFirst(t) ==
  /\ pc[t] = "boot"
  /\ Goto(t, IF proc = "live" THEN "start" ELSE "first")
  /\ UNCHANGED <<calls, warm, cached, budget, child, stop>>

\* Mutant: a child that has not answered yet is taken for no child.
StartUnlessWarm(t) ==
  /\ pc[t] = "start" /\ ~FromCache(t)
  /\ Goto(t, IF warm THEN "write" ELSE "spawn")
  /\ UNCHANGED <<calls, warm, cached, budget, child, stop>>

\* poll() finds the child running, or there is one to boot.
Start(t) ==
  /\ pc[t] = "start" /\ ~FromCache(t)
  /\ Goto(t, IF proc = "live" THEN "write" ELSE "spawn")
  /\ UNCHANGED <<calls, warm, cached, budget, child, stop>>

\* _ensure_binary raises BackendError: lake is missing or the build failed.
BuildFails(t) ==
  /\ pc[t] \in {"first", "spawn"}
  /\ Return(t, "raised")
  /\ UNCHANGED <<warm, cached, child, stop>>

\* self.proc is assigned: pipes and all, whatever was there is let go of.
Replace(p) ==
  /\ orphans' = IF proc = "live" THEN orphans + 1 ELSE orphans
  /\ proc' = p
  /\ booted' = FALSE
  /\ shut' = "open"
  /\ inp' = <<>>
  /\ out' = <<>>
  /\ awaited' = {}

\* Mutant: start() forgets to reset self._warm.
SpawnStillWarm(t) ==
  /\ pc[t] \in {"first", "spawn"}
  /\ Replace("live")
  /\ Goto(t, IF pc[t] = "first" THEN "start" ELSE "write")
  /\ UNCHANGED <<calls, warm, cached, budget, stop>>

\* The build is up to date or done; a new child, not known to have booted.
Spawn(t) ==
  /\ pc[t] \in {"first", "spawn"}
  /\ Replace("live")
  /\ warm' = FALSE
  /\ Goto(t, IF pc[t] = "first" THEN "start" ELSE "write")
  /\ UNCHANGED <<calls, cached, budget, stop>>
-----------------------------------------------------------------------------
(* Writing the task line, choosing the deadline, waiting for the answer. *)

\* The pipe takes a short line at once; a long one goes through only as the
\* backend reads it, and it reads nothing before Mathlib is imported.
PipeTakes(k) == k \in Big => booted /\ inp = <<>>

Write(t) ==
  /\ pc[t] = "write"
  /\ proc = "live" /\ shut = "open"
  /\ PipeTakes(kind[t])
  /\ inp' = Append(inp, Mine(t))
  /\ budget' = [budget EXCEPT ![t] = IF warm THEN "short" ELSE "startup"]
  /\ Goto(t, "wait")
  /\ UNCHANGED <<calls, warm, cached, proc, booted, shut, out, orphans, awaited, stop>>

\* BrokenPipeError: the child died after start() had looked at it.
WriteBroken(t) ==
  /\ pc[t] = "write"
  /\ proc = "dead" /\ shut = "open"
  /\ Goto(t, "close")
  /\ UNCHANGED <<calls, warm, cached, budget, child, stop>>

\* No child, or one that another close() is taking down: the assertion, the
\* write or, if only the output is closed, the read after it raises something
\* no method catches.
WriteRaises(t) ==
  /\ pc[t] = "write"
  /\ proc = "none" \/ shut # "open"
  /\ Return(t, "raised")
  /\ UNCHANGED <<warm, cached, child, stop>>

\* Which answers a method uses: `request` and `prove_file` hand any JSON to
\* their callers, the other two only one whose result is true.
Usable(k, line) == line.result \/ k \in {"translate", "proveFile"}

\* A line is there: select reports it, readline returns it, json.loads reads it.
ReadLine(t) ==
  /\ pc[t] = "wait"
  /\ proc # "none" /\ shut # "all" /\ out # <<>>
  /\ Head(out).whole
  /\ ReturnFor(t, IF Usable(kind[t], Head(out)) THEN "answer" ELSE "fallback",
               Head(out).for)
  /\ cached' = (cached \/ (kind[t] = "libraryInfo" /\ Head(out).result))
  /\ out' = Tail(out)
  /\ warm' = TRUE
  /\ UNCHANGED <<proc, booted, shut, inp, orphans, awaited, stop>>

\* Half a line, cut by the end of the child: JSONDecodeError.  `request` closes
\* and retries; the other three return their substitute and close nothing.
ReadBroken(t) ==
  /\ pc[t] = "wait"
  /\ proc # "none" /\ shut # "all" /\ out # <<>>
  /\ ~Head(out).whole
  /\ IF kind[t] = "translate"
       THEN Goto(t, "close") /\ UNCHANGED <<calls, budget>>
       ELSE Return(t, "fallback")
  /\ out' = Tail(out)
  /\ warm' = TRUE
  /\ UNCHANGED <<cached, proc, booted, shut, inp, orphans, awaited, stop>>

\* Mutant: a method that gives up keeps the child for the next call.
GiveUp(t) ==
  /\ pc[t] = "wait"
  /\ proc # "none" /\ shut # "all" /\ out = <<>>
  /\ Return(t, "fallback")
  /\ UNCHANGED <<warm, cached, child, stop>>

\* Mutant: no deadline, only end of file ends the wait.
NoDeadline(t) ==
  /\ pc[t] = "wait"
  /\ proc = "dead" /\ shut # "all" /\ out = <<>>
  /\ Goto(t, "close")
  /\ UNCHANGED <<calls, warm, cached, budget, child, stop>>

\* _read_response returns None at end of file, or when the deadline passes with
\* nothing to read.
NoAnswer(t) ==
  /\ pc[t] = "wait"
  /\ proc # "none" /\ shut # "all" /\ out = <<>>
  /\ Goto(t, "close")
  /\ UNCHANGED <<calls, warm, cached, budget, child, stop>>

\* Another thread's close() took the child away.
WaitRaises(t) ==
  /\ pc[t] = "wait"
  /\ proc = "none" \/ shut = "all"
  /\ Return(t, "raised")
  /\ UNCHANGED <<warm, cached, child, stop>>
-----------------------------------------------------------------------------
(* close(), and what each method does after it. *)

\* `request` retries the task one-shot, the others give up.
AfterClose(t) ==
  IF kind[t] = "translate" THEN Goto(t, "oneshot") /\ UNCHANGED <<calls, budget>>
                           ELSE Return(t, "fallback")

\* close() reads self.proc afresh at every line.  It closes the input ...
EndInput(c) ==
  /\ proc # "none"
  /\ shut' = IF shut = "open" THEN "input" ELSE shut
  /\ awaited' = awaited \cup {c}
  /\ UNCHANGED <<proc, booted, inp, out, orphans>>

\* ... waits for the child it found there, or kills whichever it finds when two
\* seconds are over, and closes the other pipes of whichever it finds then,
\* which discards what is still in them ...
Reap(c) ==
  /\ proc # "none"
  /\ proc' \in IF c \in awaited THEN {"dead"} ELSE {proc, "dead"}
  /\ shut' = "all"
  /\ inp' = <<>>
  /\ out' = <<>>
  /\ awaited' = awaited \ {c}
  /\ UNCHANGED <<booted, orphans>>

\* ... (a child that outlives the kill's two seconds makes TimeoutExpired escape
\* from here, with self.proc and self._warm still set) ...
Linger(c) ==
  /\ proc = "live"
  /\ shut' = "all"
  /\ inp' = <<>>
  /\ out' = <<>>
  /\ awaited' = awaited \ {c}
  /\ UNCHANGED <<proc, booted, orphans>>

\* ... and clears self.proc and self._warm.
Drop == Replace("none") /\ warm' = FALSE

\* Nothing to close.
CloseNothing(t) ==
  /\ pc[t] = "close" /\ proc = "none"
  /\ AfterClose(t)
  /\ UNCHANGED <<warm, cached, child, stop>>

CloseBegin(t) ==
  /\ pc[t] = "close"
  /\ EndInput(t)
  /\ Goto(t, "reap")
  /\ UNCHANGED <<calls, warm, cached, budget, stop>>

CloseReap(t) ==
  /\ pc[t] = "reap"
  /\ Reap(t)
  /\ Goto(t, "drop")
  /\ UNCHANGED <<calls, warm, cached, budget, stop>>

\* Another close() has cleared self.proc: None has no stdout.
CloseRaises(t) ==
  /\ pc[t] = "reap" /\ proc = "none"
  /\ Return(t, "raised")
  /\ UNCHANGED <<warm, cached, child, stop>>

CloseFails(t) ==
  /\ pc[t] = "reap"
  /\ Linger(t)
  /\ Return(t, "raised")
  /\ UNCHANGED <<warm, cached, stop>>

CloseEnd(t) ==
  /\ pc[t] = "drop"
  /\ Drop
  /\ AfterClose(t)
  /\ UNCHANGED <<cached, stop>>

\* `lake exe py2lean TASK`: a fresh process, no deadline.
OneShot(t) ==
  /\ pc[t] = "oneshot"
  /\ \E how \in {"oneshot", "failed"} : Return(t, how)
  /\ UNCHANGED <<warm, cached, child, stop>>
-----------------------------------------------------------------------------
(* Session.close() *)

\* Session.close() takes no lock: it may run beside any call.
StopBegin ==
  /\ stopping = "no"
  /\ EndInput("session")
  /\ stopping' = "reap"
  /\ raced' = (raced \/ \E t \in Threads : Open(t))
  /\ UNCHANGED <<calls, pc, warm, cached, budget>>

StopReap ==
  /\ stopping = "reap"
  /\ Reap("session")
  /\ stopping' = "drop"
  /\ UNCHANGED <<calls, pc, warm, cached, budget, raced>>

\* The escapes of CloseRaises and CloseFails.
StopRaises ==
  /\ stopping = "reap" /\ proc = "none"
  /\ stopping' = "no"
  /\ UNCHANGED <<calls, pc, warm, cached, budget, child, raced>>

StopFails ==
  /\ stopping = "reap"
  /\ Linger("session")
  /\ stopping' = "no"
  /\ UNCHANGED <<calls, pc, warm, cached, budget, raced>>

StopEnd ==
  /\ stopping = "drop"
  /\ Drop
  /\ stopping' = "no"
  /\ UNCHANGED <<calls, pc, cached, budget, raced>>

Stop == StopBegin \/ StopReap \/ StopRaises \/ StopFails \/ StopEnd
-----------------------------------------------------------------------------
(* The backend process: runServerLoop of py2lean.lean. *)

client == <<calls, pc, warm, cached, budget, awaited, stop>>

Boot ==
  /\ proc = "live" /\ ~booted
  /\ booted' = TRUE
  /\ UNCHANGED <<client, proc, shut, inp, out, orphans>>

\* One line in, one line out.
Serve ==
  /\ proc = "live" /\ booted /\ inp # <<>>
  /\ \E ok \in BOOLEAN :
       out' = Append(out, [for |-> Head(inp), result |-> ok, whole |-> TRUE])
  /\ inp' = Tail(inp)
  /\ UNCHANGED <<client, proc, booted, shut, orphans>>

\* The process dies; nobody will read what is left of its input.
Crash ==
  /\ proc = "live"
  /\ proc' = "dead"
  /\ inp' = <<>>
  /\ UNCHANGED <<client, booted, shut, out, orphans>>

\* The process dies while it writes its answer.
CrashMidLine ==
  /\ proc = "live" /\ booted /\ inp # <<>>
  /\ out' = Append(out, [for |-> Head(inp), result |-> FALSE, whole |-> FALSE])
  /\ proc' = "dead"
  /\ inp' = <<>>
  /\ UNCHANGED <<client, booted, shut, orphans>>
-----------------------------------------------------------------------------
\* What the client itself does in a call, each wait under a deadline of its own
\* or for a line the child is about to read.
Timed(t) ==
  \/ StartFirst(t) \/ UseCache(t) \/ Start(t)
  \/ Write(t) \/ WriteBroken(t) \/ WriteRaises(t)
  \/ ReadLine(t) \/ ReadBroken(t) \/ NoAnswer(t) \/ WaitRaises(t)
  \/ CloseNothing(t) \/ CloseBegin(t) \/ CloseReap(t) \/ CloseRaises(t)
  \/ CloseFails(t) \/ CloseEnd(t)

\* The end of a subprocess.run without timeout: `lake build` (with the file lock
\* around it) or the one-shot retry.
Untimed(t) == BuildFails(t) \/ Spawn(t) \/ OneShot(t)

Next ==
  \/ \E t \in Threads :
       \/ Acquire(t) \/ Release(t) \/ StartSession(t)
       \/ \E k \in Kinds \ {"libraryInfo"} : Call(t, k)
       \/ Timed(t) \/ Untimed(t)
  \/ Stop
  \/ Boot \/ Serve \/ Crash \/ CrashMidLine

Spec == Init /\ [][Next]_vars

\* A runnable thread runs.  Nothing is assumed of the backend, of `lake build`
\* or of the one-shot process: none of them need ever answer or end.
FairSpec == Spec /\ \A t \in Threads : WF_vars(Timed(t))
-----------------------------------------------------------------------------
\* While sessions are started before they are used (~Alongside), a call ends with
\* the answer to the very line it wrote, whatever crashed, timed out, was closed
\* or was retried before: the protocol carries no request id, a response is
\* matched to its task by its place in the pipe alone.
ReplyIsOwn == \A t \in Threads : ~Open(t) => got[t].for = Mine(t)

\* The ordinary deadline is applied only to a child known to have imported
\* Mathlib; any other gets the startup budget (client.py, _warm).
ShortBudgetOnlyIfBooted ==
  \A t \in Threads : pc[t] = "wait" /\ proc = "live" /\ budget[t] = "short" => booted

\* As long as no Session.close has run beside a call, the client never lets go of
\* a running backend: neither by starting another over it nor at the end of a
\* close().  (A close() beside a call can: it clears self.proc two lines after it
\* last looked at it, whatever the call has put there meanwhile.)
NoOrphanBackend == ~raced => orphans = 0

\* Between calls the pipes of a backend the client would use again are empty:
\* no line is left for the next caller to take for its own.
QuietBetweenCalls ==
  proc = "live" /\ shut = "open" /\ (\A t \in Threads : pc[t] \notin {"wait", "close"})
    => inp = <<>> /\ out = <<>>

\* Where the code sets no deadline: the build before a boot, the one-shot retry,
\* and the write of a long line to a child that has not begun to read.
NoDeadlineSet(t) ==
  \/ pc[t] \in {"first", "spawn", "oneshot"}
  \/ pc[t] = "write" /\ ~PipeTakes(kind[t])

\* Even if the backend never answers anything, a call moves on until it returns
\* or is where the code sets no deadline.
CallReturns == \A t \in Threads : Open(t) ~> (~Open(t) \/ NoDeadlineSet(t))

\* The client implements the abstract promise of AnswerOnce: whatever happens to
\* the backend, each call is served alone and ends at most once, with its own
\* answer or with the substitute its method documents.
PromiseKept == ASpec
=============================================================================

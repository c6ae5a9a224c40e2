--------------------------- MODULE BenchCuration ----------------------------
(***************************************************************************)
(* The curation of PastaBench: candidates pass a contract gate (a model,    *)
(* asked in parallel) and a compile gate, both resumable through gate.json; *)
(* survivors are put in the manifest and in their unit directories, and a   *)
(* regeneration translates each unit.  The command may be killed anywhere,  *)
(* also within a write: every file is truncated and filled in place.        *)
(***************************************************************************)
EXTENDS Integers, FiniteSets

CONSTANTS
  Candidates,
  Quota,       \* size of the benchmark
  SaveEvery,   \* the contract gate saves after so many verdicts, and on a pass
  MaxCrashes,  \* bound: how often the command is killed
  SkipCompile, \* whether curate may be told --skip-compile
  Torn         \* gate.json, cut off while it was written

ASSUME CurationAssumption ==
  /\ IsFiniteSet(Candidates)
  /\ Quota \in Nat /\ SaveEvery \in Nat \ {0} /\ MaxCrashes \in Nat
  /\ SkipCompile \in BOOLEAN

Verdicts == {"none", "pass", "fail"}
Recs == [contract : Verdicts, compile : Verdicts]
NoRec == [contract |-> "none", compile |-> "none"]
\* The answers of the model for a candidate are numbered; 0 is no file.
Answers == 0..(MaxCrashes + 1)
\* A file that was cut off while it was written.
Cut == -1
Files == Answers \cup {Cut}

VARIABLES
  pc,         \* what the command is doing
  skip,       \* --skip-compile
  cache,      \* gate.json in memory
  saved,      \* gate.json on disk
  staged,     \* the contracts in _curate
  answers,    \* history: how many answers were paid for
  job,        \* the work of the pool on a candidate
  collected,  \* how many results the main thread has taken
  manifest,
  unit,       \* solution_contracts.py of a unit
  generated,  \* the contracts its Generated.lean comes from
  compiled,   \* history: the contracts that passed the compile gate
  ungated,    \* history: the units that got contracts under --skip-compile
  hit,        \* history: the units a kill fell into a write of
  crashes

disk == <<saved, staged, manifest, unit, generated>>
ghosts == <<answers, compiled, ungated, hit, crashes>>
vars == <<pc, skip, cache, job, collected, disk, ghosts>>

Idle == [c \in Candidates |-> "waiting"]
NoCache == [c \in Candidates |-> NoRec]

Init ==
  /\ pc = "stopped" /\ cache = NoCache /\ saved = NoCache
  /\ staged = [c \in Candidates |-> 0] /\ answers = staged
  /\ job = Idle /\ collected = 0
  /\ manifest = {} /\ unit = staged /\ generated = staged
  /\ compiled = {} /\ ungated = {} /\ hit = {} /\ crashes = 0 /\ skip = FALSE

\* Mutant: the count of the killed run goes on.
StartKeepsCount ==
  /\ pc = "stopped" /\ saved # Torn
  /\ skip' \in {FALSE, SkipCompile}
  /\ pc' = "contracts" /\ cache' = saved
  /\ UNCHANGED <<job, collected, disk, ghosts>>

\* curate: an unreadable gate.json ends it at once.
Start ==
  /\ pc = "stopped" /\ saved # Torn
  /\ skip' \in {FALSE, SkipCompile}
  /\ pc' = "contracts" /\ cache' = saved /\ collected' = 0
  /\ UNCHANGED <<job, disk, ghosts>>

\* regen by itself: it needs a manifest that can be read and lists a unit.
StartRegen ==
  /\ pc = "stopped" /\ manifest # {}
  /\ pc' = "regen"
  /\ UNCHANGED <<skip, cache, job, collected, disk, ghosts>>

\* Mutant: only a pass is a verdict.
OnRecordPass(c) == cache[c].contract = "pass" /\ staged[c] # 0

\* A verdict on record stands, as long as there is a file of contracts that
\* passed.
OnRecord(c) ==
  \/ cache[c].contract = "fail"
  \/ cache[c].contract = "pass" /\ staged[c] # 0

Cached(c) ==
  /\ pc = "contracts" /\ job[c] = "waiting" /\ OnRecord(c)
  /\ job' = [job EXCEPT ![c] = cache[c].contract]
  /\ UNCHANGED <<pc, skip, cache, collected, disk, ghosts>>

\* A thread pays for an answer.  It fails (a refusal, no contracts, a dropped
\* definition, too few Ensures) or is staged.
Ask(c, verdict) ==
  /\ pc = "contracts" /\ job[c] = "waiting" /\ ~OnRecord(c)
  /\ answers' = [answers EXCEPT ![c] = @ + 1]
  /\ job' = [job EXCEPT ![c] = verdict]
  /\ staged' = IF verdict = "pass" THEN [staged EXCEPT ![c] = answers'[c]] ELSE staged
  /\ UNCHANGED <<pc, skip, cache, collected, saved, manifest, unit, generated,
                 compiled, ungated, hit, crashes>>

\* The main thread takes the results as they complete.
Collect(c) ==
  /\ pc = "contracts" /\ job[c] \in {"pass", "fail"}
  /\ cache' = [cache EXCEPT ![c].contract = job[c]]
  /\ job' = [job EXCEPT ![c] = "collected"]
  /\ collected' = collected + 1
  /\ saved' = IF job[c] = "pass" \/ collected' % SaveEvery = 0 THEN cache' ELSE saved
  /\ UNCHANGED <<pc, skip, staged, manifest, unit, generated, ghosts>>

Gated ==
  /\ pc = "contracts" /\ \A c \in Candidates : job[c] = "collected"
  /\ pc' = "compile" /\ saved' = cache
  /\ UNCHANGED <<skip, cache, job, collected, staged, manifest, unit, generated, ghosts>>

ToCompile ==
  {c \in Candidates : ~skip /\ cache[c].contract = "pass" /\ cache[c].compile = "none"}

\* The compile gate, one candidate at a time: translated, not degraded, and it
\* elaborates.
Compile(c, verdict) ==
  /\ pc = "compile" /\ c \in ToCompile
  /\ cache' = [cache EXCEPT ![c].compile = verdict] /\ saved' = cache'
  /\ compiled' = IF verdict = "pass" THEN compiled \cup {<<c, staged[c]>>} ELSE compiled
  /\ UNCHANGED <<pc, skip, job, collected, staged, manifest, unit, generated,
                 answers, ungated, hit, crashes>>

\* Mutant: whatever passed the contract gate survives.
SurvivorsUncompiled == {c \in Candidates : cache[c].contract = "pass"}

Survivors ==
  {c \in Candidates : cache[c].contract = "pass" /\ (skip \/ cache[c].compile = "pass")}

\* Mutant: no top-up, the draw must fill the benchmark.
PickFull ==
  /\ pc = "compile" /\ ToCompile = {}
  /\ \E chosen \in SUBSET Survivors : Cardinality(chosen) = Quota /\ manifest' = chosen
  /\ pc' = "materialize" /\ job' = Idle
  /\ UNCHANGED <<skip, cache, collected, saved, staged, unit, generated, ghosts>>

\* The strata are filled by a seeded draw, and topped up with any survivor left.
Pick ==
  /\ pc = "compile" /\ ToCompile = {}
  /\ \E chosen \in SUBSET Survivors :
       /\ Cardinality(chosen) =
            (IF Cardinality(Survivors) < Quota THEN Cardinality(Survivors) ELSE Quota)
       /\ manifest' = chosen
  /\ pc' = "materialize" /\ job' = Idle
  /\ UNCHANGED <<skip, cache, collected, saved, staged, unit, generated, ghosts>>

\* materialize: Generated.lean is that of the plain solution again.
Materialize(c) ==
  /\ pc = "materialize" /\ c \in manifest /\ job[c] = "waiting"
  /\ generated' = [generated EXCEPT ![c] = 0]
  /\ job' = [job EXCEPT ![c] = "made"]
  /\ UNCHANGED <<pc, skip, cache, collected, saved, staged, manifest, unit, ghosts>>

\* The unit of c is next for the staged contracts, which go only to a unit that
\* has no file of contracts.
Copying(c) ==
  /\ pc = "materialize" /\ \A d \in manifest : job[d] # "waiting"
  /\ c \in manifest /\ job[c] = "made"

Copy(c) ==
  /\ Copying(c)
  /\ \/ unit[c] # 0 /\ UNCHANGED <<unit, ungated>>
     \/ /\ unit[c] = 0
        /\ unit' = [unit EXCEPT ![c] = staged[c]]
        /\ ungated' = IF skip THEN ungated \cup {c} ELSE ungated
  /\ job' = [job EXCEPT ![c] = "copied"]
  /\ UNCHANGED <<pc, skip, cache, collected, saved, staged, manifest, generated,
                 answers, compiled, hit, crashes>>

Curated ==
  /\ pc = "materialize" /\ \A c \in manifest : job[c] = "copied"
  /\ pc' = "regen" /\ job' = Idle
  /\ UNCHANGED <<skip, cache, collected, disk, ghosts>>

\* regen: the contracts, or else the solution, are translated; a failed or
\* degraded translation leaves the file alone.
Regen(c, ok) ==
  /\ pc = "regen" /\ c \in manifest /\ job[c] = "waiting"
  /\ job' = [job EXCEPT ![c] = "made"]
  /\ generated' = IF ok THEN [generated EXCEPT ![c] = unit[c]] ELSE generated
  /\ UNCHANGED <<pc, skip, cache, collected, saved, staged, manifest, unit, ghosts>>

Regenerated ==
  /\ pc = "regen" /\ \A c \in manifest : job[c] = "made"
  /\ pc' = "done"
  /\ UNCHANGED <<skip, cache, job, collected, disk, ghosts>>

\* A translation ends up in a one-shot process, which has no timeout, and hangs.
Hang ==
  /\ \/ pc = "compile" /\ ToCompile # {}
     \/ pc = "regen" /\ \E c \in manifest : job[c] = "waiting"
  /\ pc' = "hung"
  /\ UNCHANGED <<skip, cache, job, collected, disk, ghosts>>

\* A kill while candidates are gated: gate.json may be cut off, and the contracts
\* that threads are staging, whose answers are paid for.
CutGates ==
  /\ pc \in {"contracts", "compile"} /\ saved' \in {saved, Torn}
  /\ \E S \in SUBSET {c \in Candidates :
                       pc = "contracts" /\ job[c] = "waiting" /\ ~OnRecord(c)} :
       /\ staged' = [c \in Candidates |-> IF c \in S THEN Cut ELSE staged[c]]
       /\ answers' = [c \in Candidates |-> IF c \in S THEN answers[c] + 1 ELSE answers[c]]
  /\ UNCHANGED <<manifest, unit, generated, hit>>

\* In the write of manifest.json, which then lists nothing.
CutManifest ==
  /\ pc = "compile" /\ ToCompile = {} /\ manifest' = {}
  /\ UNCHANGED <<saved, staged, unit, generated, answers, hit>>

\* In the write of a Generated.lean, by materialize or by regen.
CutGenerated(c) ==
  /\ pc \in {"materialize", "regen"} /\ c \in manifest /\ job[c] = "waiting"
  /\ generated' = [generated EXCEPT ![c] = Cut] /\ hit' = hit \cup {c}
  /\ UNCHANGED <<saved, staged, manifest, unit, answers>>

\* In the copy of the contracts: the unit then has a file of contracts, which no
\* later command replaces.
CutUnit(c) ==
  /\ Copying(c) /\ unit[c] = 0
  /\ unit' = [unit EXCEPT ![c] = Cut] /\ hit' = hit \cup {c}
  /\ UNCHANGED <<saved, staged, manifest, generated, answers>>

\* The process is killed, between two writes or within one, and its memory is
\* lost.
Crash ==
  /\ pc \notin {"stopped", "done"} /\ crashes < MaxCrashes
  /\ crashes' = crashes + 1 /\ pc' = "stopped"
  /\ \/ UNCHANGED <<disk, answers, hit>>
     \/ CutGates \/ CutManifest
     \/ \E c \in Candidates : CutGenerated(c) \/ CutUnit(c)
  /\ cache' = NoCache /\ job' = Idle
  /\ UNCHANGED <<skip, collected, compiled, ungated>>

Command ==
  \/ Start \/ StartRegen \/ Gated \/ Pick \/ Curated \/ Regenerated
  \/ \E c \in Candidates :
       \/ Cached(c) \/ Collect(c) \/ Materialize(c) \/ Copy(c)
       \/ \E v \in {"pass", "fail"} : Ask(c, v) \/ Compile(c, v)
       \/ \E ok \in BOOLEAN : Regen(c, ok)

Next == Command \/ Hang \/ Crash

\* The command goes on, unless a translation hangs, and is started again when it
\* was killed; nothing says that it is killed.
Spec == Init /\ [][Next]_vars /\ WF_vars(Command)
-----------------------------------------------------------------------------
\* Every variable is in its range.
TypeOK ==
  /\ pc \in {"stopped", "contracts", "compile", "materialize", "regen", "hung", "done"}
  /\ cache \in [Candidates -> Recs] /\ saved \in [Candidates -> Recs] \cup {Torn}
  /\ job \in [Candidates -> {"waiting", "pass", "fail", "collected", "made", "copied"}]
  /\ {staged, unit, generated} \subseteq [Candidates -> Files]
  /\ answers \in [Candidates -> Answers]
  /\ collected \in 0..Cardinality(Candidates) /\ crashes \in 0..MaxCrashes
  /\ {manifest, ungated, hit} \subseteq SUBSET Candidates
  /\ compiled \subseteq Candidates \X Files /\ skip \in BOOLEAN

\* "every benchmark problem is one a human can actually prove something
\* non-trivial about": wherever the command was killed and resumed, the contracts
\* of a unit, and those behind its Generated.lean, are ones the compile gate saw,
\* unless they were put there under --skip-compile.  A file that is cut off was
\* being written itself when a kill came, or is translated from one that was: the
\* staged file a kill cut off is never published.
PublishedCompiles ==
  \A c \in Candidates :
    \A v \in {unit[c], generated[c]} \ {0} :
      IF v = Cut THEN c \in hit ELSE <<c, v>> \in compiled \/ c \in ungated

\* A verdict on gate.json costs nothing to resume: an answer is paid for again
\* only if a kill lost the last one, and never while a verdict is on record.
NoAnswerPaidTwice ==
  [][\A c \in Candidates : answers'[c] # answers[c] => saved[c].contract = "none"]_vars

\* A killed curation, once resumed, finishes with a benchmark, unless the kill
\* cut off the gate cache or a translation hangs in a process without a timeout.
Finishes == <>[](pc \in {"done", "hung"} \/ saved = Torn)

============================================================================

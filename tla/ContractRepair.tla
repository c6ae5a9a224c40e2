--------------------------- MODULE ContractRepair ---------------------------
(***************************************************************************)
(* repair_unit: verify the contracts of one unit, regenerate them while     *)
(* they are not good enough, keep the best candidate, and write it if it    *)
(* passes.                                                                  *)
(***************************************************************************)
EXTENDS ContractGates

CONSTANTS
  MaxAttempts,  \* the largest number of regenerations asked for
  MinScores,    \* the thresholds asked for; NoScore for none
  Critic        \* the critic is asked for

ASSUME RepairAssumption == MaxAttempts \in Nat /\ Critic \in BOOLEAN

\* The contracts on disk are source 0, the candidate of an attempt bears its
\* number, unless the model returns the old text again.
Sources == 0..MaxAttempts
Missing == -1

VARIABLES
  asked,     \* attempts (0 if no generator is given) and threshold of the call
  pc,
  current,   \* the source on disk at the start
  attempt,
  candidate, \* the source under check
  best,      \* best_source, Missing if none
  bestOf,    \* its report
  history,   \* the reports seen
  good,      \* history: the attempts found clean and true, with source and score
  llm,       \* llm_calls
  written    \* the source written, Missing if none

repairVars == <<asked, pc, current, attempt, candidate, best, bestOf, history, good, llm, written>>
vars == <<gateVars, repairVars>>

Init ==
  /\ GInit
  /\ asked \in [attempts : 0..MaxAttempts, min : MinScores]
  /\ pc = "load" /\ current \in {0, Missing}
  /\ attempt = 0 /\ candidate = Missing
  /\ best = Missing /\ bestOf = NoReport
  /\ history = {} /\ good = {} /\ llm = 0 /\ written = Missing

\* mutation_score compared: k out of e against k2 out of e2, None below all.
Less(s, u) ==
  IF u = NoScore THEN FALSE ELSE s = NoScore \/ s[1] * u[2] < u[1] * s[2]

\* _rank(r) < _rank(q)
Outranked(r, q) ==
  \/ ~r.pass /\ q.pass
  \/ /\ r.pass = q.pass
     /\ \/ Less(r.score, q.score)
        \/ /\ ~Less(q.score, r.score)
           /\ \/ r.static.strength < q.static.strength
              \/ /\ r.static.strength = q.static.strength
                 /\ r.static.warnings > q.static.warnings

\* A score against the threshold asked for, None counted as 0.
Reaches(score) ==
  asked.min # NoScore => ~Less(IF score = NoScore THEN <<0, 1>> ELSE score, asked.min)

GoodEnough == best # Missing /\ bestOf.pass /\ Reaches(bestOf.score)

StartCheck(s) ==
  /\ candidate' = s /\ gate' = "static" /\ pc' = "check"
  /\ UNCHANGED <<static, child, report>>

Load ==
  /\ pc = "load"
  /\ IF current = Missing
       THEN pc' = "loop" /\ UNCHANGED <<gateVars, candidate>>
       ELSE StartCheck(current)
  /\ UNCHANGED <<asked, current, attempt, best, bestOf, history, good, llm, written>>

\* The report is in, and a report of a clean file true on every input with it.
Record ==
  /\ history' = history \cup {report}
  /\ good' = IF report.static.found = "clean" /\ report.dynamic
                THEN good \cup {<<attempt, candidate, report.score>>} ELSE good

\* Mutant: the latest candidate replaces the best.
KeepLatest ==
  /\ pc = "check" /\ gate = "idle"
  /\ Record
  /\ best' = candidate /\ bestOf' = report
  /\ pc' = "loop"
  /\ UNCHANGED <<gateVars, asked, current, attempt, candidate, llm, written>>

\* The check is done: keep the report and its source if they rank higher.
Keep ==
  /\ pc = "check" /\ gate = "idle"
  /\ Record
  /\ IF best = Missing \/ Outranked(bestOf, report)
       THEN best' = candidate /\ bestOf' = report
       ELSE UNCHANGED <<best, bestOf>>
  /\ pc' = "loop"
  /\ UNCHANGED <<gateVars, asked, current, attempt, candidate, llm, written>>

\* The critic, advisory, and the generator: one call each.
Calls == IF Critic /\ best # Missing THEN 2 ELSE 1

\* Mutant: a good unit is regenerated as long as attempts are left.
RegenerateAlways ==
  /\ pc = "loop" /\ attempt < asked.attempts
  /\ attempt' = attempt + 1 /\ llm' = llm + Calls
  /\ \E s \in {0, attempt + 1} : StartCheck(s)
  /\ UNCHANGED <<asked, current, best, bestOf, history, good, written>>

\* Mutant: an attempt is counted only when its candidate is new.
RegenerateUncounted ==
  /\ pc = "loop" /\ attempt < asked.attempts /\ ~GoodEnough
  /\ llm' = llm + Calls
  /\ \E s \in {0, attempt + 1} : StartCheck(s) /\ attempt' = s
  /\ UNCHANGED <<asked, current, best, bestOf, history, good, written>>

Regenerate ==
  /\ pc = "loop" /\ attempt < asked.attempts /\ ~GoodEnough
  /\ attempt' = attempt + 1 /\ llm' = llm + Calls
  /\ \E s \in {0, attempt + 1} : StartCheck(s)
  /\ UNCHANGED <<asked, current, best, bestOf, history, good, written>>

GeneratorFails ==
  /\ pc = "loop" /\ attempt < asked.attempts /\ ~GoodEnough
  /\ attempt' = attempt + 1 /\ llm' = llm + Calls
  /\ pc' = "write"
  /\ UNCHANGED <<gateVars, asked, current, candidate, best, bestOf, history, good, written>>

Stop ==
  /\ pc = "loop" /\ (attempt = asked.attempts \/ GoodEnough)
  /\ pc' = "write"
  /\ UNCHANGED <<gateVars, asked, current, attempt, candidate, best, bestOf, history, good, llm, written>>

\* Mutant: any candidate that beats the old contracts is written.
WriteBest ==
  /\ pc = "write"
  /\ written' = IF best # Missing /\ best # current THEN best ELSE Missing
  /\ pc' = "done"
  /\ UNCHANGED <<gateVars, asked, current, attempt, candidate, best, bestOf, history, good, llm>>

\* The contracts file or a file of the output directory.
Write ==
  /\ pc = "write"
  /\ written' = IF best # Missing /\ bestOf.pass /\ best # current THEN best ELSE Missing
  /\ pc' = "done"
  /\ UNCHANGED <<gateVars, asked, current, attempt, candidate, best, bestOf, history, good, llm>>

Next ==
  \/ Load \/ Keep \/ Regenerate \/ GeneratorFails \/ Stop \/ Write
  \/ Check /\ UNCHANGED repairVars

Spec == Init /\ [][Next]_vars
-----------------------------------------------------------------------------
\* Every variable is in its range.
TypeOK ==
  /\ GatesTypeOK
  /\ pc \in {"load", "check", "loop", "write", "done"}
  /\ current \in {0, Missing} /\ attempt \in 0..asked.attempts
  /\ {candidate, best, written} \subseteq Sources \cup {Missing}
  /\ bestOf \in Reports /\ history \subseteq Reports
  /\ \A g \in good : g[1] \in Sources /\ g[2] \in Sources
  /\ llm \in 0..(2 * asked.attempts)

\* "A file that fails a gate is never written": the source that was written is
\* one whose own check found it clean and true on every input.
OnlyPassingWritten == written # Missing => \E g \in good : g[2] = written

\* What is written is no weaker than anything the loop has seen, the contracts
\* it replaces included: a passing file never gives way to one with a lower score.
NeverWeaker ==
  pc = "done" => \A h \in history : ~Outranked(bestOf, h)

\* A unit whose contracts on disk pass and reach the threshold costs no call, at any
\* number of attempts, whatever the score asked for; a verification pass costs none
\* either, and writes nothing.
NoNeedlessCalls ==
  /\ asked.attempts = 0 => llm = 0 /\ written = Missing
  /\ (\E g \in good : g[1] = 0 /\ Reaches(g[3])) => llm = 0
=============================================================================

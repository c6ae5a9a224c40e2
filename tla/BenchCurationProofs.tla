------------------------ MODULE BenchCurationProofs -------------------------
(***************************************************************************)
(* Machine-checked facts about BenchCuration, for any candidates, any size  *)
(* of the benchmark, any interval between saves and any number of kills.    *)
(***************************************************************************)
EXTENDS BenchCuration, FiniteSetTheorems, TLAPS

PCs == {"stopped", "contracts", "compile", "materialize", "regen", "hung", "done"}
Jobs == {"waiting", "pass", "fail", "collected", "made", "copied"}

\* The values of the variables, but for the count of the main thread.
DataOK ==
  /\ pc \in PCs
  /\ cache \in [Candidates -> Recs] /\ saved \in [Candidates -> Recs] \cup {Torn}
  /\ job \in [Candidates -> Jobs]
  /\ staged \in [Candidates -> Files] /\ answers \in [Candidates -> Answers]
  /\ unit \in [Candidates -> Files] /\ generated \in [Candidates -> Files]
  /\ crashes \in 0..MaxCrashes /\ skip \in BOOLEAN
  /\ manifest \subseteq Candidates /\ compiled \subseteq Candidates \X Files
  /\ ungated \subseteq Candidates /\ hit \subseteq Candidates

\* A process asks once about a candidate at most, and starts with nothing asked:
\* the kills, and one more, bound the answers.
Unasked(c) == pc = "stopped" \/ (pc = "contracts" /\ job[c] = "waiting")
AnswersBounded ==
  \A c \in Candidates : answers[c] <= crashes + (IF Unasked(c) THEN 0 ELSE 1)

\* While results are collected, the main thread has counted each one it took.
Collected == {c \in Candidates : job[c] = "collected"}
CountOK ==
  /\ collected \in 0..Cardinality(Candidates)
  /\ pc = "contracts" => collected = Cardinality(Collected)

\* A stopped command has taken no work yet.
FreshOK == pc = "stopped" => \A c \in Candidates : job[c] = "waiting"

TypeInv == DataOK /\ AnswersBounded /\ CountOK /\ FreshOK
-----------------------------------------------------------------------------
LEMMA InitTypeInv == Init => TypeInv
  <1> SUFFICES ASSUME Init PROVE TypeInv
    OBVIOUS
  <1>1. DataOK /\ AnswersBounded
    <2>1. 0 \in Answers /\ 0 \in Files /\ 0 \in 0..MaxCrashes
      BY CurationAssumption DEF Answers, Files
    <2>7. skip \in BOOLEAN
      BY DEF Init
    <2>2. NoCache \in [Candidates -> Recs] /\ Idle \in [Candidates -> Jobs] /\ pc \in PCs
      BY DEF Init, Idle, NoCache, NoRec, Recs, Verdicts, PCs, Jobs
    <2>3. /\ staged \in [Candidates -> Files] /\ answers \in [Candidates -> Answers]
          /\ unit \in [Candidates -> Files] /\ generated \in [Candidates -> Files]
      BY <2>1 DEF Init
    <2>4. DataOK
      BY <2>1, <2>2, <2>3, <2>7 DEF Init, DataOK
    <2>5. AnswersBounded
      BY DEF Init, AnswersBounded, Unasked
    <2>6. QED
      BY <2>4, <2>5
  <1>2. CountOK
    BY CurationAssumption, FS_CardinalityType DEF Init, CountOK
  <1>3. FreshOK
    BY DEF Init, FreshOK, Idle
  <1>4. QED
    BY <1>1, <1>2, <1>3 DEF TypeInv

\* The answer that is paid for is within the bound.
LEMMA AskNumber ==
  ASSUME DataOK, AnswersBounded, NEW c \in Candidates, NEW v, Ask(c, v)
  PROVE  /\ answers[c] + 1 \in Answers /\ answers[c] + 1 <= crashes + 1
         /\ answers' = [answers EXCEPT ![c] = answers[c] + 1]
  BY CurationAssumption DEF DataOK, AnswersBounded, Unasked, Ask, Answers

\* A kill, whichever file it cuts off, and the answers it loses.
LEMMA CrashData == DataOK /\ AnswersBounded /\ Crash => DataOK' /\ AnswersBounded'
  <1> SUFFICES ASSUME DataOK, AnswersBounded, Crash PROVE DataOK' /\ AnswersBounded'
    OBVIOUS
  <1> USE CurationAssumption DEF DataOK, AnswersBounded
  <1>1. /\ pc' = "stopped" /\ crashes' = crashes + 1 /\ crashes < MaxCrashes
        /\ cache' = NoCache /\ job' = Idle /\ skip' = skip
        /\ compiled' = compiled /\ ungated' = ungated
    BY DEF Crash
  <1>2. /\ pc' \in PCs /\ crashes' \in 0..MaxCrashes /\ skip' \in BOOLEAN
        /\ cache' \in [Candidates -> Recs] /\ job' \in [Candidates -> Jobs]
        /\ compiled' \subseteq Candidates \X Files /\ ungated' \subseteq Candidates
    BY <1>1 DEF PCs, Jobs, NoCache, NoRec, Recs, Verdicts, Idle
  <1>3. ASSUME UNCHANGED <<disk, answers, hit>> PROVE DataOK' /\ AnswersBounded'
    BY <1>1, <1>2, <1>3 DEF disk, Unasked, Answers
  <1>4. ASSUME CutGates PROVE DataOK' /\ AnswersBounded'
    <2>1. PICK S \in SUBSET {c \in Candidates :
                 pc = "contracts" /\ job[c] = "waiting" /\ ~OnRecord(c)} :
            /\ staged' = [c \in Candidates |-> IF c \in S THEN Cut ELSE staged[c]]
            /\ answers' = [c \in Candidates |-> IF c \in S THEN answers[c] + 1 ELSE answers[c]]
      BY <1>4 DEF CutGates
    <2>2. \A c \in Candidates : answers'[c] \in Nat /\ answers'[c] <= crashes + 1
      BY <2>1 DEF Unasked, Answers
    <2>3. answers' \in [Candidates -> Answers]
      BY <1>1, <2>1, <2>2 DEF Answers
    <2>4. staged' \in [Candidates -> Files]
      BY <2>1 DEF Files
    <2>5. AnswersBounded'
      BY <1>1, <2>2 DEF Unasked
    <2>6. saved' \in {saved, Torn} /\ UNCHANGED <<manifest, unit, generated, hit>>
      BY <1>4 DEF CutGates
    <2>7. QED
      BY <1>2, <2>3, <2>4, <2>5, <2>6
  <1>5. ASSUME CutManifest PROVE DataOK' /\ AnswersBounded'
    BY <1>1, <1>2, <1>5 DEF CutManifest, Unasked, Answers
  <1>6. ASSUME NEW c \in Candidates, CutGenerated(c) PROVE DataOK' /\ AnswersBounded'
    BY <1>1, <1>2, <1>6 DEF CutGenerated, Unasked, Answers, Files
  <1>7. ASSUME NEW c \in Candidates, CutUnit(c) PROVE DataOK' /\ AnswersBounded'
    BY <1>1, <1>2, <1>7 DEF CutUnit, Unasked, Answers, Files
  <1>8. QED
    BY <1>3, <1>4, <1>5, <1>6, <1>7 DEF Crash

LEMMA NextData == DataOK /\ AnswersBounded /\ [Next]_vars => DataOK' /\ AnswersBounded'
  <1> SUFFICES ASSUME DataOK, AnswersBounded, [Next]_vars PROVE DataOK' /\ AnswersBounded'
    OBVIOUS
  <1> USE CurationAssumption DEF DataOK, AnswersBounded, Unasked, PCs, Jobs, disk, ghosts
  <1>1. CASE Start \/ StartRegen
    <2>1. skip' \in BOOLEAN
      BY <1>1 DEF Start, StartRegen
    <2>2. /\ pc = "stopped" /\ pc' \in PCs /\ crashes' = crashes /\ answers' = answers
          /\ (cache' = cache \/ (cache' = saved /\ saved # Torn)) /\ job' = job
      BY <1>1 DEF Start, StartRegen
    <2>3. cache' \in [Candidates -> Recs]
      BY <2>2
    <2>4. DataOK'
      BY <1>1, <2>1, <2>2, <2>3 DEF Start, StartRegen
    <2>5. AnswersBounded'
      <3> SUFFICES ASSUME NEW c \in Candidates PROVE (answers[c] <= crashes + (IF Unasked(c) THEN 0 ELSE 1))'
        OBVIOUS
      <3>1. answers[c] <= crashes /\ answers[c] \in Int /\ crashes \in Int
        BY <2>2 DEF Answers
      <3>2. QED
        BY <2>2, <3>1
    <2>6. QED
      BY <2>4, <2>5
  <1>2. CASE Gated
    BY <1>2 DEF Gated, Answers
  <1>3. CASE Pick
    <2>1. manifest' \subseteq Candidates
      BY <1>3 DEF Pick, Survivors
    <2>2. QED
      BY <1>3, <2>1 DEF Pick, Idle, Answers
  <1>4. CASE Curated
    BY <1>4 DEF Curated, Idle, Answers
  <1>5. CASE Regenerated
    BY <1>5 DEF Regenerated, Answers
  <1>6. ASSUME NEW c \in Candidates, Cached(c) PROVE DataOK' /\ AnswersBounded'
    BY <1>6 DEF Cached, OnRecord, Recs, Verdicts, Answers
  <1>7. ASSUME NEW c \in Candidates, Collect(c) PROVE DataOK' /\ AnswersBounded'
    <2>1. cache' \in [Candidates -> Recs]
      BY <1>7 DEF Collect, Recs, Verdicts
    <2>2. saved' \in [Candidates -> Recs] \cup {Torn}
      BY <1>7, <2>1 DEF Collect
    <2>3. QED
      BY <1>7, <2>1, <2>2 DEF Collect, Answers
  <1>8. ASSUME NEW c \in Candidates, Materialize(c) PROVE DataOK' /\ AnswersBounded'
    BY <1>8 DEF Materialize, Answers, Files
  <1>9. ASSUME NEW c \in Candidates, Copy(c) PROVE DataOK' /\ AnswersBounded'
    <2>1. unit' \in [Candidates -> Files] /\ ungated' \subseteq Candidates
      BY <1>9 DEF Copy
    <2>2. QED
      BY <1>9, <2>1 DEF Copy, Copying, Answers
  <1>10. ASSUME NEW c \in Candidates, NEW v \in {"pass", "fail"}, Ask(c, v)
         PROVE  DataOK' /\ AnswersBounded'
    <2>1. answers[c] + 1 \in Answers /\ answers[c] + 1 <= crashes + 1
          /\ answers' = [answers EXCEPT ![c] = answers[c] + 1]
      BY <1>10, AskNumber
    <2>2. answers' \in [Candidates -> Answers] /\ staged' \in [Candidates -> Files]
      BY <1>10, <2>1 DEF Ask, Files
    <2>3. DataOK'
      BY <1>10, <2>2 DEF Ask
    <2>4. AnswersBounded'
      BY <1>10, <2>1 DEF Ask, Answers
    <2>5. QED
      BY <2>3, <2>4
  <1>11. ASSUME NEW c \in Candidates, NEW v \in {"pass", "fail"}, Compile(c, v)
         PROVE  DataOK' /\ AnswersBounded'
    <2>1. cache' \in [Candidates -> Recs]
      BY <1>11 DEF Compile, Recs, Verdicts
    <2>2. QED
      BY <1>11, <2>1 DEF Compile, Answers
  <1>12. ASSUME NEW c \in Candidates, NEW ok \in BOOLEAN, Regen(c, ok)
         PROVE  DataOK' /\ AnswersBounded'
    BY <1>12 DEF Regen, Answers
  <1>13. CASE Crash
    BY <1>13, CrashData
  <1>16. CASE Hang
    BY <1>16 DEF Hang, Answers
  <1>14. CASE UNCHANGED vars
    BY <1>14 DEF vars, Answers
  <1>15. QED
    BY <1>1, <1>2, <1>3, <1>4, <1>5, <1>6, <1>7, <1>8, <1>9, <1>10, <1>11, <1>12, <1>13, <1>14, <1>16
    DEF Next, Command

\* Taking one more result counts one more, and there is room for it.
LEMMA CollectCounts ==
  ASSUME DataOK, CountOK, NEW c \in Candidates, Collect(c)
  PROVE  collected' = Cardinality(Collected') /\ collected' \in 0..Cardinality(Candidates)
  <1>1. Collected' = Collected \cup {c} /\ c \notin Collected
    BY DEF DataOK, Collect, Collected
  <1>2. IsFiniteSet(Collected) /\ IsFiniteSet(Collected') /\ Cardinality(Collected') <= Cardinality(Candidates)
    BY CurationAssumption, FS_Subset DEF Collected
  <1>3. Cardinality(Collected') = Cardinality(Collected) + 1
    BY <1>1, <1>2, FS_AddElement
  <1>4. collected = Cardinality(Collected) /\ collected' = collected + 1 /\ collected \in Nat
    BY CurationAssumption, FS_CardinalityType DEF CountOK, Collect
  <1>5. QED
    BY <1>2, <1>3, <1>4, CurationAssumption, FS_CardinalityType

LEMMA NextCount == DataOK /\ FreshOK /\ CountOK /\ [Next]_vars => CountOK'
  <1> SUFFICES ASSUME DataOK, FreshOK, CountOK, [Next]_vars PROVE CountOK'
    OBVIOUS
  <1> USE DEF DataOK, CountOK, Collected, disk, ghosts
  <1>1. CASE Start
    <2>1. Collected' = {}
      BY <1>1 DEF Start, FreshOK
    <2>2. Cardinality(Collected') = 0
      BY <2>1, FS_EmptySet
    <2>3. collected' = 0 /\ Cardinality(Candidates) \in Nat
      BY <1>1, FS_CardinalityType, CurationAssumption DEF Start
    <2>4. QED
      BY <2>2, <2>3
  <1>2. CASE StartRegen \/ Gated \/ Pick \/ Curated \/ Regenerated \/ Hang
    BY <1>2 DEF StartRegen, Gated, Pick, Curated, Regenerated, Hang
  <1>3. ASSUME NEW c \in Candidates, Cached(c) PROVE CountOK'
    <2>1. Collected' = Collected
      BY <1>3 DEF Cached, OnRecord
    <2>2. QED
      BY <1>3, <2>1 DEF Cached
  <1>4. ASSUME NEW c \in Candidates, Collect(c) PROVE CountOK'
    BY <1>4, CollectCounts
  <1>5. ASSUME NEW c \in Candidates, Materialize(c) \/ Copy(c) PROVE CountOK'
    BY <1>5 DEF Materialize, Copy, Copying
  <1>6. ASSUME NEW c \in Candidates, NEW v \in {"pass", "fail"}, Ask(c, v) PROVE CountOK'
    <2>1. Collected' = Collected
      BY <1>6 DEF Ask
    <2>2. QED
      BY <1>6, <2>1 DEF Ask
  <1>7. ASSUME NEW c \in Candidates, NEW v \in {"pass", "fail"}, Compile(c, v) PROVE CountOK'
    BY <1>7 DEF Compile
  <1>8. ASSUME NEW c \in Candidates, NEW ok \in BOOLEAN, Regen(c, ok) PROVE CountOK'
    BY <1>8 DEF Regen
  <1>9. CASE Crash
    BY <1>9 DEF Crash
  <1>10. CASE UNCHANGED vars
    BY <1>10 DEF vars
  <1>11. QED
    BY <1>1, <1>2, <1>3, <1>4, <1>5, <1>6, <1>7, <1>8, <1>9, <1>10 DEF Next, Command

LEMMA NextFresh == FreshOK /\ [Next]_vars => FreshOK'
  BY DEF FreshOK, Idle, disk, ghosts, vars, Next, Command, Start, StartRegen, Gated, Pick, Curated,
         Regenerated, Cached, Collect, Materialize, Copy, Copying, Ask, Compile, Regen, Hang, Crash

\* Every variable of the curation stays in its range; in particular the main
\* thread never counts more results than there are candidates, and no candidate
\* is asked about more often than the command ran.
THEOREM TypeCorrect == Spec => []TypeOK
  <1>1. Init => TypeInv
    BY InitTypeInv
  <1>2. TypeInv /\ [Next]_vars => TypeInv'
    BY NextData, NextCount, NextFresh DEF TypeInv
  <1>3. TypeInv => TypeOK
    BY DEF TypeInv, TypeOK, DataOK, CountOK, PCs, Jobs
  <1>4. QED
    BY <1>1, <1>2, <1>3, PTL DEF Spec
-----------------------------------------------------------------------------
\* What a gate cache r claims of the candidates holds: contracts that passed are
\* staged whole, only they are compiled, and a compiled one is the staged one.
Sound(r) ==
  \A c \in Candidates :
    /\ r[c].contract = "pass" => staged[c] \notin {0, Cut}
    /\ r[c].compile # "none" => r[c].contract = "pass"
    /\ r[c].compile = "pass" => <<c, staged[c]>> \in compiled

\* gate.json may lag behind the memory of the process, and never contradicts it.
Behind ==
  \A c \in Candidates :
    /\ saved[c].contract \in {"none", cache[c].contract}
    /\ saved[c].compile \in {"none", cache[c].compile}

\* A result of the pool agrees with a verdict on record, and one that is a pass
\* has its contracts staged.
ResultsOK ==
  pc = "contracts" =>
    \A c \in Candidates : job[c] \in {"pass", "fail"} =>
      /\ cache[c].contract \in {"none", job[c]}
      /\ job[c] = "pass" => staged[c] \notin {0, Cut}

Gating == pc \in {"contracts", "compile"}

RecordsOK ==
  /\ Sound(cache) /\ ResultsOK
  /\ Gating \/ saved # Torn => Sound(saved)
  /\ Gating => Behind

\* What is materialized is what survived.
ManifestOK == pc = "materialize" => manifest \subseteq Survivors

PublishInv == RecordsOK /\ ManifestOK /\ PublishedCompiles

LEMMA InitPublish == Init => PublishInv
  <1> SUFFICES ASSUME Init PROVE PublishInv
    OBVIOUS
  <1>1. \A c \in Candidates : cache[c] = NoRec /\ saved[c] = NoRec /\ unit[c] = 0 /\ generated[c] = 0
    BY DEF Init, NoCache
  <1>2. QED
    BY <1>1 DEF Init, NoRec, PublishInv, RecordsOK, ManifestOK, PublishedCompiles, Sound, Behind, ResultsOK

LEMMA NextRecords == DataOK /\ FreshOK /\ RecordsOK /\ [Next]_vars => RecordsOK'
  <1> SUFFICES ASSUME DataOK, FreshOK, RecordsOK, [Next]_vars PROVE RecordsOK'
    OBVIOUS
  <1> USE DEF RecordsOK, Sound, Behind, ResultsOK, Gating, disk, ghosts
  <1>1. CASE Start
    <2>1. \A c \in Candidates : job'[c] = "waiting"
      BY <1>1 DEF Start, FreshOK
    <2>2. QED
      BY <1>1, <2>1 DEF Start
  <1>2. CASE Gated
    BY <1>2 DEF Gated
  <1>3. CASE StartRegen \/ Pick \/ Curated \/ Regenerated \/ Hang
    BY <1>3 DEF StartRegen, Pick, Curated, Regenerated, Hang
  <1>4. ASSUME NEW c \in Candidates, Cached(c) PROVE RecordsOK'
    BY <1>4 DEF Cached, OnRecord, DataOK
  <1>5. ASSUME NEW c \in Candidates, Collect(c) PROVE RecordsOK'
    <2>1. cache[c].contract \in {"none", job[c]} /\ (job[c] = "pass" => staged[c] \notin {0, Cut})
      BY <1>5 DEF Collect
    <2>2. \A d \in Candidates :
            /\ cache'[d].compile = cache[d].compile
            /\ cache'[d].contract = IF d = c THEN job[c] ELSE cache[d].contract
      BY <1>5 DEF Collect, DataOK, Recs
    <2>3. cache[c].compile # "none" => job[c] = "pass"
      BY <2>1
    <2>4. Sound(cache)'
      BY <1>5, <2>1, <2>2, <2>3 DEF Collect
    <2>5. saved' \in {saved, cache'} /\ pc' = "contracts" /\ staged' = staged /\ compiled' = compiled
      BY <1>5 DEF Collect, ghosts
    <2>6. (Sound(saved) /\ Behind)'
      BY <1>5, <2>1, <2>2, <2>4, <2>5 DEF Collect
    <2>7. ResultsOK'
      BY <1>5, <2>2, <2>5 DEF Collect, DataOK
    <2>8. QED
      BY <2>4, <2>6, <2>7
  <1>6. ASSUME NEW c \in Candidates, Materialize(c) \/ Copy(c) PROVE RecordsOK'
    BY <1>6 DEF Materialize, Copy, Copying
  <1>7. ASSUME NEW c \in Candidates, NEW v \in {"pass", "fail"}, Ask(c, v) PROVE RecordsOK'
    <2>1. pc = "contracts" /\ cache[c].contract \notin {"pass", "fail"}
      BY <1>7 DEF Ask, OnRecord
    <2>2. cache[c].contract = "none" /\ cache[c].compile = "none" /\ saved[c].contract = "none"
          /\ saved[c].compile = "none"
      BY <2>1 DEF DataOK, Recs, Verdicts
    <2>3. \A d \in Candidates : d # c => staged'[d] = staged[d]
      BY <1>7 DEF Ask, DataOK
    <2>4. v = "pass" => staged'[c] \notin {0, Cut}
      BY <1>7, CurationAssumption DEF Ask, DataOK, Answers, Cut
    <2>5. \A d \in Candidates : job'[d] = IF d = c THEN v ELSE job[d]
      BY <1>7 DEF Ask, DataOK
    <2>6. cache' = cache /\ saved' = saved /\ compiled' = compiled /\ pc' = pc
      BY <1>7 DEF Ask
    <2>7. (Sound(cache) /\ Sound(saved) /\ Behind)'
      BY <2>1, <2>2, <2>3, <2>6
    <2>8. ResultsOK'
      BY <2>1, <2>2, <2>3, <2>4, <2>5, <2>6
    <2>9. QED
      BY <2>7, <2>8
  <1>8. ASSUME NEW c \in Candidates, NEW v \in {"pass", "fail"}, Compile(c, v) PROVE RecordsOK'
    <2>1. \A d \in Candidates :
            /\ cache'[d].contract = cache[d].contract
            /\ cache'[d].compile = IF d = c THEN v ELSE cache[d].compile
      BY <1>8 DEF Compile, DataOK, Recs
    <2>2. cache[c].contract = "pass" /\ cache[c].compile = "none" /\ pc # "stopped"
      BY <1>8 DEF Compile, ToCompile
    <2>3. /\ \A d \in Candidates : d # c /\ <<d, staged[d]>> \in compiled => <<d, staged[d]>> \in compiled'
          /\ v = "pass" => <<c, staged[c]>> \in compiled'
          /\ saved' = cache' /\ staged' = staged /\ pc' = "compile"
      BY <1>8 DEF Compile
    <2>4. Sound(cache)'
      BY <2>1, <2>2, <2>3
    <2>5. QED
      BY <2>3, <2>4
  <1>9. ASSUME NEW c \in Candidates, NEW ok \in BOOLEAN, Regen(c, ok) PROVE RecordsOK'
    BY <1>9 DEF Regen
  <1>10. CASE Crash
    <2>1. pc' = "stopped" /\ cache' = NoCache /\ compiled' = compiled
      BY <1>10 DEF Crash
    <2>2. \A c \in Candidates : cache'[c].contract = "none" /\ cache'[c].compile = "none"
      BY <2>1 DEF NoCache, NoRec
    <2>3. ASSUME UNCHANGED <<saved, staged>> PROVE RecordsOK'
      BY <2>1, <2>2, <2>3
    <2>4. ASSUME CutGates PROVE RecordsOK'
      <3>1. \A c \in Candidates : staged'[c] # staged[c] => pc = "contracts" /\ ~OnRecord(c)
        BY <2>4 DEF CutGates, DataOK
      <3>2. \A c \in Candidates : staged'[c] # staged[c] => cache[c].contract # "pass"
        BY <3>1 DEF OnRecord
      <3>3. Gating /\ Sound(saved) /\ Behind /\ saved' \in {saved, Torn}
        BY <2>4 DEF CutGates
      <3>4. \A c \in Candidates : saved[c].contract = "pass" => staged'[c] = staged[c]
        BY <3>2, <3>3
      <3>5. ASSUME saved' # Torn PROVE Sound(saved)'
        <4>1. saved' = saved
          BY <3>3, <3>5
        <4>2. QED
          BY <2>1, <3>3, <3>4, <4>1
      <3>6. QED
        BY <2>1, <2>2, <3>5
    <2>5. ASSUME CutManifest PROVE RecordsOK'
      BY <2>3, <2>5 DEF CutManifest
    <2>6. ASSUME NEW c \in Candidates, CutGenerated(c) \/ CutUnit(c) PROVE RecordsOK'
      BY <2>3, <2>6 DEF CutGenerated, CutUnit
    <2>7. QED
      BY <1>10, <2>3, <2>4, <2>5, <2>6 DEF Crash
  <1>11. CASE UNCHANGED vars
    BY <1>11 DEF vars
  <1>12. QED
    BY <1>1, <1>2, <1>3, <1>4, <1>5, <1>6, <1>7, <1>8, <1>9, <1>10, <1>11 DEF Next, Command

LEMMA NextManifest == ManifestOK /\ [Next]_vars => ManifestOK'
  <1> SUFFICES ASSUME ManifestOK, [Next]_vars PROVE ManifestOK'
    OBVIOUS
  <1>1. CASE Pick
    BY <1>1 DEF Pick, ManifestOK, Survivors
  <1>2. CASE ~Pick /\ pc' = "materialize"
    <2>1. pc = "materialize" /\ manifest' = manifest /\ cache' = cache /\ skip' = skip
      BY <1>2 DEF vars, disk, ghosts, Next, Command, Start, StartRegen, Gated, Curated, Regenerated,
             Cached, Collect, Materialize, Copy, Copying, Ask, Compile, Regen, Hang, Crash
    <2>2. QED
      BY <2>1 DEF ManifestOK, Survivors
  <1>3. CASE pc' # "materialize"
    BY <1>3 DEF ManifestOK
  <1>4. QED
    BY <1>1, <1>2, <1>3

LEMMA NextPublished ==
  DataOK /\ RecordsOK /\ ManifestOK /\ PublishedCompiles /\ [Next]_vars => PublishedCompiles'
  <1> SUFFICES ASSUME DataOK, RecordsOK, ManifestOK, PublishedCompiles, [Next]_vars
               PROVE  PublishedCompiles'
    OBVIOUS
  <1> USE DEF PublishedCompiles, disk, ghosts
  <1>1. CASE Start \/ StartRegen \/ Gated \/ Pick \/ Curated \/ Regenerated \/ Hang
    BY <1>1 DEF Start, StartRegen, Gated, Pick, Curated, Regenerated, Hang
  <1>2. ASSUME NEW c \in Candidates, Cached(c) \/ Collect(c) PROVE PublishedCompiles'
    BY <1>2 DEF Cached, Collect
  <1>3. ASSUME NEW c \in Candidates, Materialize(c) PROVE PublishedCompiles'
    BY <1>3 DEF Materialize, DataOK
  <1>4. ASSUME NEW c \in Candidates, Copy(c) PROVE PublishedCompiles'
    <2>1. staged[c] \notin {0, Cut} /\ (skip \/ <<c, staged[c]>> \in compiled)
      BY <1>4 DEF Copy, Copying, ManifestOK, Survivors, RecordsOK, Sound
    <2>2. generated' = generated /\ compiled' = compiled /\ hit' = hit /\ ungated \subseteq ungated'
      BY <1>4 DEF Copy
    <2>3. \A d \in Candidates : unit'[d] = unit[d] \/ (d = c /\ unit'[d] = staged[c])
      BY <1>4 DEF Copy, DataOK
    <2>4. unit'[c] = unit[c] \/ (skip => c \in ungated')
      BY <1>4 DEF Copy
    <2>5. QED
      BY <2>1, <2>2, <2>3, <2>4
  <1>5. ASSUME NEW c \in Candidates, NEW v \in {"pass", "fail"}, Ask(c, v) PROVE PublishedCompiles'
    BY <1>5 DEF Ask
  <1>6. ASSUME NEW c \in Candidates, NEW v \in {"pass", "fail"}, Compile(c, v) PROVE PublishedCompiles'
    BY <1>6 DEF Compile
  <1>7. ASSUME NEW c \in Candidates, NEW ok \in BOOLEAN, Regen(c, ok) PROVE PublishedCompiles'
    BY <1>7 DEF Regen, DataOK
  <1>8. CASE Crash
    <2>1. compiled' = compiled /\ ungated' = ungated
      BY <1>8 DEF Crash
    <2>2. ASSUME UNCHANGED <<unit, generated, hit>> PROVE PublishedCompiles'
      BY <2>1, <2>2
    <2>3. ASSUME NEW c \in Candidates, CutGenerated(c) PROVE PublishedCompiles'
      BY <2>1, <2>3 DEF CutGenerated, DataOK
    <2>4. ASSUME NEW c \in Candidates, CutUnit(c) PROVE PublishedCompiles'
      BY <2>1, <2>4 DEF CutUnit, DataOK
    <2>5. QED
      BY <1>8, <2>2, <2>3, <2>4 DEF Crash, CutGates, CutManifest
  <1>9. CASE UNCHANGED vars
    BY <1>9 DEF vars
  <1>10. QED
    BY <1>1, <1>2, <1>3, <1>4, <1>5, <1>6, <1>7, <1>8, <1>9 DEF Next, Command

LEMMA CurationInvariant == Spec => [](TypeInv /\ PublishInv)
  <1>1. Init => TypeInv /\ PublishInv
    BY InitTypeInv, InitPublish
  <1>2. TypeInv /\ PublishInv /\ [Next]_vars => (TypeInv /\ PublishInv)'
    BY NextData, NextCount, NextFresh, NextRecords, NextManifest, NextPublished DEF TypeInv, PublishInv
  <1>3. QED
    BY <1>1, <1>2, PTL DEF Spec

\* Whatever the kills, the contracts of a unit, and those behind its
\* Generated.lean, are ones the compile gate saw or were put there under
\* --skip-compile, but for the units whose own files a kill cut off.
THEOREM PublishedCorrect == Spec => []PublishedCompiles
  <1>1. PublishInv => PublishedCompiles
    BY DEF PublishInv
  <1>2. QED
    BY <1>1, CurationInvariant, PTL

\* A candidate the process has no verdict on has none in gate.json either.
LEMMA Unrecorded ==
  ASSUME TypeInv, PublishInv, pc = "contracts", NEW c \in Candidates, ~OnRecord(c)
  PROVE  saved[c].contract = "none"
  <1>1. cache[c].contract \notin {"pass", "fail"}
    BY DEF OnRecord, PublishInv, RecordsOK, Sound
  <1>2. cache[c].contract = "none"
    BY <1>1 DEF TypeInv, DataOK, Recs, Verdicts
  <1>3. QED
    BY <1>2 DEF PublishInv, RecordsOK, Gating, Behind

\* No step pays for an answer while gate.json has a verdict on the candidate:
\* a resumed command pays only for what a kill lost.
THEOREM PaidOnce == Spec => NoAnswerPaidTwice
  <1>1. TypeInv /\ PublishInv /\ [Next]_vars =>
          [\A c \in Candidates : answers'[c] # answers[c] => saved[c].contract = "none"]_vars
    <2> SUFFICES ASSUME TypeInv, PublishInv, Next, NEW c \in Candidates, answers'[c] # answers[c]
                 PROVE  saved[c].contract = "none"
      OBVIOUS
    <2>1. CASE Crash
      <3>1. CutGates
        BY <2>1 DEF Crash, CutManifest, CutGenerated, CutUnit
      <3>2. pc = "contracts" /\ ~OnRecord(c)
        BY <3>1 DEF CutGates, TypeInv, DataOK
      <3>3. QED
        BY <3>2, Unrecorded
    <2>2. CASE ~Crash
      <3>1. PICK d \in Candidates : \E v \in {"pass", "fail"} : Ask(d, v)
        BY <2>2 DEF Next, Command, ghosts, Start, StartRegen, Gated, Pick, Curated, Regenerated,
               Cached, Collect, Materialize, Copy, Compile, Regen, Hang
      <3>2. d = c
        BY <3>1 DEF Ask, TypeInv, DataOK
      <3>3. pc = "contracts" /\ ~OnRecord(c)
        BY <3>1, <3>2 DEF Ask
      <3>4. QED
        BY <3>3, Unrecorded
    <2>3. QED
      BY <2>1, <2>2
  <1>2. QED
    BY <1>1, CurationInvariant, PTL DEF Spec, NoAnswerPaidTwice

=============================================================================

-------------------------- MODULE NativeEvaluation --------------------------
(***************************************************************************)
(* The native evaluation of cp_harness: every harness is a Lean module, one *)
(* build compiles them all, dispatcher binaries are linked over chunks of   *)
(* those that compiled, a chunk that fails is bisected, and each harness is *)
(* run and scored.                                                          *)
(***************************************************************************)
EXTENDS Naturals, Sequences, FiniteSets, Functions, Ordering

CONSTANTS
  Count,     \* number of harnesses
  ProblemOf  \* whose solution each harness tests

Ids == 1..Count

ASSUME CountAssumption == Count \in Nat /\ DOMAIN ProblemOf = Ids

\* A harness compiles and links, does not elaborate, or breaks every dispatcher.
Fates == {"sound", "no olean", "no link"}
NoBinary == 0

VARIABLES
  fate,     \* of each harness
  limit,    \* the largest dispatcher that can be linked
  chunk,    \* native_chunk
  phase,    \* where evaluate_native is
  todo,     \* the calls of build_chunk to come, in order
  bad,      \* bad_ids
  binary,   \* id_binary: the snapshot that can run a harness
  arms,     \* the harnesses each snapshot has an arm for, by tag
  sources,  \* what CpHarness.lean imports: {} is the idle placeholder
  pending,  \* harnesses not scored yet
  passed, divergences, agg, report

setting == <<fate, limit, chunk>>
linking == <<todo, bad, binary, arms, sources>>
scoring == <<pending, passed, divergences, agg, report>>
vars == <<setting, phase, linking, scoring>>

Problems == {ProblemOf[i] : i \in Ids}

Init ==
  /\ fate \in [Ids -> Fates] /\ limit \in 1..Count /\ chunk \in 1..Count
  /\ phase = "modules"
  /\ todo = <<>> /\ bad = {} /\ arms = <<>> /\ sources = {}
  /\ binary = [i \in Ids |-> NoBinary]
  /\ pending = Ids /\ passed = {} /\ divergences = {} /\ agg = 0
  /\ report = [p \in Problems |-> {}]

\* Mutant: the last chunk is cut short by one.
ChunksShort(s) ==
  [k \in 1..((Len(s) + chunk - 1) \div chunk) |->
    SubSeq(s, (k - 1) * chunk + 1, IF k * chunk < Len(s) THEN k * chunk ELSE Len(s) - 1)]

\* The slices of `chunk` ids each, the last one shorter.
Chunks(s) ==
  [k \in 1..((Len(s) + chunk - 1) \div chunk) |->
    SubSeq(s, (k - 1) * chunk + 1, IF k * chunk < Len(s) THEN k * chunk ELSE Len(s))]

\* Phase 1: Lake compiles each module on its own; those without an olean are bad.
BuildModules ==
  LET ok == {i \in Ids : fate[i] # "no olean"} IN
  /\ phase = "modules"
  /\ sources' = Ids
  /\ bad' = Ids \ ok
  /\ todo' = Chunks(InOrder(ok))
  /\ phase' = "link"
  /\ UNCHANGED <<setting, binary, arms, scoring>>

Links(ids) ==
  Len(ids) <= limit /\ \A k \in DOMAIN ids : fate[ids[k]] = "sound"

\* build_chunk, the build went through: the binary is copied under a tag.
Linked ==
  /\ phase = "link" /\ todo # <<>> /\ Links(Head(todo))
  /\ sources' = Range(Head(todo))
  /\ arms' = Append(arms, Range(Head(todo)))
  /\ binary' = [i \in Ids |-> IF i \in Range(Head(todo)) THEN Len(arms) + 1 ELSE binary[i]]
  /\ todo' = Tail(todo)
  /\ UNCHANGED <<setting, phase, bad, scoring>>

Isolated ==
  /\ phase = "link" /\ todo # <<>> /\ ~Links(Head(todo)) /\ Len(Head(todo)) = 1
  /\ sources' = Range(Head(todo))
  /\ bad' = bad \cup Range(Head(todo))
  /\ todo' = Tail(todo)
  /\ UNCHANGED <<setting, phase, binary, arms, scoring>>

\* Mutant: a chunk that fails is given up.
GiveUp ==
  /\ phase = "link" /\ todo # <<>> /\ ~Links(Head(todo)) /\ Len(Head(todo)) > 1
  /\ sources' = Range(Head(todo))
  /\ bad' = bad \cup Range(Head(todo))
  /\ todo' = Tail(todo)
  /\ UNCHANGED <<setting, phase, binary, arms, scoring>>

Bisect ==
  LET ids == Head(todo)
      mid == Len(ids) \div 2
  IN  /\ phase = "link" /\ todo # <<>> /\ ~Links(ids) /\ Len(ids) > 1
      /\ sources' = Range(ids)
      /\ todo' = <<SubSeq(ids, 1, mid), SubSeq(ids, mid + 1, Len(ids))>> \o Tail(todo)
      /\ UNCHANGED <<setting, phase, bad, binary, arms, scoring>>

\* Nothing linked: an empty summary is returned, no report is written and the
\* modules stay.
AllLinked ==
  /\ phase = "link" /\ todo = <<>>
  /\ phase' = IF \A i \in Ids : binary[i] = NoBinary THEN "nothing" ELSE "run"
  /\ UNCHANGED <<setting, linking, scoring>>

Runnable(i) == i \notin bad /\ binary[i] # NoBinary

\* Mutant: a harness without a binary is not scored.
ScoreLinked(i, pass) ==
  /\ phase = "run" /\ i \in pending
  /\ pass => Runnable(i)
  /\ pending' = pending \ {i}
  /\ passed' = IF pass THEN passed \cup {i} ELSE passed
  /\ divergences' = IF pass \/ ~Runnable(i) THEN divergences ELSE divergences \cup {i}
  /\ report' = [report EXCEPT ![ProblemOf[i]] = {i}]
  /\ agg' = agg + 1
  /\ UNCHANGED <<setting, phase, linking>>

\* run_one and its result, in the order in which the runs complete.  A harness
\* without a binary is a compile_fail; the others pass or do not.  The entry of
\* a problem is replaced by the solution scored last.
Score(i, pass) ==
  /\ phase = "run" /\ i \in pending
  /\ pass => Runnable(i)
  /\ pending' = pending \ {i}
  /\ passed' = IF pass THEN passed \cup {i} ELSE passed
  /\ divergences' = IF pass THEN divergences ELSE divergences \cup {i}
  /\ report' = [report EXCEPT ![ProblemOf[i]] = {i}]
  /\ agg' = agg + 1
  /\ UNCHANGED <<setting, phase, linking>>

\* The report is written, the modules replaced by placeholders.
WriteReport ==
  /\ phase = "run" /\ pending = {}
  /\ phase' = "reported"
  /\ sources' = {}
  /\ UNCHANGED <<setting, todo, bad, binary, arms, scoring>>

Next ==
  \/ BuildModules \/ Linked \/ Isolated \/ Bisect \/ AllLinked
  \/ \E i \in pending : Score(i, TRUE) \/ Score(i, FALSE)
  \/ WriteReport

Spec == Init /\ [][Next]_vars
-----------------------------------------------------------------------------
\* Every variable is in its range.
TypeOK ==
  /\ phase \in {"modules", "link", "run", "nothing", "reported"}
  /\ todo \in Seq(Seq(Ids)) /\ \A k \in DOMAIN todo : todo[k] # <<>>
  /\ bad \subseteq Ids /\ sources \subseteq Ids /\ pending \subseteq Ids
  /\ binary \in [Ids -> 0..Len(arms)]
  /\ passed \cup divergences \subseteq Ids
  /\ agg \in 0..Count
  /\ report \in [Problems -> SUBSET Ids]

\* "A chunk that fails is bisected down to the individual offending module(s),
\* which are marked compile_fail; everything else still runs": once the chunks are
\* built a sound harness has a binary with an arm for it, in whatever company it
\* was first built, and the others have none.
OnlyOffendersExcluded ==
  phase \in {"run", "nothing", "reported"} =>
    \A i \in Ids :
      IF fate[i] = "sound"
        THEN i \notin bad /\ binary[i] # NoBinary /\ i \in arms[binary[i]]
        ELSE i \in bad /\ binary[i] = NoBinary

\* An evaluation that writes its report has counted every harness once, each a
\* pass or a divergence, and those that were excluded are divergences.  The one
\* that ends without a report counts none of its harnesses, not as compile_fail
\* either, and ends so only when not one of them could ever run.
EveryHarnessCounted ==
  /\ phase = "reported" =>
       /\ agg = Count
       /\ passed \cup divergences = Ids /\ passed \cap divergences = {}
       /\ \A i \in Ids : fate[i] # "sound" => i \in divergences
  /\ phase = "nothing" =>
       /\ agg = 0 /\ passed = {} /\ divergences = {}
       /\ \A i \in Ids : fate[i] # "sound"

=============================================================================

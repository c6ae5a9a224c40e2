----------------------------- MODULE PruneTests -----------------------------
(***************************************************************************)
(* prune_tests of cp_harness: the cases on which the reference solution     *)
(* fails move from tests.json to excluded.json.  The two files are written  *)
(* in place, one after the other: each is truncated, then filled.  The       *)
(* command may be killed anywhere and run again.                            *)
(***************************************************************************)
EXTENDS ReferenceBatch, Functions, Ordering

CONSTANTS
  Unparsable,  \* cases whose input parse_test_input rejects
  MaxPasses    \* how often the command runs (bounds the model)

ASSUME PruneAssumption == Unparsable \subseteq Cases /\ MaxPasses \in Nat

VARIABLES
  tests,     \* the list tests.json was last filled with
  excluded,  \* the cases excluded.json was last filled with
  cut,       \* the files that hold less than that, and are not JSON any more
  hit,       \* (history) the files a kill fell into the write of
  reasons,   \* the cases of this pass that are out of spec
  passes     \* passes begun

files == <<tests, excluded, cut, hit>>
\* While it writes a file the parent bears its name.
Files == {"tests.json", "excluded.json"}
vars == <<batchVars, files, reasons, passes>>

Init ==
  /\ BInit
  /\ tests = InOrder(Cases) /\ excluded = {} /\ cut = {} /\ hit = {}
  /\ reasons = {} /\ passes = 0

\* What is left of a list of cases, in its order, without those of R.
Without(list, R) ==
  LET kept == InOrder({k \in DOMAIN list : list[k] \notin R})
  IN  [n \in DOMAIN kept |-> list[kept[n]]]

\* The pass reads tests.json, parses what it can and judges the rest.
Read ==
  /\ passes < MaxPasses /\ "tests.json" \notin cut
  /\ Begin(Without(tests, Unparsable))
  /\ reasons' = {c \in Range(tests) : c \in Unparsable}
  /\ passes' = passes + 1
  /\ UNCHANGED files

\* json.loads raises on a file that was cut off, and the command with it.
ReadRaises ==
  /\ passes < MaxPasses /\ parent = "idle" /\ "tests.json" \in cut
  /\ passes' = passes + 1
  /\ UNCHANGED <<batchVars, files, reasons>>

\* Mutant: the reasons are looked up by the place in the parsed list.
RejectedByPlace == {k \in DOMAIN results : ~results[k].ok}

Rejected == {batch[k] : k \in {j \in DOMAIN results : ~results[j].ok}}

Opening(file) == parent' = file /\ cut' = cut \cup {file}
Filled(file) == parent = file /\ cut' = cut \ {file}

\* Nothing is written unless some case is rejected; opening tests.json empties it.
OpenTests ==
  LET all == reasons \cup Rejected IN
  /\ parent = "judged"
  /\ reasons' = all
  /\ IF all = {} THEN parent' = "idle" /\ UNCHANGED cut ELSE Opening("tests.json")
  /\ UNCHANGED <<kind, batch, at, results, child, pipe, forks, tests, excluded, hit, passes>>

\* tests.json without the rejected cases.
WriteTests ==
  /\ Filled("tests.json")
  /\ tests' = Without(tests, reasons)
  /\ parent' = "written"
  /\ UNCHANGED <<kind, batch, at, results, child, pipe, forks, excluded, hit, reasons, passes>>

OpenExcluded ==
  /\ parent = "written" /\ Opening("excluded.json")
  /\ UNCHANGED <<kind, batch, at, results, child, pipe, forks, tests, excluded, hit, reasons, passes>>

\* excluded.json holds the cases of this pass only.
WriteExcluded ==
  /\ Filled("excluded.json")
  /\ excluded' = reasons
  /\ parent' = "idle"
  /\ UNCHANGED <<kind, batch, at, results, child, pipe, forks, tests, hit, reasons, passes>>

\* The command is killed wherever it is, and its child with it; a file it was
\* writing stays cut off.
Interrupt ==
  /\ parent # "idle"
  /\ parent' = "idle" /\ child' = NoChild /\ pipe' = <<>>
  /\ batch' = <<>> /\ results' = <<>> /\ at' = 1 /\ forks' = 0
  /\ hit' = hit \cup (Files \cap {parent})
  /\ UNCHANGED <<kind, tests, excluded, cut, reasons, passes>>

Step ==
  \/ Read \/ ReadRaises
  \/ Batch /\ UNCHANGED <<files, reasons, passes>>
  \/ OpenTests \/ WriteTests \/ OpenExcluded \/ WriteExcluded
Next == Step \/ (Child /\ UNCHANGED <<files, reasons, passes>>) \/ Interrupt

\* The parent's waits have deadlines; the child computes unless its case hangs.
Spec ==
  /\ Init /\ [][Next]_vars
  /\ WF_vars(Step) /\ WF_vars(Child /\ UNCHANGED <<files, reasons, passes>>)
-----------------------------------------------------------------------------
\* Every variable is in its range.
TypeOK ==
  /\ BatchTypeOK
  /\ tests \in Seq(Cases) /\ excluded \subseteq Cases /\ reasons \subseteq Cases
  /\ cut \subseteq Files /\ hit \subseteq Files
  /\ passes \in 0..MaxPasses

\* A case the reference answers in time is never pruned, however many of its
\* neighbours kill the child and wherever the command was killed, unless a kill fell
\* into the write of tests.json itself.  A file is cut off in no other way; the kept
\* cases keep their order, and those in excluded.json are there for a cause and not
\* in tests.json.
GoodCasesStay ==
  /\ \A f \in cut : parent = f \/ f \in hit
  /\ "tests.json" \notin cut =>
       /\ \A c \in Cases \ Unparsable : kind[c] = "value" => c \in Range(tests)
       /\ \A j, k \in DOMAIN tests : j < k => tests[j] < tests[k]
       /\ \A c \in excluded : c \notin Range(tests)
  /\ "excluded.json" \notin cut => \A c \in excluded : c \in Unparsable \/ kind[c] # "value"

\* The command ends: every case of the batch is judged, whatever the reference
\* does.
Ends == (parent # "idle") ~> (parent = "idle")

\* "Move constraint-violating test cases out of tests.json into excluded.json ...
\* Idempotent": no case is lost from both files while no pass is under way.
CasesStayOnRecord ==
  parent = "idle" =>
    \A c \in Cases :
      \/ "tests.json" \notin cut /\ c \in Range(tests)
      \/ "excluded.json" \notin cut /\ c \in excluded
=============================================================================

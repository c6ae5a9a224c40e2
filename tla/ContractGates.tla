--------------------------- MODULE ContractGates ----------------------------
(***************************************************************************)
(* One check of a contracted program (check_unit): the static gate in the   *)
(* parent, then in a child the reference oracle, the run of the candidate   *)
(* on every recorded input, and the mutants its contracts must reject.      *)
(***************************************************************************)
EXTENDS Integers, Sequences

CONSTANTS
  Inputs,       \* number of recorded inputs (test_limit)
  Mutants,      \* number of mutants, those that do not load included
  TestBudget,   \* inputs each mutant runs on (mutation_tests)
  MaxProblems,  \* a call after which there are so many problems is the last
  Mutates       \* the programs change the lists they are passed

ASSUME GatesAssumption ==
  /\ Inputs \in Nat /\ Mutants \in Nat /\ TestBudget \in Nat /\ MaxProblems \in Nat \ {0}
  /\ Mutates \in BOOLEAN

VARIABLES
  gate,    \* the gate the check is at
  static,  \* what the static gate found, with the strength of the Ensures
  child,   \* the state of the child process
  report   \* the verdict of the last check

gateVars == <<gate, static, child, report>>

\* n, m: the input and the mutant at hand.  args, usable: the oracle's, args
\* holding how often each input list was changed, or Unparsable.  read: the list
\* the last candidate call was passed and the one its Ensures read.  verdict, met:
\* the verdict on the mutant at hand, and (history) its outcomes so far.  stop: the
\* loop over the inputs was left.
NewChild ==
  [n |-> 1, m |-> 1, args |-> <<>>, usable |-> <<>>, nOk |-> 0, problems |-> 0, stop |-> FALSE,
   read |-> <<0, 0>>, verdict |-> "equivalent", met |-> {}, killed |-> 0, survived |-> 0]
Unparsable == -1

NoScore == <<0, 0>>  \* no effective mutant: score None
Statics ==  \* a file that does not parse has no Ensures
  [found : {"syntax"}, strength : {0}, warnings : {0}]
    \cup [found : {"error", "clean"}, strength : 0..1, warnings : 0..1]
Report(dyn, score) ==
  [pass |-> static.found = "clean" /\ dyn, dynamic |-> dyn, static |-> static, score |-> score]
NoReport == [pass |-> FALSE, dynamic |-> FALSE,
             static |-> [found |-> "syntax", strength |-> 0, warnings |-> 0], score |-> NoScore]

GInit ==
  /\ gate = "idle" /\ static = NoReport.static
  /\ child = NewChild /\ report = NoReport

\* The child has exited, and the parent returns the report.
Finish(r) == gate' = "idle" /\ report' = r /\ child' = NewChild /\ UNCHANGED static
Continue == UNCHANGED <<gate, static, report>>

\* The parent's gates; a syntax error needs no child.
Static(found) ==
  /\ gate = "static"
  /\ static' = found
  /\ IF found.found = "syntax"
       THEN gate' = "idle" /\ report' = [NoReport EXCEPT !.static = found]
       ELSE gate' = "oracle" /\ UNCHANGED report
  /\ UNCHANGED child

\* A timeout of the whole child, a crash, no verdict on its output, a reference
\* that does not load: all gates of the child are lost.
ChildFails ==
  /\ gate \in {"oracle", "verify", "mutants"}
  /\ Finish(Report(FALSE, NoScore))

\* build_oracle: parse, and run the reference on what can be parsed.
Oracle(outcome) ==
  /\ gate = "oracle" /\ child.n <= Inputs
  /\ child' = [child EXCEPT
       !.n = @ + 1,
       !.args = Append(@, IF outcome = "unparsable" THEN Unparsable ELSE IF Mutates THEN 1 ELSE 0),
       !.usable = IF outcome = "value" THEN Append(@, child.n) ELSE @]
  /\ Continue

OracleDone ==
  /\ gate = "oracle" /\ child.n > Inputs
  /\ gate' = "verify" /\ child' = [child EXCEPT !.n = 1]
  /\ UNCHANGED <<static, report>>

\* A call changes the list it is passed: dict(args) copies the bindings only.
Called(i) == [child.args EXCEPT ![i] = @ + (IF Mutates THEN 1 ELSE 0)]

\* A call of the candidate on input n.  It is good when no contract fires, its
\* value is the reference's or the recorded one, and every Ensures holds.
CandidateCall(good) ==
  LET i == child.n
      problems == IF good THEN child.problems ELSE child.problems + 1
  IN  child' = [child EXCEPT
        !.n = i + 1, !.args = Called(i), !.read = <<child.args[i], Called(i)[i]>>,
        !.nOk = IF good THEN @ + 1 ELSE @, !.problems = problems, !.stop = problems >= MaxProblems]

\* verify: an input that cannot be parsed is a problem too, and its `continue`
\* passes the limit by.
Candidate(good) ==
  /\ gate = "verify" /\ child.n <= Inputs /\ ~child.stop
  /\ IF child.args[child.n] = Unparsable
       THEN child' = [child EXCEPT !.n = @ + 1, !.problems = @ + 1]
       ELSE CandidateCall(good)
  /\ Continue

Verified ==
  LET ok == child.problems = 0 /\ child.nOk > 0 IN
  /\ gate = "verify" /\ (child.n > Inputs \/ child.stop)
  /\ IF ok /\ Mutants > 0
       THEN gate' = "mutants" /\ child' = [child EXCEPT !.n = 1] /\ UNCHANGED <<static, report>>
       ELSE Finish(Report(ok, NoScore))

\* The inputs mutants run on: those with a reference value, or else the first.
Index ==
  LET all == IF child.usable # <<>> THEN child.usable ELSE [i \in 1..Inputs |-> i]
  IN  SubSeq(all, 1, IF Len(all) < TestBudget THEN Len(all) ELSE TestBudget)

\* Mutant: what the last input showed stands.
JudgeLast(what) ==
  CASE what = "rejected" -> "killed"
    [] what = "wrong" -> "survived"
    [] what = "crash" -> "crashed"
    [] what = "right" -> child.verdict

\* One outcome of a mutant: a contract rejects it (an Ensures that cannot be
\* evaluated too), it returns a wrong or the right value, it raises or hangs.
Judge(what) ==
  CASE what = "rejected" -> "killed"
    [] what = "wrong" -> "survived"
    [] what = "crash" /\ child.verdict = "equivalent" -> "crashed"
    [] OTHER -> child.verdict

\* Some inputs are left to the mutant at hand; a killed one runs no further.
MutantRuns ==
  gate = "mutants" /\ child.m <= Mutants /\ child.n <= Len(Index) /\ child.verdict # "killed"

MutantRun(what) ==
  /\ MutantRuns
  /\ LET i == Index[child.n] IN
     child' = IF child.args[i] = Unparsable
                THEN [child EXCEPT !.n = @ + 1]
                ELSE [child EXCEPT !.n = @ + 1, !.args = Called(i),
                                   !.verdict = Judge(what), !.met = @ \cup {what}]
  /\ Continue

\* The next mutant; one that does not load counts neither way.
NextMutant == [child EXCEPT !.m = @ + 1, !.n = 1, !.verdict = "equivalent", !.met = {}]

MutantBroken ==
  /\ MutantRuns /\ child.n = 1
  /\ child' = NextMutant
  /\ Continue

MutantJudged ==
  /\ gate = "mutants" /\ child.m <= Mutants /\ ~MutantRuns
  /\ child' = [NextMutant EXCEPT
       !.killed = @ + (IF child.verdict = "killed" THEN 1 ELSE 0),
       !.survived = @ + (IF child.verdict = "survived" THEN 1 ELSE 0)]
  /\ Continue

Scored ==
  /\ gate = "mutants" /\ child.m > Mutants
  /\ Finish(Report(TRUE, <<child.killed, child.killed + child.survived>>))

Check ==
  \/ \E s \in Statics : Static(s)
  \/ ChildFails
  \/ \E o \in {"value", "fails", "unparsable"} : Oracle(o)
  \/ OracleDone
  \/ \E good \in BOOLEAN : Candidate(good)
  \/ Verified
  \/ \E w \in {"rejected", "wrong", "right", "crash"} : MutantRun(w)
  \/ MutantBroken \/ MutantJudged \/ Scored
-----------------------------------------------------------------------------
Reports ==
  [pass : BOOLEAN, dynamic : BOOLEAN, static : Statics, score : (0..Mutants) \X (0..Mutants)]

\* Every variable of a check is in its range.
GatesTypeOK ==
  /\ gate \in {"idle", "static", "oracle", "verify", "mutants"}
  /\ static \in Statics
  /\ child.n \in 1..(Inputs + 1) /\ child.m \in 1..(Mutants + 1)
  /\ Len(child.args) <= Inputs /\ \A i \in 1..Len(child.usable) : child.usable[i] \in 1..Inputs
  /\ {child.nOk, child.problems} \subseteq 0..Inputs
  /\ child.verdict \in {"killed", "survived", "crashed", "equivalent"}
  /\ report \in Reports

\* The verdict on a mutant depends on what it did on its inputs and not on their
\* order: one rejection kills it, else one wrong answer makes it a survivor, else one
\* crash puts it out of the score, and only one that was always right is equivalent.
VerdictAsDefined ==
  child.verdict =
    IF "rejected" \in child.met THEN "killed"
    ELSE IF "wrong" \in child.met THEN "survived"
    ELSE IF "crash" \in child.met THEN "crashed"
    ELSE "equivalent"

\* "a parameter the body mutates must read as it was PASSED": the Ensures of a
\* candidate read the inputs the call was made with.
EnsuresReadWhatWasPassed == child.read[1] = child.read[2]
=============================================================================

------------------------ MODULE ContractRepairProofs ------------------------
(***************************************************************************)
(* Machine-checked facts about the checks of a contracted program and about *)
(* the loop that repairs its contracts, for any number of inputs, mutants   *)
(* and attempts, any thresholds, and programs that change their arguments   *)
(* or do not.                                                               *)
(***************************************************************************)
EXTENDS ContractRepair, SequenceTheorems, TLAPS

Gates == {"idle", "static", "oracle", "verify", "mutants"}
OfMutant == {"killed", "survived", "crashed", "equivalent"}
OfInput == {"rejected", "wrong", "right", "crash"}

\* The child's variables, as a record.
Children ==
  [n : 1..(Inputs + 1), m : 1..(Mutants + 1), args : Seq(Int), usable : Seq(1..Inputs),
   nOk : 0..Inputs, problems : 0..Inputs, stop : BOOLEAN, read : Int \X Int,
   verdict : OfMutant, met : SUBSET OfInput, killed : 0..Mutants, survived : 0..Mutants]

\* How far the child is: what it knows of the inputs, and what it counted.
Progress ==
  /\ gate \in {"idle", "static"} => child = NewChild
  /\ gate = "oracle" => Len(child.args) = child.n - 1 /\ Len(child.usable) < child.n
  /\ gate \in {"verify", "mutants"} => Len(child.args) = Inputs /\ Len(child.usable) <= Inputs
  /\ gate \in {"oracle", "verify"} => child.m = 1 /\ child.killed = 0 /\ child.survived = 0
  /\ gate = "oracle" => child.nOk = 0 /\ child.problems = 0
  /\ gate = "verify" => child.nOk < child.n /\ child.problems < child.n
  /\ child.killed + child.survived < child.m

\* A report passes when its file is clean and its child found no fault; its score
\* is a part of the effective mutants.
ReportOK(r) ==
  /\ r \in Reports
  /\ r.pass <=> r.static.found = "clean" /\ r.dynamic
  /\ r.score[1] <= r.score[2]

GatesInv ==
  /\ gate \in Gates /\ static \in Statics
  /\ child \in Children /\ Progress /\ ReportOK(report)
-----------------------------------------------------------------------------
LEMMA NewChildOK == NewChild \in Children /\ NewChild.killed + NewChild.survived < NewChild.m
  BY GatesAssumption, EmptySeq DEF NewChild, Children, OfMutant, OfInput

LEMMA FirstReportOK == ReportOK(NoReport) /\ NoReport.static \in Statics
  <1>1. NoReport \in Reports /\ NoReport.static \in Statics
    BY GatesAssumption DEF NoReport, Reports, Statics, NoScore
  <1>2. NoReport.pass = FALSE /\ NoReport.static.found = "syntax" /\ NoReport.score = <<0, 0>>
    BY DEF NoReport, NoScore
  <1>3. QED
    BY <1>1, <1>2 DEF ReportOK

LEMMA SyntaxReportOK ==
  ASSUME NEW s \in Statics, s.found = "syntax"
  PROVE  ReportOK([NoReport EXCEPT !.static = s])
  <1> DEFINE r == [NoReport EXCEPT !.static = s]
  <1>1. NoReport \in Reports
    BY FirstReportOK DEF ReportOK
  <1>2. r \in Reports /\ r.pass = NoReport.pass /\ r.static = s /\ r.score = NoReport.score
    BY <1>1 DEF Reports
  <1>3. NoReport.pass = FALSE /\ NoReport.score = <<0, 0>>
    BY DEF NoReport, NoScore
  <1> HIDE DEF r
  <1>4. ReportOK(r)
    BY <1>2, <1>3 DEF ReportOK
  <1>5. QED
    BY <1>4 DEF r

LEMMA ReportsOK ==
  ASSUME static \in Statics, NEW dyn \in BOOLEAN, NEW score \in (0..Mutants) \X (0..Mutants),
         score[1] <= score[2]
  PROVE  ReportOK(Report(dyn, score))
  BY DEF Report, ReportOK, Reports, Statics

LEMMA NoScoreOK == NoScore \in (0..Mutants) \X (0..Mutants) /\ NoScore[1] <= NoScore[2]
  BY GatesAssumption DEF NoScore

LEMMA FinishOK ==
  ASSUME GatesInv, NEW r, ReportOK(r), Finish(r)
  PROVE  GatesInv'
  <1>1. gate' = "idle" /\ child' = NewChild /\ report' = r /\ static' = static
    BY DEF Finish
  <1>2. Progress'
    BY <1>1, NewChildOK DEF Progress
  <1>3. ReportOK(report)'
    BY <1>1 DEF ReportOK, Reports
  <1>4. QED
    BY <1>1, <1>2, <1>3, NewChildOK DEF GatesInv, Gates, Statics, Children

\* A step inside the child leaves the report alone.
LEMMA InsideOK ==
  ASSUME GatesInv, UNCHANGED <<static, report>>, gate' \in Gates, child' \in Children, Progress'
  PROVE  GatesInv'
  <1>1. ReportOK(report)'
    BY DEF GatesInv, ReportOK, Reports
  <1>2. QED
    BY <1>1 DEF GatesInv, Gates, Statics, Children

\* A mutant runs on inputs of the record, and there are no more of them.
LEMMA IndexOK ==
  ASSUME child \in Children, Len(child.usable) <= Inputs
  PROVE  /\ Len(Index) \in 0..Inputs
         /\ \A k \in 1..Len(Index) : Index[k] \in 1..Inputs
  <1> DEFINE first == [i \in 1..Inputs |-> i]
             all == IF child.usable # <<>> THEN child.usable ELSE first
             upto == IF Len(all) < TestBudget THEN Len(all) ELSE TestBudget
  <1>1. first \in Seq(1..Inputs) /\ Len(first) = Inputs
    BY GatesAssumption
  <1>2. child.usable \in Seq(1..Inputs) /\ Len(child.usable) \in 0..Inputs
    BY LenProperties, GatesAssumption DEF Children
  <1> HIDE DEF first
  <1>3. all \in Seq(1..Inputs) /\ Len(all) \in 0..Inputs
    BY <1>1, <1>2, GatesAssumption
  <1>4. Index = SubSeq(all, 1, upto)
    BY DEF Index, first
  <1> HIDE DEF all
  <1>5. upto \in 0..Len(all) /\ upto \in 0..Inputs
    BY <1>3, GatesAssumption
  <1> HIDE DEF upto
  <1>6. \A i \in 1..upto : i \in 1..Len(all)
    BY <1>3, <1>5
  <1>7. \A i \in 1..upto : all[i] \in 1..Inputs
    BY <1>3, <1>6, ElementOfSeq
  <1>8. /\ Len(SubSeq(all, 1, upto)) = IF 1 <= upto THEN upto - 1 + 1 ELSE 0
        /\ \A i \in 1..(upto - 1 + 1) : SubSeq(all, 1, upto)[i] = all[1 + i - 1]
    BY <1>5, <1>7, SubSeqProperties
  <1>9. upto - 1 + 1 = upto /\ \A i \in 1..upto : 1 + i - 1 = i
    BY <1>5
  <1>10. QED
    BY <1>4, <1>5, <1>7, <1>8, <1>9

LEMMA CalledOK ==
  ASSUME child \in Children, NEW i \in 1..Len(child.args)
  PROVE  /\ Called(i) \in Seq(Int) /\ Len(Called(i)) = Len(child.args)
         /\ child.args[i] \in Int /\ Called(i)[i] \in Int
  <1>1. child.args \in Seq(Int)
    BY DEF Children
  <1>2. child.args[i] \in Int
    BY <1>1, ElementOfSeq
  <1> DEFINE e == child.args[i] + (IF Mutates THEN 1 ELSE 0)
  <1>3. e \in Int
    BY <1>2
  <1>4. Called(i) = [child.args EXCEPT ![i] = e]
    BY DEF Called
  <1> HIDE DEF e
  <1>5. QED
    BY <1>1, <1>2, <1>3, <1>4, ExceptSeq

LEMMA GInitOK == GInit => GatesInv
  BY NewChildOK, FirstReportOK DEF GInit, GatesInv, Progress, Gates

\* A check keeps its variables in range and in step with its progress.
LEMMA CheckOK == ASSUME GatesInv, Check PROVE GatesInv'
  <1> USE GatesAssumption DEF Gates
  <1>1. child \in Children /\ Progress
    BY DEF GatesInv
  <1>2. /\ child.n \in 1..(Inputs + 1) /\ child.m \in 1..(Mutants + 1)
         /\ child.args \in Seq(Int) /\ child.usable \in Seq(1..Inputs)
         /\ child.nOk \in 0..Inputs /\ child.problems \in 0..Inputs
         /\ child.killed \in 0..Mutants /\ child.survived \in 0..Mutants
    BY <1>1 DEF Children
  <1>3. Len(child.args) \in Nat /\ Len(child.usable) \in Nat
    BY <1>2, LenProperties
  <1>4. ASSUME NEW s \in Statics, Static(s) PROVE GatesInv'
    <2>1. child = NewChild /\ child' = NewChild /\ static' = s
      BY <1>4 DEF Static, GatesInv, Progress
    <2>2. CASE s.found = "syntax"
      <3>1. gate' = "idle" /\ report' = [NoReport EXCEPT !.static = s]
        BY <1>4, <2>2 DEF Static
      <3>2. ReportOK(report)'
        BY <2>2, <3>1, SyntaxReportOK DEF ReportOK, Reports
      <3>3. Progress'
        BY <2>1, <3>1, NewChildOK DEF Progress
      <3>4. QED
        BY <2>1, <3>1, <3>2, <3>3, NewChildOK DEF GatesInv, Statics, Children
    <2>3. CASE s.found # "syntax"
      <3>1. gate' = "oracle" /\ report' = report
        BY <1>4, <2>3 DEF Static
      <3>2. ReportOK(report)'
        BY <3>1 DEF GatesInv, ReportOK, Reports
      <3>3. Progress'
        BY <2>1, <3>1 DEF Progress, NewChild
      <3>4. QED
        BY <2>1, <3>1, <3>2, <3>3, NewChildOK DEF GatesInv, Statics, Children
    <2>4. QED
      BY <2>2, <2>3
  <1>5. CASE ChildFails
    <2>1. ReportOK(Report(FALSE, NoScore))
      BY NoScoreOK, ReportsOK DEF GatesInv
    <2>2. QED
      BY <1>5, <2>1, FinishOK DEF ChildFails
  <1>6. ASSUME NEW o \in {"value", "fails", "unparsable"}, Oracle(o) PROVE GatesInv'
    <2> DEFINE a == IF o = "unparsable" THEN Unparsable ELSE IF Mutates THEN 1 ELSE 0
               u == IF o = "value" THEN Append(child.usable, child.n) ELSE child.usable
               n == child.n + 1
    <2>1. gate = "oracle" /\ gate' = "oracle" /\ UNCHANGED <<static, report>>
          /\ child' = [child EXCEPT !.n = n, !.args = Append(child.args, a), !.usable = u]
      BY <1>6 DEF Oracle, Continue
    <2>2. child.args \in Seq(Int) /\ a \in Int
      BY <1>1 DEF Children, Unparsable
    <2>3. child.usable \in Seq(1..Inputs) /\ child.n \in 1..Inputs
      BY <1>1, <1>6 DEF Children, Oracle
    <2>4. Append(child.args, a) \in Seq(Int) /\ Len(Append(child.args, a)) = Len(child.args) + 1
      BY <2>2, AppendProperties
    <2>5. /\ Append(child.usable, child.n) \in Seq(1..Inputs)
          /\ Len(Append(child.usable, child.n)) = Len(child.usable) + 1
      BY <2>3, AppendProperties
    <2>6. u \in Seq(1..Inputs) /\ Len(u) \in {Len(child.usable), Len(child.usable) + 1}
      BY <2>3, <2>5
    <2>7. n \in 1..(Inputs + 1)
      BY <2>3
    <2> HIDE DEF a, u
    <2>8. n = child.n + 1
      OBVIOUS
    <2> HIDE DEF n
    <2>9. child' \in Children
      BY <1>1, <2>1, <2>4, <2>6, <2>7 DEF Children
    <2>10. child'.n = n /\ child'.args = Append(child.args, a) /\ child'.usable = u
          /\ child'.m = child.m /\ child'.nOk = child.nOk /\ child'.problems = child.problems
          /\ child'.killed = child.killed /\ child'.survived = child.survived
      BY <1>1, <2>1 DEF Children
    <2>11. Len(child.args) = child.n - 1 /\ Len(child.usable) < child.n /\ child.problems = 0
           /\ child.m = 1 /\ child.killed = 0 /\ child.survived = 0 /\ child.nOk = 0
      BY <1>1, <2>1 DEF Progress
    <2>12. Len(child'.args) = n - 1
      <3>1. Len(child'.args) = Len(child.args) + 1 /\ Len(child.args) = child.n - 1 /\ child.n \in Int
        BY <1>2, <2>4, <2>10, <2>11
      <3>2. QED
        BY <3>1, <2>8
    <2>13. Len(child'.usable) < n
      <3>1. Len(child'.usable) \in {Len(child.usable), Len(child.usable) + 1}
            /\ Len(child.usable) < child.n /\ Len(child.usable) \in Int /\ child.n \in Int
        BY <1>2, <1>3, <2>6, <2>10, <2>11
      <3>2. QED
        BY <3>1, <2>8
    <2>14. Progress'
      BY <2>1, <2>10, <2>11, <2>12, <2>13 DEF Progress
    <2>15. QED
      BY <2>1, <2>9, <2>14, InsideOK
  <1>7. CASE OracleDone
    <2>1. gate = "oracle" /\ gate' = "verify" /\ UNCHANGED <<static, report>>
          /\ child' = [child EXCEPT !.n = 1]
      BY <1>7 DEF OracleDone
    <2>2. child.n = Inputs + 1 /\ 1 \in 1..(Inputs + 1)
      <3>1. child.n \in 1..(Inputs + 1) /\ child.n > Inputs /\ Inputs \in Nat
        BY <1>2, <1>7 DEF OracleDone
      <3>2. QED
        BY <3>1
    <2>3. child' \in Children
      BY <1>1, <2>1, <2>2 DEF Children
    <2>4. child'.n = 1 /\ child'.args = child.args /\ child'.usable = child.usable
          /\ child'.m = child.m /\ child'.nOk = child.nOk /\ child'.problems = child.problems
          /\ child'.killed = child.killed /\ child'.survived = child.survived
      BY <1>1, <2>1 DEF Children
    <2>5. Progress'
      BY <1>1, <1>3, <2>1, <2>2, <2>4 DEF Progress
    <2>6. QED
      BY <2>1, <2>3, <2>5, InsideOK
  <1>8. ASSUME NEW holds \in BOOLEAN, Candidate(holds) PROVE GatesInv'
    <2> DEFINE i == child.n
               n == child.n + 1
               ok == IF holds THEN child.nOk + 1 ELSE child.nOk
               bad == IF holds THEN child.problems ELSE child.problems + 1
               left == bad >= MaxProblems
               read == <<child.args[i], Called(i)[i]>>
    <2>1. gate = "verify" /\ gate' = "verify" /\ UNCHANGED <<static, report>>
      BY <1>8 DEF Candidate, Continue
    <2>2. i \in 1..Inputs /\ n \in 1..(Inputs + 1)
          /\ child.problems \in 0..child.n - 1 /\ child.nOk \in 0..child.n - 1
      <3>1. child.n <= Inputs
        BY <1>8 DEF Candidate
      <3>2. child.nOk < child.n /\ child.problems < child.n
        BY <1>1, <2>1 DEF Progress
      <3>3. i \in 1..Inputs /\ n \in 1..(Inputs + 1)
        <4>1. child.n \in 1..(Inputs + 1) /\ Inputs \in Nat
          BY <1>2
        <4>2. QED
          BY <3>1, <4>1
      <3>4. child.problems \in 0..Inputs /\ child.nOk \in 0..Inputs /\ child.n \in 1..(Inputs + 1)
        BY <1>2
      <3>5. child.problems \in 0..child.n - 1 /\ child.nOk \in 0..child.n - 1
        BY <3>2, <3>4
      <3>6. QED
        BY <3>3, <3>5
    <2>3. CASE child.args[i] = Unparsable
      <3> DEFINE more == child.problems + 1
      <3>1. child' = [child EXCEPT !.n = n, !.problems = more]
        BY <1>8, <2>3 DEF Candidate
      <3>2. n = child.n + 1 /\ more \in 0..Inputs /\ more < n
        BY <2>2
      <3> HIDE DEF i, n, more
      <3>3. child' \in Children
        BY <1>1, <2>2, <3>1, <3>2 DEF Children
      <3>4. child'.n = n /\ child'.args = child.args /\ child'.usable = child.usable
            /\ child'.m = child.m /\ child'.nOk = child.nOk /\ child'.problems = more
            /\ child'.killed = child.killed /\ child'.survived = child.survived
        BY <1>1, <3>1 DEF Children
      <3>5. Progress'
        BY <1>1, <1>2, <2>1, <2>2, <3>2, <3>4 DEF Progress
      <3>6. QED
        BY <2>1, <3>3, <3>5, InsideOK
    <2>4. CASE child.args[i] # Unparsable
      <3>1. Called(i) \in Seq(Int) /\ Len(Called(i)) = Inputs /\ read \in Int \X Int
        BY <1>1, <2>1, <2>2, CalledOK DEF Progress
      <3>2. ok \in 0..i /\ ok \in 0..Inputs /\ bad \in 0..i /\ bad \in 0..Inputs
        <4>1. ok \in {child.nOk, child.nOk + 1} /\ bad \in {child.problems, child.problems + 1}
          OBVIOUS
        <4>2. {child.nOk, child.nOk + 1} \subseteq 0..i /\ {child.nOk, child.nOk + 1} \subseteq 0..Inputs
          BY <2>2
        <4>3. {child.problems, child.problems + 1} \subseteq 0..i
              /\ {child.problems, child.problems + 1} \subseteq 0..Inputs
          BY <2>2
        <4>4. QED
          BY <4>1, <4>2, <4>3
      <3>3. child' = [child EXCEPT !.n = n, !.args = Called(i), !.read = read, !.nOk = ok,
                                   !.problems = bad, !.stop = left]
        BY <1>8, <2>4 DEF Candidate, CandidateCall
      <3>4. n = child.n + 1 /\ i = child.n /\ left \in BOOLEAN
        OBVIOUS
      <3> HIDE DEF i, n, ok, bad, left, read
      <3>5. child' \in Children
        BY <1>1, <2>2, <3>1, <3>2, <3>3, <3>4 DEF Children
      <3>6. child'.n = n /\ child'.args = Called(i) /\ child'.usable = child.usable
            /\ child'.m = child.m /\ child'.nOk = ok /\ child'.problems = bad
            /\ child'.killed = child.killed /\ child'.survived = child.survived
        BY <1>1, <3>3 DEF Children
      <3>7. Progress'
        <4>1. ok < n /\ bad < n
          BY <3>2, <3>4, <2>2
        <4>2. QED
          BY <1>1, <2>1, <3>1, <3>6, <4>1 DEF Progress
      <3>8. QED
        BY <2>1, <3>5, <3>7, InsideOK
    <2>5. QED
      BY <2>3, <2>4
  <1>9. CASE Verified
    <2> DEFINE ok == child.problems = 0 /\ child.nOk > 0
    <2>1. CASE ok /\ Mutants > 0
      <3>1. gate = "verify" /\ gate' = "mutants" /\ UNCHANGED <<static, report>>
            /\ child' = [child EXCEPT !.n = 1]
        BY <1>9, <2>1 DEF Verified
      <3>2. 1 \in 1..(Inputs + 1)
        OBVIOUS
      <3>3. child' \in Children
        BY <1>1, <3>1, <3>2 DEF Children
      <3>4. child'.n = 1 /\ child'.args = child.args /\ child'.usable = child.usable
            /\ child'.m = child.m /\ child'.killed = child.killed /\ child'.survived = child.survived
        BY <1>1, <3>1 DEF Children
      <3>5. Progress'
        BY <1>1, <3>1, <3>4 DEF Progress
      <3>6. QED
        BY <3>1, <3>3, <3>5, InsideOK
    <2>2. CASE ~(ok /\ Mutants > 0)
      <3>1. ReportOK(Report(ok, NoScore))
        BY NoScoreOK, ReportsOK DEF GatesInv
      <3>2. QED
        BY <1>9, <2>2, <3>1, FinishOK DEF Verified
    <2>3. QED
      BY <2>1, <2>2
  <1>10. ASSUME NEW w \in OfInput, MutantRun(w) PROVE GatesInv'
    <2> DEFINE i == Index[child.n]
               n == child.n + 1
    <2>1. gate = "mutants" /\ gate' = "mutants" /\ UNCHANGED <<static, report>>
          /\ child.n <= Len(Index)
      BY <1>10 DEF MutantRun, MutantRuns, Continue
    <2>2. child.n \in 1..Len(Index) /\ Len(Index) \in 0..Inputs /\ i \in 1..Inputs
      <3>1. Len(child.usable) <= Inputs
        BY <1>1, <2>1 DEF Progress
      <3>2. Len(Index) \in 0..Inputs /\ \A k \in 1..Len(Index) : Index[k] \in 1..Inputs
        BY <1>1, <3>1, IndexOK
      <3>3. QED
        BY <1>2, <2>1, <3>2
    <2>3. n \in 1..(Inputs + 1)
      BY <2>2
    <2>4. Called(i) \in Seq(Int) /\ Len(Called(i)) = Inputs
      BY <1>1, <2>1, <2>2, CalledOK DEF Progress
    <2>5. Judge(w) \in OfMutant
      BY <1>1 DEF Judge, OfInput, OfMutant, Children
    <2>6. CASE child.args[i] = Unparsable
      <3>1. child' = [child EXCEPT !.n = n]
        BY <1>10, <2>6 DEF MutantRun
      <3> HIDE DEF i, n
      <3>2. child' \in Children
        BY <1>1, <2>3, <3>1 DEF Children
      <3>3. child'.args = child.args /\ child'.usable = child.usable
            /\ child'.m = child.m /\ child'.killed = child.killed /\ child'.survived = child.survived
        BY <1>1, <3>1 DEF Children
      <3>4. Progress'
        BY <1>1, <2>1, <3>3 DEF Progress
      <3>5. QED
        BY <2>1, <3>2, <3>4, InsideOK
    <2>7. CASE child.args[i] # Unparsable
      <3> DEFINE met == child.met \cup {w}
      <3>1. child' = [child EXCEPT !.n = n, !.args = Called(i), !.verdict = Judge(w), !.met = met]
        BY <1>10, <2>7 DEF MutantRun
      <3>2. met \in SUBSET OfInput
        BY <1>1 DEF Children
      <3> HIDE DEF i, n, met
      <3>3. child' \in Children
        BY <1>1, <2>3, <2>4, <2>5, <3>1, <3>2 DEF Children
      <3>4. child'.args = Called(i) /\ child'.usable = child.usable
            /\ child'.m = child.m /\ child'.killed = child.killed /\ child'.survived = child.survived
        BY <1>1, <3>1 DEF Children
      <3>5. Progress'
        BY <1>1, <2>1, <2>4, <3>4 DEF Progress
      <3>6. QED
        BY <2>1, <3>3, <3>5, InsideOK
    <2>8. QED
      BY <2>6, <2>7
  <1>11. CASE MutantBroken \/ MutantJudged
    <2> DEFINE k == IF MutantJudged /\ child.verdict = "killed" THEN child.killed + 1 ELSE child.killed
               s == IF MutantJudged /\ child.verdict = "survived" THEN child.survived + 1
                                                                ELSE child.survived
               m == child.m + 1
    <2>1. gate = "mutants" /\ gate' = "mutants" /\ UNCHANGED <<static, report>>
          /\ child.m \in 1..Mutants
      BY <1>1, <1>11 DEF MutantBroken, MutantJudged, MutantRuns, Continue, Children
    <2>2. child.killed \in Nat /\ child.survived \in Nat /\ child.killed + child.survived < child.m
      BY <1>1 DEF Children, Progress
    <2>3. k \in 0..Mutants /\ s \in 0..Mutants /\ k + s < m /\ m \in 1..(Mutants + 1)
      BY <2>1, <2>2
    <2>4. child' = [child EXCEPT !.m = m, !.n = 1, !.verdict = "equivalent", !.met = {},
                                 !.killed = k, !.survived = s]
      <3>1. CASE MutantJudged
        <4>1. k = child.killed + (IF child.verdict = "killed" THEN 1 ELSE 0)
              /\ s = child.survived + (IF child.verdict = "survived" THEN 1 ELSE 0)
          BY <2>2, <3>1
        <4>2. NextMutant.killed = child.killed /\ NextMutant.survived = child.survived
          BY <1>1 DEF NextMutant, Children
        <4> HIDE DEF k, s
        <4>3. child' = [NextMutant EXCEPT !.killed = k, !.survived = s]
          BY <3>1, <4>1, <4>2 DEF MutantJudged
        <4>4. QED
          BY <1>1, <4>3 DEF NextMutant, Children
      <3>2. CASE MutantBroken /\ ~MutantJudged
        BY <1>1, <2>2, <3>2 DEF MutantBroken, NextMutant, Children
      <3>3. QED
        BY <1>11, <3>1, <3>2
    <2> HIDE DEF k, s, m
    <2>5. 1 \in 1..(Inputs + 1) /\ "equivalent" \in OfMutant /\ {} \in SUBSET OfInput
      BY DEF OfMutant
    <2>6. child' \in Children
      BY <1>1, <2>3, <2>4, <2>5 DEF Children
    <2>7. child'.args = child.args /\ child'.usable = child.usable
          /\ child'.m = m /\ child'.killed = k /\ child'.survived = s
      BY <1>1, <2>4 DEF Children
    <2>8. Progress'
      BY <1>1, <2>1, <2>3, <2>7 DEF Progress
    <2>9. QED
      BY <2>1, <2>6, <2>8, InsideOK
  <1>12. CASE Scored
    <2> DEFINE score == <<child.killed, child.killed + child.survived>>
    <2>1. score \in (0..Mutants) \X (0..Mutants) /\ score[1] <= score[2]
      <3>1. child.killed \in 0..Mutants /\ child.survived \in 0..Mutants /\ child.m \in 1..(Mutants + 1)
            /\ child.killed + child.survived < child.m
        BY <1>1, <1>2 DEF Progress
      <3>2. QED
        BY <3>1
    <2>2. ReportOK(Report(TRUE, score))
      BY <2>1, ReportsOK DEF GatesInv
    <2>3. QED
      BY <1>12, <2>2, FinishOK DEF Scored
  <1>13. QED
    BY <1>4, <1>5, <1>6, <1>7, <1>8, <1>9, <1>10, <1>11, <1>12 DEF Check, OfInput
-----------------------------------------------------------------------------
\* A score is a part of the effective mutants, or none.
ScoreOK(s) == s \in Nat \X Nat /\ s[1] <= s[2]

\* Products of naturals: a factor may be added on both sides, and taken away.
LEMMA Scale ==
  ASSUME NEW a \in Nat, NEW b \in Nat, NEW k \in Nat, a <= b
  PROVE  a * k <= b * k
  OBVIOUS

LEMMA ScaleStrict ==
  ASSUME NEW a \in Nat, NEW b \in Nat, NEW k \in Nat \ {0}, a < b
  PROVE  a * k < b * k
  OBVIOUS

LEMMA Rearrange ==
  ASSUME NEW a \in Nat, NEW b \in Nat, NEW c \in Nat
  PROVE  (a * b) * c = (a * c) * b /\ a * b \in Nat
  OBVIOUS

\* Of three fractions, if a/b is below e/f, then c/d is above the one or below the other.
LEMMA FractionSplits ==
  ASSUME NEW a \in Nat, NEW b \in Nat \ {0}, NEW c \in Nat, NEW d \in Nat \ {0},
         NEW e \in Nat, NEW f \in Nat \ {0},
         a * f < e * b
  PROVE  a * d < c * b \/ c * f < e * d
  <1> SUFFICES ASSUME c * b <= a * d, e * d <= c * f PROVE FALSE
     BY Rearrange
  <1>1. (c * b) * f <= (a * d) * f
    BY Rearrange, Scale
  <1>2. (e * d) * b <= (c * f) * b
    BY Rearrange, Scale
  <1>3. (a * f) * d < (e * b) * d
    BY Rearrange, ScaleStrict
  <1>4. QED
    BY <1>1, <1>2, <1>3, Rearrange

\* A score that is not None has effective mutants.
LEMMA ScoreCase ==
  ASSUME NEW s, ScoreOK(s), s # NoScore
  PROVE  s[1] \in Nat /\ s[2] \in Nat \ {0}
  <1>1. s[1] \in Nat /\ s[2] \in Nat /\ s = <<s[1], s[2]>> /\ s[1] <= s[2]
    BY DEF ScoreOK
  <1>2. s[2] = 0 => s[1] = 0
    BY <1>1
  <1>3. s[2] # 0
    BY <1>1, <1>2 DEF NoScore
  <1>4. QED
    BY <1>1, <1>3

\* Scores, None among them, are compared by a strict weak order.
LEMMA LessSplits ==
  ASSUME NEW x, NEW y, NEW z, ScoreOK(x), ScoreOK(y), ScoreOK(z), Less(x, z)
  PROVE  Less(x, y) \/ Less(y, z)
  <1>1. z # NoScore
    BY DEF Less
  <1>2. CASE x = NoScore \/ y = NoScore
    BY <1>1, <1>2 DEF Less
  <1>3. CASE x # NoScore /\ y # NoScore
    <2>1. x[1] * z[2] < z[1] * x[2]
      BY <1>1, <1>3 DEF Less
    <2>2. x[1] * y[2] < y[1] * x[2] \/ y[1] * z[2] < z[1] * y[2]
      BY <1>1, <1>3, <2>1, ScoreCase, FractionSplits
    <2>3. QED
      BY <1>1, <1>3, <2>2 DEF Less
  <1>4. QED
    BY <1>2, <1>3

LEMMA LessAsymmetric ==
  ASSUME NEW x, NEW y, ScoreOK(x), ScoreOK(y), Less(x, y)
  PROVE  ~Less(y, x)
  <1>1. y # NoScore
    BY DEF Less
  <1>2. CASE x = NoScore
    BY <1>2 DEF Less
  <1>3. CASE x # NoScore
    <2>1. x[1] * y[2] < y[1] * x[2]
      BY <1>1, <1>3 DEF Less
    <2>2. x[1] * y[2] \in Nat /\ y[1] * x[2] \in Nat
      BY <1>1, <1>3, ScoreCase, Rearrange
    <2>3. ~(y[1] * x[2] < x[1] * y[2])
      BY <2>1, <2>2
    <2>4. QED
      BY <1>1, <1>3, <2>3 DEF Less
  <1>4. QED
    BY <1>2, <1>3

\* What the ranking looks at in a report.
Ranked(r) ==
  /\ r.pass \in BOOLEAN /\ ScoreOK(r.score)
  /\ r.static.strength \in Nat /\ r.static.warnings \in Nat

\* The part of the ranking that is about the text alone.
Weaker(u, v) ==
  \/ u.strength < v.strength
  \/ u.strength = v.strength /\ u.warnings > v.warnings

LEMMA WeakerOrder ==
  ASSUME NEW u, NEW v, NEW w,
         u.strength \in Nat, v.strength \in Nat, w.strength \in Nat,
         u.warnings \in Nat, v.warnings \in Nat, w.warnings \in Nat
  PROVE  /\ ~(Weaker(u, v) /\ Weaker(v, u))
         /\ Weaker(u, w) => Weaker(u, v) \/ Weaker(v, w)
  BY DEF Weaker

LEMMA OutrankedBy ==
  ASSUME NEW r, NEW q
  PROVE  Outranked(r, q) <=>
           \/ ~r.pass /\ q.pass
           \/ r.pass = q.pass /\ Less(r.score, q.score)
           \/ r.pass = q.pass /\ ~Less(q.score, r.score) /\ Weaker(r.static, q.static)
  BY Zenon DEF Outranked, Weaker

\* So are reports: the ranking has no cycles, and whatever lies between two
\* reports is told apart from one of them.
LEMMA OutrankedAsymmetric ==
  ASSUME NEW r, NEW q, Ranked(r), Ranked(q), Outranked(r, q)
  PROVE  ~Outranked(q, r)
  <1>1. CASE ~r.pass /\ q.pass
    BY <1>1, OutrankedBy, Zenon
  <1>2. CASE r.pass = q.pass /\ Less(r.score, q.score)
    <2>1. ~Less(q.score, r.score)
      BY <1>2, LessAsymmetric DEF Ranked
    <2>2. QED
      BY <1>2, <2>1, OutrankedBy, Zenon
  <1>3. CASE r.pass = q.pass /\ ~Less(q.score, r.score) /\ Weaker(r.static, q.static)
    <2>1. ~Weaker(q.static, r.static)
      BY <1>3, WeakerOrder DEF Ranked
    <2>2. QED
      BY <1>3, <2>1, OutrankedBy, Zenon
  <1>4. QED
    BY <1>1, <1>2, <1>3, OutrankedBy, Zenon

LEMMA OutrankedSplits ==
  ASSUME NEW r, NEW q, NEW t, Ranked(r), Ranked(q), Ranked(t), Outranked(r, t)
  PROVE  Outranked(r, q) \/ Outranked(q, t)
  <1> USE DEF Ranked
  <1>1. CASE ~r.pass /\ t.pass
    BY <1>1, OutrankedBy, Zenon
  <1>2. CASE r.pass = t.pass /\ q.pass # r.pass
    <2>1. (~r.pass /\ q.pass) \/ (~q.pass /\ t.pass)
      BY <1>2
    <2>2. QED
      BY <2>1, OutrankedBy, Zenon
  <1>3. CASE r.pass = t.pass /\ q.pass = r.pass /\ Less(r.score, t.score)
    <2>1. Less(r.score, q.score) \/ Less(q.score, t.score)
      BY <1>3, LessSplits
    <2>2. QED
      BY <1>3, <2>1, OutrankedBy, Zenon
  <1>4. CASE /\ r.pass = t.pass /\ q.pass = r.pass
             /\ ~Less(t.score, r.score) /\ Weaker(r.static, t.static)
    <2>1. Weaker(r.static, q.static) \/ Weaker(q.static, t.static)
      BY <1>4, WeakerOrder
    <2>2. Less(q.score, r.score) => Less(q.score, t.score)
      BY <1>4, LessSplits
    <2>3. Less(t.score, q.score) => Less(r.score, q.score)
      BY <1>4, LessSplits
    <2>4. QED
      BY <1>4, <2>1, <2>2, <2>3, OutrankedBy, Zenon
  <1>5. QED
    BY <1>1, <1>2, <1>3, <1>4, OutrankedBy, Zenon
-----------------------------------------------------------------------------
\* The verdict on a mutant is that of the set of its outcomes.
LEMMA NextVerdict == ASSUME GatesInv, VerdictAsDefined, Check PROVE VerdictAsDefined'
  <1> USE DEF VerdictAsDefined
  <1>1. child \in Children
    BY DEF GatesInv
  <1>2. CASE UNCHANGED child \/ child' = NewChild \/ child' = NextMutant
    <2>1. NewChild.verdict = "equivalent" /\ NewChild.met = {}
      BY DEF NewChild
    <2>2. NextMutant.verdict = "equivalent" /\ NextMutant.met = {}
      BY <1>1 DEF NextMutant, Children
    <2>3. QED
      BY <1>2, <2>1, <2>2
  <1>3. ASSUME NEW o \in {"value", "fails", "unparsable"}, Oracle(o) PROVE VerdictAsDefined'
    <2>1. child'.verdict = child.verdict /\ child'.met = child.met
      BY <1>1, <1>3 DEF Oracle, Children
    <2>2. QED
      BY <2>1
  <1>4. CASE OracleDone
    <2>1. child'.verdict = child.verdict /\ child'.met = child.met
      BY <1>1, <1>4 DEF OracleDone, Children
    <2>2. QED
      BY <2>1
  <1>5. ASSUME NEW holds \in BOOLEAN, Candidate(holds) PROVE VerdictAsDefined'
    <2>1. child'.verdict = child.verdict /\ child'.met = child.met
      BY <1>1, <1>5 DEF Candidate, CandidateCall, Children
    <2>2. QED
      BY <2>1
  <1>6. CASE Verified
    <2>1. child' = [child EXCEPT !.n = 1] \/ child' = NewChild
      BY <1>6 DEF Verified, Finish
    <2>2. child' = [child EXCEPT !.n = 1] => child'.verdict = child.verdict /\ child'.met = child.met
      BY <1>1 DEF Children
    <2>3. QED
      BY <1>2, <2>1, <2>2
  <1>7. ASSUME NEW w \in OfInput, MutantRun(w) PROVE VerdictAsDefined'
    <2>1. child.verdict \in OfMutant \ {"killed"}
      BY <1>1, <1>7 DEF MutantRun, MutantRuns, Children
    <2>2. CASE child' = [child EXCEPT !.n = @ + 1]
      <3>1. child'.verdict = child.verdict /\ child'.met = child.met
        BY <1>1, <2>2 DEF Children
      <3>2. QED
        BY <3>1
    <2>3. CASE child'.verdict = Judge(w) /\ child'.met = child.met \cup {w}
      BY <2>1, <2>3 DEF Judge, OfInput, OfMutant
    <2>4. \/ child' = [child EXCEPT !.n = @ + 1]
          \/ child'.verdict = Judge(w) /\ child'.met = child.met \cup {w}
      BY <1>1, <1>7 DEF MutantRun, Children
    <2>5. QED
      BY <2>2, <2>3, <2>4
  <1>8. CASE MutantJudged
    <2>1. child'.verdict = "equivalent" /\ child'.met = {}
      BY <1>1, <1>8 DEF MutantJudged, NextMutant, Children
    <2>2. QED
      BY <2>1
  <1>9. QED
    BY <1>2, <1>3, <1>4, <1>5, <1>6, <1>7, <1>8
    DEF Check, Static, ChildFails, Finish, MutantBroken, Scored, OfInput
-----------------------------------------------------------------------------
\* Where the loop is, and the ranges of its variables.
LoopOK ==
  /\ asked \in [attempts : 0..MaxAttempts, min : MinScores]
  /\ pc \in {"load", "check", "loop", "write", "done"}
  /\ current \in {0, Missing} /\ attempt \in 0..asked.attempts /\ llm \in 0..(2 * attempt)
  /\ candidate \in Sources \cup {Missing} /\ best \in Sources \cup {Missing}
  /\ written \in Sources \cup {Missing}
  /\ \A g \in good : g[1] \in Sources /\ g[2] \in Sources
  /\ pc = "load" => attempt = 0
  /\ IF pc = "check" THEN candidate # Missing ELSE gate = "idle"

\* The best report outranks or equals every report seen; where it passes, its
\* source was found clean and true, and so was what is written.
BestOK ==
  /\ ReportOK(bestOf) /\ \A h \in history : ReportOK(h)
  /\ best = Missing => history = {}
  /\ best # Missing => \A h \in history : ~Outranked(bestOf, h)
  /\ best # Missing /\ bestOf.pass => \E g \in good : g[2] = best
  /\ OnlyPassingWritten

\* The contracts on disk are checked before anything else; if they pass and reach the
\* threshold they stay the best, and no attempt is made.
CostOK ==
  /\ attempt = 0 => best \in {Missing, current} /\ candidate \in {Missing, current}
  /\ attempt = 0 /\ pc \in {"load", "check"} => best = Missing /\ good = {}
  /\ (\E g \in good : g[1] = 0 /\ Reaches(g[3])) =>
       attempt = 0 /\ best # Missing /\ bestOf.pass /\ Reaches(bestOf.score)
  /\ asked.attempts = 0 => written = Missing

RepairInv == GatesInv /\ VerdictAsDefined /\ LoopOK /\ BestOK /\ CostOK

LEMMA InitRepair == Init => RepairInv
  <1> SUFFICES ASSUME Init PROVE RepairInv
    OBVIOUS
  <1>1. GatesInv
    BY GInitOK DEF Init
  <1>2. VerdictAsDefined
    BY DEF Init, GInit, NewChild, VerdictAsDefined
  <1>3. LoopOK
    BY DEF Init, GInit, LoopOK, Sources, Missing
  <1>4. BestOK
    BY FirstReportOK DEF Init, BestOK, OnlyPassingWritten, Missing
  <1>5. CostOK
    BY DEF Init, CostOK
  <1>6. QED
    BY <1>1, <1>2, <1>3, <1>4, <1>5 DEF RepairInv

\* A check that is started begins with a new child.
LEMMA StartCheckOK ==
  ASSUME GatesInv, VerdictAsDefined, gate = "idle", NEW s, StartCheck(s)
  PROVE  GatesInv' /\ VerdictAsDefined'
  <1>1. gate' = "static" /\ child' = child /\ UNCHANGED <<static, report>>
    BY DEF StartCheck
  <1>2. Progress'
    BY <1>1 DEF GatesInv, Progress
  <1>3. child' \in Children
    BY <1>1 DEF GatesInv, Children
  <1>4. VerdictAsDefined'
    BY <1>1 DEF VerdictAsDefined
  <1>5. QED
    BY <1>1, <1>2, <1>3, <1>4, InsideOK DEF Gates

LEMMA GatesUnchanged ==
  ASSUME GatesInv, VerdictAsDefined, UNCHANGED gateVars
  PROVE  GatesInv' /\ VerdictAsDefined'
  BY DEF gateVars, GatesInv, VerdictAsDefined, Gates, Children, Progress, ReportOK, Reports, Statics

LEMMA NextGates == RepairInv /\ [Next]_vars => GatesInv' /\ VerdictAsDefined'
  <1> SUFFICES ASSUME GatesInv, VerdictAsDefined, LoopOK, [Next]_vars
               PROVE  GatesInv' /\ VerdictAsDefined'
    BY DEF RepairInv
  <1>1. CASE UNCHANGED gateVars
    BY <1>1, GatesUnchanged
  <1>2. CASE Load
    BY <1>1, <1>2, StartCheckOK DEF Load, LoopOK
  <1>3. CASE Regenerate
    BY <1>3, StartCheckOK DEF Regenerate, LoopOK
  <1>4. CASE Check
    BY <1>4, CheckOK, NextVerdict
  <1>5. QED
    BY <1>1, <1>2, <1>3, <1>4 DEF Next, vars, Keep, GeneratorFails, Stop, Write

\* The steps of a check happen while the loop waits for it.
LEMMA NextLoop == RepairInv /\ [Next]_vars => LoopOK'
  <1> SUFFICES ASSUME LoopOK, [Next]_vars PROVE LoopOK'
    BY DEF RepairInv
  <1> USE RepairAssumption DEF LoopOK, Sources, Missing, gateVars
  <1>1. CASE Load
    BY <1>1 DEF Load, StartCheck
  <1>2. CASE Keep
    BY <1>2 DEF Keep, Record
  <1>3. CASE Regenerate
    <2>1. llm' \in 0..(2 * attempt') /\ attempt' \in 0..asked.attempts
      BY <1>3 DEF Regenerate, Calls
    <2>2. QED
      BY <1>3, <2>1 DEF Regenerate, StartCheck
  <1>4. CASE GeneratorFails
    <2>1. llm' \in 0..(2 * attempt') /\ attempt' \in 0..asked.attempts
      BY <1>4 DEF GeneratorFails, Calls
    <2>2. QED
      BY <1>4, <2>1 DEF GeneratorFails
  <1>5. CASE Stop
    BY <1>5 DEF Stop
  <1>6. CASE Write
    BY <1>6 DEF Write
  <1>7. CASE Check /\ UNCHANGED repairVars
    <2>1. gate # "idle"
      BY <1>7 DEF Check, Static, ChildFails, Oracle, OracleDone, Candidate, Verified, MutantRun,
                  MutantRuns, MutantBroken, MutantJudged, Scored
    <2>2. QED
      BY <1>7, <2>1 DEF repairVars
  <1>8. CASE UNCHANGED vars
    BY <1>8 DEF vars, repairVars
  <1>9. QED
    BY <1>1, <1>2, <1>3, <1>4, <1>5, <1>6, <1>7, <1>8 DEF Next

LEMMA ReportRanked == ASSUME NEW r, ReportOK(r) PROVE Ranked(r)
  BY GatesAssumption DEF ReportOK, Reports, Statics, Ranked, ScoreOK

\* Keeping the better of two reports keeps the best of all.
LEMMA KeepBest ==
  ASSUME BestOK, ReportOK(report), Keep
  PROVE  \A h \in history' : ~Outranked(bestOf', h)
  <1>1. history' = history \cup {report}
    BY DEF Keep, Record
  <1>2. Ranked(report) /\ Ranked(bestOf) /\ \A h \in history : Ranked(h)
    BY ReportRanked DEF BestOK
  <1>3. ~Outranked(report, report)
    BY <1>2, OutrankedAsymmetric
  <1>4. CASE best = Missing
    BY <1>1, <1>3, <1>4 DEF Keep, BestOK
  <1>5. CASE best # Missing /\ ~Outranked(bestOf, report)
    <2>1. bestOf' = bestOf
      BY <1>5 DEF Keep
    <2>2. QED
      BY <1>1, <1>5, <2>1 DEF BestOK
  <1>6. CASE best # Missing /\ Outranked(bestOf, report)
    <2>1. bestOf' = report
      BY <1>6 DEF Keep
    <2>2. ASSUME NEW h \in history, Outranked(report, h) PROVE FALSE
      <3>1. Outranked(bestOf, h) \/ Outranked(h, report)
        BY <1>2, <1>6, OutrankedSplits
      <3>2. ~Outranked(h, report)
        BY <1>2, <2>2, OutrankedAsymmetric
      <3>3. QED
        BY <1>6, <3>1, <3>2 DEF BestOK
    <2>3. QED
      BY <1>1, <1>3, <2>1, <2>2
  <1>7. QED
    BY <1>4, <1>5, <1>6

LEMMA NextBest == RepairInv /\ [Next]_vars => BestOK'
  <1> SUFFICES ASSUME RepairInv, [Next]_vars PROVE BestOK'
    OBVIOUS
  <1>1. LoopOK /\ BestOK /\ ReportOK(report)
    BY DEF RepairInv, GatesInv
  <1>2. CASE UNCHANGED <<best, bestOf, history, good, written>>
    BY <1>1, <1>2 DEF BestOK, OnlyPassingWritten, ReportOK, Reports, Outranked, Less
  <1>3. CASE Keep
    <2>1. candidate \in Sources /\ attempt \in Sources /\ candidate # Missing
      BY <1>1, <1>3, RepairAssumption DEF Keep, LoopOK, Sources
    <2>2. /\ history' = history \cup {report} /\ written' = written
          /\ bestOf' \in {bestOf, report} /\ best' # Missing
      BY <1>3, <2>1 DEF Keep, Record
    <2>3. ReportOK(bestOf') /\ \A h \in history' : ReportOK(h)
      BY <1>1, <2>2 DEF BestOK
    <2>4. good \subseteq good' /\ (report.pass => \E g \in good' : g[2] = candidate)
      <3>1. report.pass => report.static.found = "clean" /\ report.dynamic
        BY <1>1 DEF ReportOK
      <3>2. report.pass => <<attempt, candidate, report.score>> \in good'
        BY <1>3, <3>1 DEF Keep, Record
      <3>3. <<attempt, candidate, report.score>>[2] = candidate
        OBVIOUS
      <3>4. good \subseteq good'
        BY <1>3 DEF Keep, Record
      <3>5. QED
        BY <3>2, <3>3, <3>4
    <2>5. bestOf'.pass => \E g \in good' : g[2] = best'
      <3>1. CASE best' = candidate /\ bestOf' = report
        BY <2>1, <2>4, <3>1
      <3>2. CASE best' = best /\ bestOf' = bestOf
        BY <1>1, <2>2, <2>4, <3>2 DEF BestOK
      <3>3. QED
        BY <1>3, <3>1, <3>2 DEF Keep
    <2>6. OnlyPassingWritten'
      BY <1>1, <2>2, <2>4 DEF BestOK, OnlyPassingWritten
    <2>7. \A h \in history' : ~Outranked(bestOf', h)
      BY <1>1, <1>3, KeepBest
    <2>8. QED
      BY <2>2, <2>3, <2>5, <2>6, <2>7 DEF BestOK, ReportOK, Reports, Outranked, Less
  <1>4. CASE Write
    <2>1. OnlyPassingWritten'
      BY <1>1, <1>4 DEF Write, BestOK, OnlyPassingWritten
    <2>2. UNCHANGED <<best, bestOf, history, good>>
      BY <1>4 DEF Write
    <2>3. QED
      BY <1>1, <2>1, <2>2 DEF BestOK, ReportOK, Reports, Outranked, Less
  <1>5. QED
    BY <1>2, <1>3, <1>4 DEF Next, vars, repairVars, Load, Regenerate, GeneratorFails, Stop

LEMMA NextCost == RepairInv /\ [Next]_vars => CostOK'
  <1> SUFFICES ASSUME RepairInv, [Next]_vars PROVE CostOK'
    OBVIOUS
  <1>1. LoopOK /\ BestOK /\ CostOK /\ ReportOK(report)
    BY DEF RepairInv, GatesInv
  <1>3. CASE UNCHANGED <<asked, current, attempt, candidate, best, bestOf, good, llm, written>>
             /\ (pc' \in {"load", "check"} => pc' = pc)
    BY <1>1, <1>3 DEF CostOK, Reaches
  <1>4. CASE Load
    BY <1>1, <1>4 DEF Load, StartCheck, CostOK, Reaches
  <1>5. CASE Keep
    <2>1. /\ UNCHANGED <<asked, current, attempt, candidate, llm, written>> /\ best' \in {best, candidate}
          /\ pc = "check" /\ pc' = "loop"
      BY <1>5 DEF Keep
    <2>2. attempt = 0 => best' \in {Missing, current} /\ candidate' \in {Missing, current}
      BY <1>1, <2>1 DEF CostOK
    <2>3. candidate # Missing
      BY <1>1, <1>5 DEF Keep, LoopOK
    <2>4. report.static.found = "clean" /\ report.dynamic => report.pass
      BY <1>1 DEF ReportOK
    <2>5. CASE attempt = 0
      <3>1. best = Missing /\ good = {}
        BY <1>1, <2>1, <2>5 DEF CostOK
      <3>2. best' # Missing /\ bestOf' = report
        BY <1>5, <2>3, <3>1 DEF Keep
      <3>3. \A g \in good' : g[3] = report.score /\ report.pass
        BY <1>5, <2>4, <3>1 DEF Keep, Record
      <3>4. QED
        BY <1>1, <2>1, <2>2, <2>5, <3>2, <3>3 DEF CostOK, Reaches
    <2>6. CASE attempt # 0
      <3>1. \A g \in good : ~(g[1] = 0 /\ Reaches(g[3]))
        BY <1>1, <2>6 DEF CostOK
      <3>2. \A g \in good' : g \in good \/ g[1] = attempt
        BY <1>5 DEF Keep, Record
      <3>3. \A g \in good' : ~(g[1] = 0 /\ Reaches(g[3]))
        BY <2>6, <3>1, <3>2
      <3>4. QED
        BY <1>1, <2>1, <2>6, <3>3 DEF CostOK, Reaches
    <2>7. QED
      BY <2>5, <2>6
  <1>6. CASE Regenerate \/ GeneratorFails
    <2>1. UNCHANGED <<asked, best, bestOf, good, written>> /\ attempt' # 0 /\ ~GoodEnough
      BY <1>1, <1>6 DEF Regenerate, GeneratorFails, LoopOK
    <2>2. ~\E g \in good : g[1] = 0 /\ Reaches(g[3])
      BY <1>1, <2>1 DEF GoodEnough, CostOK
    <2>3. QED
      BY <1>1, <2>1, <2>2 DEF CostOK, Reaches
  <1>7. CASE Write
    <2>1. asked.attempts = 0 => attempt = 0
      BY <1>1 DEF LoopOK
    <2>2. asked.attempts = 0 => written' = Missing
      BY <1>1, <1>7, <2>1 DEF Write, CostOK
    <2>3. UNCHANGED <<asked, current, attempt, candidate, best, bestOf, good, llm>> /\ pc' = "done"
      BY <1>7 DEF Write
    <2>4. QED
      BY <1>1, <2>2, <2>3 DEF CostOK, Reaches
  <1>8. QED
    BY <1>3, <1>4, <1>5, <1>6, <1>7 DEF Next, vars, repairVars, Stop

LEMMA RepairInvariant == Spec => []RepairInv
  <1>1. RepairInv /\ [Next]_vars => RepairInv'
    BY NextGates, NextLoop, NextBest, NextCost DEF RepairInv
  <1>2. QED
    BY <1>1, InitRepair, PTL DEF Spec
-----------------------------------------------------------------------------
\* Every variable of the loop and of its checks stays in its range; in particular
\* the model is asked at most twice for each attempt that was allowed.
THEOREM TypeCorrect == Spec => []TypeOK
  <1>1. RepairInv => TypeOK
    <2> SUFFICES ASSUME RepairInv PROVE TypeOK
      OBVIOUS
    <2>1. GatesInv /\ LoopOK /\ BestOK
      BY DEF RepairInv
    <2>2. child \in Children /\ Len(child.args) <= Inputs
      <3>1. child \in Children /\ child.n \in 1..(Inputs + 1) /\ Progress /\ gate \in Gates
        BY <2>1 DEF GatesInv, Children
      <3>2. NewChild.args = <<>>
        BY DEF NewChild
      <3>3. QED
        BY <3>1, <3>2, EmptySeq, GatesAssumption DEF Progress, Gates
    <2>3. \A i \in 1..Len(child.usable) : child.usable[i] \in 1..Inputs
      BY <2>2, ElementOfSeq DEF Children
    <2>4. GatesTypeOK
      BY <2>1, <2>2, <2>3 DEF GatesTypeOK, GatesInv, Children, Gates, OfMutant, ReportOK
    <2>5. attempt \in 0..asked.attempts /\ llm \in 0..(2 * asked.attempts)
      BY <2>1 DEF LoopOK
    <2>6. bestOf \in Reports /\ history \subseteq Reports
      BY <2>1 DEF BestOK, ReportOK
    <2>7. QED
      BY <2>1, <2>4, <2>5, <2>6 DEF TypeOK, LoopOK
  <1>2. QED
    BY <1>1, RepairInvariant, PTL

\* The verdict on a mutant is determined by the set of its outcomes: killed by one
\* rejection, a survivor by a wrong answer without one, crashed by a crash without
\* either, and equivalent if it was always right (score_mutants).
THEOREM VerdictsCorrect == Spec => []VerdictAsDefined
  <1>1. RepairInv => VerdictAsDefined
    BY DEF RepairInv
  <1>2. QED
    BY <1>1, RepairInvariant, PTL

\* A source is written only if a check of it found it clean and true on every input.
THEOREM WrittenPassed == Spec => []OnlyPassingWritten
  <1>1. RepairInv => OnlyPassingWritten
    BY DEF RepairInv, BestOK
  <1>2. QED
    BY <1>1, RepairInvariant, PTL

\* At the end no report outranks that of the best source, the contracts on disk
\* included: the ranking, by fractions, with None below all, is a strict weak order.
THEOREM BestKept == Spec => []NeverWeaker
  <1>1. RepairInv => NeverWeaker
    BY DEF RepairInv, BestOK, NeverWeaker
  <1>2. QED
    BY <1>1, RepairInvariant, PTL

\* A verification pass costs no call of a model and writes nothing, and a unit whose
\* contracts on disk pass and reach the threshold asked for costs none (repair_unit).
THEOREM NothingSpent == Spec => []NoNeedlessCalls
  <1>1. RepairInv => NoNeedlessCalls
    <2> SUFFICES ASSUME RepairInv PROVE NoNeedlessCalls
      OBVIOUS
    <2>1. LoopOK /\ CostOK
      BY DEF RepairInv
    <2>2. attempt = 0 => llm = 0
      BY <2>1 DEF LoopOK
    <2>3. asked.attempts = 0 => attempt = 0
      BY <2>1 DEF LoopOK
    <2>4. QED
      BY <2>1, <2>2, <2>3 DEF CostOK, NoNeedlessCalls
  <1>2. QED
    BY <1>1, RepairInvariant, PTL
=============================================================================

CONSTANTS
  t1 = t1
  t2 = t2
  w1 = w1
  w2 = w2
  Threads <- MCThreads
  Evaluators <- MCEvaluators
  Problems <- MCProblems
  Stdio <- MCStdio
  Solutions <- MCSolutions
  RebootEvery = 2
SPECIFICATION Spec
INVARIANTS TypeOK NeverOverused PoolConserved ReportComplete
PROPERTIES OneVerdictEach
CHECK_DEADLOCK FALSE

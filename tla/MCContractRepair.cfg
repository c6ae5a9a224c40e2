CONSTANTS
  Inputs = 2
  Mutants = 1
  TestBudget = 2
  MaxProblems = 1
  Mutates = TRUE
  MaxAttempts = 2
  Critic = TRUE
  MinScores <- MCMinScores
SPECIFICATION Spec
INVARIANTS TypeOK VerdictAsDefined OnlyPassingWritten NeverWeaker NoNeedlessCalls
CHECK_DEADLOCK FALSE

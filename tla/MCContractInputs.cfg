CONSTANTS
  Inputs = 2
  Mutants = 1
  TestBudget = 2
  MaxProblems = 1
  Mutates = TRUE
  MaxAttempts = 2
  Critic = TRUE
  MinScores <- MCMinScores
SPECIFICATION Spec
INVARIANT EnsuresReadWhatWasPassed
CHECK_DEADLOCK FALSE

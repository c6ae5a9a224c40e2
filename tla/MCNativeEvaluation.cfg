CONSTANTS
  Count = 4
  ProblemOf <- MCProblemOf
SPECIFICATION Spec
INVARIANTS TypeOK OnlyOffendersExcluded EveryHarnessCounted
CHECK_DEADLOCK FALSE

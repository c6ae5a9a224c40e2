CONSTANTS
  Candidates = {c1, c2, c3}
  Quota = 2
  SaveEvery = 2
  MaxCrashes = 2
  SkipCompile = TRUE
  Torn = Torn
SPECIFICATION Spec
INVARIANTS TypeOK PublishedCompiles
PROPERTIES NoAnswerPaidTwice Finishes
CHECK_DEADLOCK FALSE

CONSTANTS
  Cases <- MCCases
  Unparsable <- MCUnparsable
  MaxPasses = 2
SPECIFICATION Spec
INVARIANTS CasesStayOnRecord
CHECK_DEADLOCK FALSE

CONSTANTS
  Cases <- MCCases
  Unparsable <- MCUnparsable
  MaxPasses = 2
SPECIFICATION Spec
INVARIANTS TypeOK Aligned OneForkPerBomb GoodCasesStay
PROPERTIES Ends
CHECK_DEADLOCK FALSE

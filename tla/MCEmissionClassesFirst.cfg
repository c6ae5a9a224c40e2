CONSTANTS
  Names <- MCNames
  Programs <- MCPrograms
SPECIFICATION Spec
INVARIANT ClassesFirst

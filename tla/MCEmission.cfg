CONSTANTS
  Names <- MCNames
  Programs <- MCPrograms
SPECIFICATION Spec
INVARIANTS TypeOK NoReentry DeclaredOnce CalleesFirst TwinsTogether NothingLost

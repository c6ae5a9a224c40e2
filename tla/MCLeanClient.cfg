SPECIFICATION FairSpec
CONSTANTS
  Threads = {t1, t2}
  MaxCalls = 2
  LockOf <- OneLock
  Big <- BigKinds
  Alongside = FALSE
INVARIANTS
  TypeOK
  ReplyIsOwn
  ShortBudgetOnlyIfBooted
  NoOrphanBackend
  QuietBetweenCalls
PROPERTIES
  CallReturns
  PromiseKept

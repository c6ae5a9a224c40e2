SPECIFICATION Spec
CHECK_DEADLOCK FALSE
CONSTANTS
  Threads = {t1, t2}
  MaxFiles = 1
  LockOf <- LockPerThread
  Backends = {t1, t2}
  BackendOf <- BackendPerThread
  Programs <- MCInOrder
  Names <- MCNames
  Fields <- MCFields
  Methods <- MCMethods
INVARIANTS
  RequestsCarryOwnOptions

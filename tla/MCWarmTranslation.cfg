SPECIFICATION Spec
CHECK_DEADLOCK FALSE
CONSTANTS
  Threads = {t1, t2}
  MaxFiles = 1
  LockOf <- OneLock
  Backends = {"client"}
  BackendOf <- OneBackend
  Programs <- MCPrograms
  Names <- MCNames
  Fields <- MCFields
  Methods <- MCMethods
SYMMETRY Symmetry
INVARIANTS
  TypeOK
  RequestsCarryOwnOptions
  ReportIsOwn
  NothingOwnIsMissing
  WarmLikeCold

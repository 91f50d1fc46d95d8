SPECIFICATION ProxySpec
CONSTANTS
  Threads = {t1, t2}
  Finalizer = finalizer
  NoThread = none
  Deletes = TRUE
  Transfers = TRUE
  MaxCalls = 1
INVARIANTS
  FreedOnce
  OwnerIsCollectable
  NothingOrphaned
  NoDanglingProxy
CHECK_DEADLOCK FALSE

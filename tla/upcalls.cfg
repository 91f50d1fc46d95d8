SPECIFICATION Spec
CONSTANTS
  Threads = {main}
  Finalizer = finalizer
  NoThread = none
  Deletes = FALSE
  Transfers = FALSE
  MaxCalls = 1
  Workers = {}
  Overridden <- MCOverridden
  CoreMethods <- MCCoreMethods
  JavaMethods <- MCJavaMethods
  ReturnsNull = {}
  MaxFrames = 4
INVARIANTS
  OwnMethod
  NoPendingException
  RefsBalanced
  NullIsRejected
CHECK_DEADLOCK FALSE

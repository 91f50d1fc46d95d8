SPECIFICATION FairSpec
CONSTANTS
  Connects = {1, 2}
  Disconnects = {3}
  Threads = {1, 2, 3}
  Environment = "orderly"
  MaxRetries = 0
  MaxInstances = 3
  MaxDeaths = 1
  StopLatches = FALSE
CHECK_DEADLOCK FALSE
INVARIANT NoOrphan
INVARIANT OwnRequest
INVARIANT RunnerHasHandler
INVARIANT OfflineAtRest
PROPERTY StoppedSessionsEnd
PROPERTY DisconnectEndsSessions
PROPERTY DisconnectEndsService

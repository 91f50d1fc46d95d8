SPECIFICATION FairSpec
CONSTANTS
  Connects = {1}
  Disconnects = {2}
  Threads = {1, 2}
  Environment = "polite"
  MaxRetries = 0
  MaxInstances = 1
  MaxDeaths = 0
  StopLatches = FALSE
CHECK_DEADLOCK FALSE
PROPERTY SetupErrorReported

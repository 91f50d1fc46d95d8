SPECIFICATION FairSpec
CONSTANTS
  Connects = {1}
  Disconnects = {2}
  Threads = {1, 2}
  Environment = "hasty"
  MaxRetries = 0
  MaxInstances = 2
  MaxDeaths = 0
  StopLatches = FALSE
CHECK_DEADLOCK FALSE
PROPERTY DisconnectEndsSessions

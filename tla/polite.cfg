SPECIFICATION NoticeSpec
CONSTANTS
  Connects = {1, 2}
  Disconnects = {3}
  Threads = {1, 2, 3}
  Environment = "polite"
  MaxRetries = 1
  MaxInstances = 2
  MaxDeaths = 1
  StopLatches = FALSE
  Oreo = TRUE
  AppPosts = TRUE
  AlwaysShow = {FALSE}
CHECK_DEADLOCK FALSE
INVARIANT StatusTruth
INVARIANT BuilderThere
INVARIANT NoticeFollows
PROPERTY ImplementsVpnSwitch

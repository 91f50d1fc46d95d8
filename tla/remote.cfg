SPECIFICATION InstallSpec
CONSTANTS
  Threads = {1}
  OnExternal = TRUE
  MaxCalls = 2
  MaxReports = 2
  MaxEnds = 1
  Assets = {ca}
  Binary = openvpn
  Bundled = TRUE
  MaxInterruptions = 1
  MaxEvictions = 1
CHECK_DEADLOCK FALSE
INVARIANT ClientFollows
INVARIANT DroppedWhenGone
INVARIANT ExecutableIsWhole
INVARIANT OneError
PROPERTY StartEnds

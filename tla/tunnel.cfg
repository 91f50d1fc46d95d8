SPECIFICATION Spec
CONSTANTS
  LocalIPs = {"a1"}
  DnsServers = {"d1"}
  Routes = {"r1", "r2", "r3"}
  Unknown = {"r3"}
  Given <- MCGiven
  Apps = {"app1"}
  SDK_INT = 26
  MaxRounds = 2
INVARIANT InterfaceIsRound
CHECK_DEADLOCK FALSE

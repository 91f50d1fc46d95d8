SPECIFICATION Spec
CONSTANTS
  LocalIPs = {"a1"}
  DnsServers = {"d1"}
  Routes = {"r1"}
  Unknown = {}
  Given <- MCGiven
  Apps = {"app1", "app2"}
  SDK_INT = 26
  MaxRounds = 1
INVARIANT WhitelistHonoured
CHECK_DEADLOCK FALSE

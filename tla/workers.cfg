SPECIFICATION Spec
CONSTANTS
  Threads = {main, poller, worker}
  Finalizer = finalizer
  NoThread = none
  Deletes = FALSE
  Transfers = FALSE
  MaxCalls = 1
  Workers = {worker}
  Overridden = {"event", "clock_tick"}
  CoreMethods = {"event", "clock_tick", "tun_builder_persist"}
  JavaMethods = {"connect", "transport_stats", "clock_tick"}
  ReturnsNull = {}
  MaxFrames = 5
INVARIANTS
  AttachBalanced
  SuperIsSafe
  CallsOnLive
PROPERTY
  ImplementsVirtualCall
CHECK_DEADLOCK FALSE

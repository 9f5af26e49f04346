SPECIFICATION FairSpec
CONSTANTS
  Windows = {"w1", "w2"}
  Servers = {"s"}
  NoHost = NoHost
  Starts <- Stories
  stop_on_exit = TRUE
CHECK_DEADLOCK FALSE
PROPERTIES
  HostsSettle
  HostEnds
  HeardKeeps

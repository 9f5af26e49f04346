SPECIFICATION Spec
CONSTANTS
  Windows = {"w1", "w2"}
  Servers = {"s"}
  NoHost = NoHost
  Starts <- OneWindow
  stop_on_exit = TRUE
CHECK_DEADLOCK FALSE
INVARIANTS
  OpenServed

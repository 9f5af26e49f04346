SPECIFICATION CanSpec
CONSTANTS
  Procs = {"client", "server", "third"}
  Threads <- Threads6
  Objects = {"a", "b", "e"}
  proc <- Proc3
  owner <- Owner3
  MaxNode = 4
  MaxHandle = 4
  NoThread = NoThread
  NoObject = NoObject
  Buffers = {1, 2}
  Scenarios <- AllScenarios
CHECK_DEADLOCK FALSE
INVARIANTS
  Answerable
  OneWayOut
  ObjectsHeld
  SpawnCounted
PROPERTIES
  CallsReturn

SPECIFICATION FairSpec
CONSTANTS
  Threads <- Threads3
  Objects <- Objects7
  PARK_SHARDS = 2
  shard_of <- Shards2
  Mutexes <- Mutexes3
  Type <- Types3
  NoObject = NoObject
  NoThread = NoThread
  Shutdown = Shutdown
  MaxHolds = 2
  VALUE_MASK = 2
  Conds = {"c"}
  RwLocks = {"w"}
  Sems = {"s"}
  Onces = {"o"}
  RoutineFails = {TRUE, FALSE}
  Scenarios <- Passing
CHECK_DEADLOCK FALSE
INVARIANTS
  Exclusive
  OwnersTrue
  NoLostWake
  SignalKept
  OnceOrdered
PROPERTIES
  CallsReturn
  StopsEnd

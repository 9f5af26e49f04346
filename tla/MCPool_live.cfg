SPECIFICATION FairSpec
CONSTANTS
  MaxDevice = 2
  MaxInstance = 1
  MaxUser = 2
  MaxDisplay = 2
  Jobs = {1, 2, 3, 4, 5}
  NoJob = NoJob
  NoBuild = NoBuild
  NotIdle = NotIdle
  Packages <- Packages1
  Builds <- Builds2
  PackageOf <- PackageOf2
  Budgets <- Stories
  Adopted = 1
  AutoRestart = {TRUE, FALSE}
  QUICK_ENDS = 1
  max_devices = 0
  keep_warm = 1
  warm_on_start = TRUE
  Asks = TRUE
CHECK_DEADLOCK FALSE
INVARIANTS
  TypeOK
  RestartFollowed
  AskingAnswered
PROPERTIES
  ClosingEnds
  RestartGoes
  LaunchSettles

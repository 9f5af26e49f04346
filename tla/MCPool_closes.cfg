SPECIFICATION Spec
CONSTANTS
  MaxDevice = 2
  MaxInstance = 2
  MaxUser = 2
  MaxDisplay = 2
  Jobs = {1, 2, 3, 4, 5}
  NoJob = NoJob
  NoBuild = NoBuild
  NotIdle = NotIdle
  Packages <- Packages1
  Builds <- Builds2
  PackageOf <- PackageOf2
  Budgets <- Closes
  Adopted = 1
  AutoRestart = {FALSE}
  QUICK_ENDS = 2
  max_devices = 0
  keep_warm = 1
  warm_on_start = FALSE
  Asks = FALSE
CHECK_DEADLOCK FALSE
INVARIANTS
  DisplaysKept
  DisplaysOwned
  SpareUntouched

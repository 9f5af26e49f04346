SPECIFICATION FairSpec
CONSTANTS
  Tasks <- Tasks4
  Processes = {"parent", "child"}
  process <- Process4
  main <- Main2
  parent <- Parent2
  OpenFiles <- Files5
  Fds = {0, 1, 2, 3}
  NoTask = NoTask
  NoProcess = NoProcess
  NoFile = NoFile
  LockFiles <- LockFiles3
  Inodes = {"db"}
  inode <- Inode1
  MaxByte = 2
  Pipes = {"pipe"}
  ReadEnds = {"r"}
  WriteEnds = {"w"}
  pipe <- Pipe1
  CAPACITY = 2
  Words = {"x", "y", "lock"}
  PiWords = {"lock"}
  home <- Home1
  Bits = {1, 2}
  Scenarios <- Signalled
  NoCall <- NoCall0
CHECK_DEADLOCK FALSE
PROPERTIES
  EndsReported

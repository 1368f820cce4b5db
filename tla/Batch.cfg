SPECIFICATION Spec
CONSTANTS
  NBuf = 2
  ULONG_MAX = 7
  ExpoCount = 3
  KeepRunning = FALSE
  ErrLimit = 2
  CamFailures = {}
  Unplug = FALSE
  SaveFails = TRUE
  LoopCounts = {}
  MaxFrames = 4
  MaxCmds = 0
INVARIANT
  BatchComplete

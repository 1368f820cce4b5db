SPECIFICATION Spec
CONSTANTS
  NBuf = 2
  ULONG_MAX = 6
  ExpoCount = 0
  KeepRunning = TRUE
  ErrLimit = 2
  CamFailures = {}
  Unplug = FALSE
  SaveFails = FALSE
  LoopCounts = {2}
  MaxFrames = 4
  MaxCmds = 1
INVARIANT
  StartTakesN

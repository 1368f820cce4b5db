SPECIFICATION Spec
CONSTANTS
  NBuf = 2
  ULONG_MAX = 6
  ExpoCount = 0
  KeepRunning = TRUE
  ErrLimit = 2
  CamFailures = {}
  Unplug = FALSE
  SaveFails = FALSE
  LoopCounts = {}
  MaxFrames = 4
  MaxCmds = 0
INVARIANT
  SavedIntact

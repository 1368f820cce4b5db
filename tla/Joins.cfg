SPECIFICATION FairSpec
CONSTANTS
  NBuf = 2
  ULONG_MAX = 6
  ExpoCount = 0
  KeepRunning = TRUE
  ErrLimit = 2
  CamFailures = {"start", "status", "data"}
  Unplug = TRUE
  SaveFails = FALSE
  LoopCounts = {}
  MaxFrames = 3
  MaxCmds = 0
PROPERTIES
  StopJoinsAll
  QueuedFramesSaved

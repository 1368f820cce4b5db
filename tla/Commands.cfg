SPECIFICATION FairSpec
CONSTANTS
  NBuf = 2
  ULONG_MAX = 6
  ExpoCount = 0
  KeepRunning = TRUE
  ErrLimit = 2
  CamFailures = {}
  Unplug = FALSE
  SaveFails = FALSE
  LoopCounts = {0, 2}
  MaxFrames = 3
  MaxCmds = 3
INVARIANTS
  StopBeginsAtMostTwo
  FreshStartTakesN
PROPERTY
  StopIdles

SPECIFICATION Spec
CONSTANTS
  NBuf = 2
  ULONG_MAX = 7
  ExpoCount = 0
  KeepRunning = TRUE
  ErrLimit = 2
  CamFailures = {"start", "expose", "status", "data"}
  Unplug = TRUE
  SaveFails = FALSE
  LoopCounts = {}
  MaxFrames = 4
  MaxCmds = 0
INVARIANTS
  TypeOK
  QueuedSafe
  OnlyLappedFramesTorn
  AtMostOneLost
  SelfStopLosesNothing
PROPERTIES
  OverflowOnlyWhenLapped
  InOrder

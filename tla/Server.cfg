SPECIFICATION Spec
CONSTANTS
  Slots = {1, 2, 3}
  MaxTimeout = 1
  MaxCalls = 2
  Applications <- SomeApplications
  Places = {1, 2}
  Polls = {1, 2}
  CorkMax = 4
  RoomMax = 2
  Conns = {1, 2}
  Servers <- SomeServers
  MaxRequests = 2
  Deferrers = {"a"}
  MaxDefer = 2
  Subscribers = {1, 2}
  Filters <- SomeFilters
  Names <- SomeNames
  MaxTriggered = 2
  IntBits = 2
  MaxMessages = 2
  MaxTopicCalls = 4
  FrameKinds <- SomeFrames
  MaxFrames = 3
  MaxPayload = 3
  MaskSize = 2
  Sockets = {1}
  MaxSends = 5
  MaxBackpressure = 1
  Requests <- SomeRequests
  MaxPipelined = 3
  MAX_FALLBACK_SIZE = 4
  Patterns <- SomePatterns
  Urls <- SomeUrls
  Parameters = {":x", ":y"}
  MaxRoutes = 3
INVARIANTS
  ServerTypeOK
  ListsSound
  SweepVisitsOnce
  FailedWriteIsTold
  ReadyPollsLive
  SourcesBalanced
  StreamIsWhatWasWritten
  IdleTimesOut
  DeferredInOrder
  MessagesOnceInOrder
  DeliveredAsSent
  CloseToldOnce
  FinComesLast
  RequestsAsSent
  RoutesAsMatched
PROPERTY
  ServerProgress
\* A part stops at its bounds, or when the process terminates.
CHECK_DEADLOCK FALSE

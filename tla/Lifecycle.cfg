SPECIFICATION LifecycleSpec
CONSTANTS
    NCam = 2
    NBuf = 2
    AlarmTicks = 2
    MaxConnErr = 0
    MayHang = TRUE
    MaxTicks = 1
INVARIANT
    LeavesOnlyInFlight
PROPERTY
    StoppedProcessEnds
\* The process may end.
CHECK_DEADLOCK FALSE

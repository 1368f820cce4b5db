SPECIFICATION LifecycleSpec
CONSTANTS
    NCam = 1
    NBuf = 2
    AlarmTicks = 4
    MaxConnErr = 3
    MayHang = TRUE
    MaxTicks = 1
PROPERTY
    AlarmEndsProcess
\* The process may end.
CHECK_DEADLOCK FALSE

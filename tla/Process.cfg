SPECIFICATION Spec
CONSTANTS
    Controls = {"TARGET_TEMP", "GAIN", "EXPOSURE"}
    WaitMax = 3
    MaxFix = 2
    Cams = {1, 2}
    MaxHour = 1
    Disks = {1, 2}
    FS = {1, 2}
    Files = {1, 2}
    Days = {4, 5}
    Programs = {"snap", "video", "mac"}
    MaxSize = 8
    Widths = {4}
    MaxKeys = 2
INVARIANTS
    ProcessTypeOK
    HeaderSettingsTrue
    GpsHandleValid
    MisfiledOnlyByOverlap
    OneInstance
    ServiceFollowsSpace
    FinishedFilesKept
    DemoShowsRightly
PROPERTIES
    WaitsEnd
\* The process ends when a setting is refused or a directory cannot be made.
CHECK_DEADLOCK FALSE

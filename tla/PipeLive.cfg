SPECIFICATION RunSpec
CONSTANTS
    MaxData = 1
    MaxStderr = 0
    MaxReqs = 1
    Window = 1
    LoggingMode = "everything"
PROPERTIES
    BothClosedEnds
    HangUpEnds
CHECK_DEADLOCK FALSE

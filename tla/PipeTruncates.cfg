SPECIFICATION Spec
CONSTANTS
    MaxData = 2
    MaxStderr = 1
    MaxReqs = 1
    Window = 1
    LoggingMode = "everything"
INVARIANTS
    OutputNotTruncated
CHECK_DEADLOCK FALSE

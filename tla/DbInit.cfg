SPECIFICATION FairSpec
CONSTANTS
    Rows = {r1, r2}
    MaxCrashes = 2
    MaxCommands = 1
PROPERTIES
    UpIsComplete
    ChosenStays
    SeedsHaveGroups
    Starts
CHECK_DEADLOCK FALSE

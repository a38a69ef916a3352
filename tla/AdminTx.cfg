SPECIFICATION FairSpec
CONSTANTS
    Cmds = {c1, c2}
    Ids = {1, 2, 3, 4}
    FirstRows = {1, 2}
    Groups = {g1, g2}
    Requests <- SomeRequests
    Nobody = Nobody
    Old = Old
    g1 = g1
    g2 = g2
INVARIANTS
    FailedLeavesNoTrace
    OnlyLeaksHold
PROPERTIES
    AtomicSpec
    RowsAlike
    CommandsEnd
CHECK_DEADLOCK FALSE

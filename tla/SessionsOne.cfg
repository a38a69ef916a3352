SPECIFICATION FairSpec
CONSTANTS
    Instances = {i1}
    Conns = {c1, c2, c3}
    MaxCrashes = 2
INVARIANTS
    HaltedIsTrue
    EndedIsStopped
    ActiveIsServed
PROPERTIES
    ClosedIsFinal
    GoneIsClosed
    LedgerSpec
CHECK_DEADLOCK FALSE

SPECIFICATION Spec
CONSTANTS
    Hosts = {h1, h2, h3}
    NoHost = NoHost
    MaxChanges = 1
    MaxChain = 4
SYMMETRY HostSymmetry
INVARIANTS
    OnlyAllowedDialed
    ChainLeadsToTarget
    TwiceMeansCycle
    DialedIsRecorded
    OpenMeansReached
    Answered
CHECK_DEADLOCK FALSE

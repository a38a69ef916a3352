SPECIFICATION Spec
CONSTANTS
    Instances = {i1, i2}
    Conns = {c1, c2, c3}
    MaxCrashes = 2
INVARIANTS
    HaltedIsTrue
CHECK_DEADLOCK FALSE

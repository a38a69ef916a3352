SPECIFICATION Spec
CONSTANTS
    KeyIds = {1, 2}
    HostIds = {1, 2}
    Secrets = {s1, s2}
    FirstSecret = s1
    Prints = {f1, f2}
    Conns = {c1, c2}
    MaxOps = 5
    None = None
INVARIANTS
    Usable
    ClearOnRequest
    FirstUse
PROPERTIES
    BackupSandwich
    KeySettles
SYMMETRY Alike
CHECK_DEADLOCK FALSE

SPECIFICATION Spec
CONSTANTS
    Conns = {c1, c2}
    Keys = {k1, k2}
    Tokens = {t1, t2}
    NoToken = NoToken
    NoKey = NoKey
    SeedToken = t1
    MaxUsers = 2
    MaxRows = 2
    MaxCommands = 3
    QueriesFail = TRUE
SYMMETRY AuthSymmetry
INVARIANTS
    IdentityVouched
PROPERTIES
    AdminsCommand
    OwnerStays
CHECK_DEADLOCK FALSE

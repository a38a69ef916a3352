SPECIFICATION Spec
CONSTANTS
    UserGroups = {g}
    HostGroups = {h}
    Acls = {a1, a2}
    Actions = {"allow", "deny"}
    Weights = {0, 1}
    Windows <- ExpiringWindow
    MaxTime = 1
    MaxChanges = 1
    HookCmd = FALSE
    Keep = Keep
    g = g
    h = h
    a1 = a1
    a2 = a2
SYMMETRY AclSymmetry
INVARIANTS
    RevokingNeverGrants
    GrantHasCause
    StandingRuleHolds
CHECK_DEADLOCK FALSE

SPECIFICATION FairSpec
CONSTANTS
    UserGroups = {g}
    HostGroups = {h}
    Acls = {a1}
    Actions = {"allow", "deny", "other"}
    Weights = {0}
    Windows <- OneWindow
    MaxTime = 0
    MaxChanges = 0
    HookCmd = TRUE
    Keep = Keep
    g = g
    h = h
    a1 = a1
    a2 = a2
PROPERTIES
    HookEnds
CHECK_DEADLOCK FALSE

SPECIFICATION Spec
CONSTANTS
    Calls = {c1, c2}
    AccessTtl = 3
    RefreshTtl = 4
    Margin = 2
    Slow = 1
    MaxTokens = 4
    MaxRole = 1
    MaxTime = 5
SYMMETRY Symmetric
INVARIANTS
    TypeOK
    JarIsLive
    OneTokenPerSession
    PagesAreServed
PROPERTIES
    PermissionsCatchUp
    LogoutIsFinal
CHECK_DEADLOCK FALSE

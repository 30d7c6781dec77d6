SPECIFICATION Spec
CONSTANTS
    u1 = u1
    n1 = n1
    n2 = n2
    t1 = t1
    t2 = t2
    r1 = r1
    r2 = r2
    None = None
    Users <- OneUser
    Names <- OneName
    Renames = FALSE
    Tokens <- TwoTokens
    Actors <- TwoRequests
CHECK_DEADLOCK FALSE
SYMMETRY Symmetry
INVARIANTS
    LoginInv
    LiveLogHasToken
    OnlineHasLog
    LoggedInIsOnline
    DisabledIsOffline

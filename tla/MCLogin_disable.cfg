SPECIFICATION Spec
CONSTANTS
    u1 = u1
    n1 = n1
    n2 = n2
    t1 = t1
    t2 = t2
    r1 = r1
    r2 = r2
    None = None
    Users <- OneUser
    Names <- TwoNames
    Renames = TRUE
    Tokens <- OneToken
    Actors <- OneRequest
CHECK_DEADLOCK FALSE
INVARIANT DisabledTakesOffline

SPECIFICATION FairSpec
CONSTANTS
    s1 = s1
    s2 = s2
    t1 = t1
    t2 = t2
    g1 = g1
    h1 = h1
    a1 = a1
    m1 = m1
    none = none
    NoOne = none
    Sessions <- TwoSessions
    Terms <- OneTerm
    Guacs <- OneGuac
    Shells <- Nobody
    Admins <- Nobody
    Monitors <- Nobody
    Reattach = FALSE
    MaxSweeps = 0
    MaxCrashes = 1
CHECK_DEADLOCK FALSE
INVARIANTS
    BrowserInv
    ServedIsRegistered
    ConnectedIsServed
PROPERTIES
    AuditTrail
    LeftSettles

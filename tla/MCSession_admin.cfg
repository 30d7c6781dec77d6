SPECIFICATION FairSpec
CONSTANTS
    s1 = s1
    s2 = s2
    t1 = t1
    t2 = t2
    g1 = g1
    h1 = h1
    a1 = a1
    m1 = m1
    none = none
    NoOne = none
    Sessions <- OneSession
    Terms <- OneTerm
    Guacs <- OneGuac
    Shells <- OneShell
    Admins <- OneAdmin
    Monitors <- OneMonitor
    Reattach = FALSE
    MaxSweeps = 1
    MaxCrashes = 1
CHECK_DEADLOCK FALSE
INVARIANTS
    ForcedDisconnectCloses
    EndedIsErased
PROPERTIES
    DisconnectReturns
    DeletedIsFinal

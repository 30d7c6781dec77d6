SPECIFICATION Spec
CONSTANTS
    j1 = j1
    j2 = j2
    a1 = a1
    a2 = a2
    good = good
    other = other
    bad = bad
    None = None
    Jobs <- TwoJobs
    Admins <- TwoAdmins
    Defs <- Mixed
    BadDefs <- OneBad
    Careful <- OneJob
    Stale = FALSE
    RestoreFails = FALSE
    MaxEntries = 2
    MaxCrashes = 1
CHECK_DEADLOCK FALSE
SYMMETRY Symmetry
INVARIANTS
    JobsInv
    Scheduled
PROPERTY RemovesOwn

SPECIFICATION FairSpec
CONSTANTS
    c1 = c1
    h1 = h1
    l1 = l1
    x1 = x1
    x2 = x2
    Checks <- OneCheck
    Shells <- OneShell
    Locals <- OneLocal
    Assets <- TwoAssets
    Credential <- OneAsset
    Proxied <- OtherAsset
CHECK_DEADLOCK FALSE
INVARIANTS
    RunInv
PROPERTY CheckEnds

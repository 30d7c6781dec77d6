SPECIFICATION FairSpec
CONSTANTS
    c1 = c1
    h1 = h1
    l1 = l1
    x1 = x1
    x2 = x2
    Checks <- Nobody
    Shells <- OneShell
    Locals <- Nobody
    Assets <- TwoAssets
    Credential <- OneAsset
    Proxied <- Nobody
CHECK_DEADLOCK FALSE
PROPERTY FailureIsLogged

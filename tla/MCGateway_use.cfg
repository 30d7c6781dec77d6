SPECIFICATION Spec
CONSTANTS
    u1 = u1
    u2 = u2
    k1 = k1
    a1 = a1
    i1 = i1
    i2 = i2
    i3 = i3
    None = None
    Clients <- TwoClients
    Checks <- OneCheck
    Admins <- OneAdmin
    Ids <- ThreeIds
    IdOf <- Shared
    MaxObjects = 2
CHECK_DEADLOCK FALSE
SYMMETRY Tabs
INVARIANTS
    GatewayInv
    UnusedIsDisconnected
    NoLeftovers
PROPERTY OthersKeepTheirs

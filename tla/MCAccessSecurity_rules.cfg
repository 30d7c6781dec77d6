SPECIFICATION Spec
CONSTANTS
    i1 = i1
    i2 = i2
    i3 = i3
    a1 = a1
    a2 = a2
    x = x
    y = y
    None = None
    Id <- TwoIds
    Ip <- Clients
    Form <- Forms
    Admin <- TwoAdmins
SYMMETRY Symmetry
INVARIANTS
    SecurityInv
    MapFollowsRows
    InForce
    DoorsDecide

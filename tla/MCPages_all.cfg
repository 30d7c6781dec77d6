SPECIFICATION Spec
CONSTANTS
  Shown <- MCAllPages
  Ticked <- MCTicked
  SuperAdmin = "super"
  Rows = {1, 2, 3}
  StartRows = {1, 2}
  MaxOps <- MCMaxOps
  MaxCalls = 4
  MaxLost = 1
INVARIANTS PagesInv QuietTableShowsRows ShownIsPermitted
PROPERTIES WaitingEnds
CHECK_DEADLOCK FALSE

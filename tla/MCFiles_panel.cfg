SPECIFICATION Spec
CONSTANTS
  a = a
  b = b
  Names <- MCNames
  Texts = {"new"}
  Typed <- MCTyped
  Chosen <- MCChosen
  Depth = 2
  Limit = 3
  StartTree <- MCStartTree
  FlagSets <- MCFlagSets
  MaxOps = 3
  MaxLost = 1
INVARIANTS FilesInv RemovesWhatWasAgreed QuietShowsTheTree
PROPERTIES WaitingEnds
CHECK_DEADLOCK FALSE

SPECIFICATION Spec
CONSTANTS
  W = 32
  Cap = 11
  Old = Old
  Bad = Bad
  None = None
  Sizes <- MCEight
  BlockSizes <- MCFour
  Starts <- MCFour
  MaxErrors <- MCMaxErrors
  MaxBad = 0
INVARIANTS FillsSize

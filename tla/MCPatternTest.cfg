SPECIFICATION FairSpec
CONSTANTS
  W = 32
  Cap = 11
  Old = Old
  Bad = Bad
  None = None
  Sizes <- MCSizes
  BlockSizes <- MCBlockSizes
  Starts <- MCStarts
  MaxErrors <- MCMaxErrors
  MaxBad = 2
INVARIANTS TypeOK FillRight NoFalseAlarm Detects ShortMap
PROPERTIES Finishes

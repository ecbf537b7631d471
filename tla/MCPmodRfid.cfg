SPECIFICATION FairSpec
CONSTANTS
  TickMs = 10
  Modes <- MCModes
  Levels <- MCLevels
INVARIANTS TypeOK SetupSoFar SteadyTagFound
PROPERTIES KeyEnds GoneShown

SPECIFICATION FairSpec
CONSTANTS
  Capacities <- MCSixteen
  ArgVectors <- MCOneCall
  MaxFaults = 0
  Hi = 1
  Lo = 16
PROPERTIES RemovesAThird

SPECIFICATION FairSpec
CONSTANTS
  Capacities <- MCCapacities
  ArgVectors <- MCArgVectors
  MaxFaults = 2
  Hi = 65536
  Lo = 65536
INVARIANTS FragInv CleanReturn NotDirty Measured
PROPERTIES Returns
CONSTRAINT NotInVain

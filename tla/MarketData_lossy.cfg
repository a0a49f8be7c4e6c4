SPECIFICATION FairSpec
CONSTANTS
  MaxUpdates = 3
  MaxFaults = 3
  LosesSnapshots = TRUE
  Reorders = FALSE
PROPERTIES
  NeverBackwards
  RecoveryEnds

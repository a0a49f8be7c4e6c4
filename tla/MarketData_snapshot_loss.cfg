SPECIFICATION Spec
CONSTANTS
  MaxUpdates = 4
  MaxFaults = 3
  LosesSnapshots = TRUE
  Reorders = FALSE
INVARIANT
  BookInSync

SPECIFICATION Spec
CONSTANTS
  MaxUpdates = 4
  MaxFaults = 2
  LosesSnapshots = FALSE
  Reorders = TRUE
INVARIANTS
  BookInSync

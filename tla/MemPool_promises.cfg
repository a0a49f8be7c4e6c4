\* Not among the runs: what the code's words promise of the pool and do not
\* keep.  With -continue TLC shows both.
SPECIFICATION PoolSpec
CONSTANTS
  N = 5
  PastEnd = {"free", "used"}
INVARIANTS
  EndsOnlyWhenFull
  HeldFromStore
\* an ASSERT may end the process
CHECK_DEADLOCK FALSE

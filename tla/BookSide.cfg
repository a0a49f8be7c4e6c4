SPECIFICATION SideSpec
CONSTANTS
  Orders = {0, 1, 2, 3, 4}
  Prices = {10, 11, 12, 13}
  NULL = NULL
  N = 5
  PastEnd = {"free"}
INVARIANTS BothWays HeldOnce
PROPERTY ImplementsSideOfBook
\* an ASSERT may end the process
CHECK_DEADLOCK FALSE

\* Not among the runs: what the code's words promise of the client's book and do
\* not keep.  With -continue TLC shows both.
SPECIFICATION ClientSpec
CONSTANTS
  ClientIds = {c1}
  OtherClient = cx
  Prices = {4, 5}
  MaxPrice = 5
  Qtys = {1, 2}
  ME_MAX_PRICE_LEVELS = 2
  MaxOrders = 4
  FreshIds = TRUE
  TailSends = FALSE
  NULL = NULL
  MaxLosses = 1
INVARIANTS
  ClearedFully
  BBOIsTop
\* a fault ends the client
CHECK_DEADLOCK FALSE

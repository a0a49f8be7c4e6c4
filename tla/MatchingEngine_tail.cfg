SPECIFICATION EngineSpec
CONSTANTS
  ClientIds = {c1, c2}
  OtherClient = cx
  Prices = {4, 5}
  MaxPrice = 5
  Qtys = {0, 1, 2}
  ME_MAX_PRICE_LEVELS = 2
  MaxOrders = 3
  FreshIds = TRUE
  TailSends = TRUE
  NULL = NULL
INVARIANT
  SnapshotIsBook

SPECIFICATION EngineSpec
CONSTANTS
  ClientIds = {c1, c2}
  OtherClient = cx
  Prices = {4, 5, 6}
  MaxPrice = 6
  Qtys = {0, 1, 2}
  ME_MAX_PRICE_LEVELS = 3
  MaxOrders = 3
  FreshIds = TRUE
  TailSends = FALSE
  NULL = NULL
INVARIANTS
  TypeOK
  NotCrossed
  PriceMapping
  LevelLists
  TimePriority
  OwnerMap
  SnapshotIsBook
  LedgerAddsUp
  TradesAddUp
PROPERTIES
  PriceTimePriority

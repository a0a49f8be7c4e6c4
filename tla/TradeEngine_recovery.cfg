SPECIFICATION TradeSpec
CONSTANTS
  ClientIds = {c1}
  OtherClient = cx
  Prices = {4, 5, 6}
  MaxPrice = 6
  Qtys = {1, 2}
  ME_MAX_PRICE_LEVELS = 3
  MaxOrders = 4
  FreshIds = TRUE
  TailSends = FALSE
  NULL = NULL
  MaxLosses = 1
  threshold_ = 1
  Denominator = 2
INVARIANT
  NotCrossedWithItself
\* a fault ends the client
CHECK_DEADLOCK FALSE

SPECIFICATION TradeSpec
CONSTANTS
  ClientIds = {c1}
  OtherClient = cx
  Prices = {4, 5}
  MaxPrice = 5
  Qtys = {1, 2}
  ME_MAX_PRICE_LEVELS = 2
  MaxOrders = 5
  FreshIds = TRUE
  TailSends = FALSE
  NULL = NULL
  MaxLosses = 1
  threshold_ = 1
  Denominator = 2
VIEW EngineView
INVARIANTS
  OrdersAreKnown BookIsExchangeBook BBONeverWrong QuotesNeverCross RatioAtMostOne
\* a fault ends the client
CHECK_DEADLOCK FALSE

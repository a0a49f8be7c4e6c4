SPECIFICATION Spec
CONSTANTS
  ClientIds = {c1, c2}
  OtherClient = cx
  Prices = {4, 6}
  MaxPrice = 6
  Qtys = {0, 1, 2}
  ME_MAX_PRICE_LEVELS = 2
  MaxOrders = 3
  FreshIds = TRUE
  TailSends = FALSE
  NULL = NULL
INVARIANT
  PriceMapping

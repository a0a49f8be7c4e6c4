SPECIFICATION FairSpec
CONSTANTS
  Prices = {1, 2}
  Price_INVALID = 99
  Clip = 2
  max_order_size_ = 2
  max_position_ = 3
  MaxOrders = 3
INVARIANTS OneOrderPerSide AgreesWhenQuiet PositionWithinLimit
PROPERTY CancelEnds

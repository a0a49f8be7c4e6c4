SPECIFICATION Spec
CONSTANTS
  Prices = {1, 2, 4}
  Price_INVALID = 99
  Qtys = {1, 2, 3, 4}
  MaxPosition = 2
  MaxFills = 4
  Half = 8
  FirstVwaps = {0, 7}
INVARIANT
  ProfitSinceFlat

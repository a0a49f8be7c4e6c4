\* Not among the runs: what PositionInfo means to keep.  Fills of both sides are
\* never set off against each other, and the first fill adds to whatever the
\* memory held.  With -continue TLC shows both.
SPECIFICATION Spec
CONSTANTS
  Prices = {1, 2, 4}
  Price_INVALID = 99
  Qtys = {1, 2, 3, 4}
  MaxPosition = 2
  MaxFills = 4
  Half = 8
  FirstVwaps = {0, 7}
INVARIANTS
  ProfitOfBothSides
  ProfitFromTheFirst

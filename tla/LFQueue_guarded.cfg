SPECIFICATION FairSpec
CONSTANTS
  Values = {a, b}
  NoValue = none
  Size = 3
  Guarded = TRUE
  LateUse = TRUE
  MaxBacklog = 2
  MaxWrites = 5
INVARIANTS
  FifoOrder
  NoDataRace
  ReadIsValid
PROPERTIES
  ImplementsFIFO
  EveryElementTaken

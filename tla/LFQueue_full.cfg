SPECIFICATION Spec
CONSTANTS
  Values = {a, b}
  NoValue = none
  Size = 3
  Guarded = TRUE
  LateUse = FALSE
  MaxBacklog = 3
  MaxWrites = 4
INVARIANT
  BacklogVisible

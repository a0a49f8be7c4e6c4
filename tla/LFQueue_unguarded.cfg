SPECIFICATION Spec
CONSTANTS
  Values = {a}
  NoValue = none
  Size = 3
  Guarded = FALSE
  LateUse = FALSE
  MaxBacklog = 2
  MaxWrites = 3
INVARIANT
  ReadIsValid

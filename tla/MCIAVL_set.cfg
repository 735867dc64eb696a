SPECIFICATION Spec
CONSTANTS
  MaxKey = 5
  Value = {v1}
  MaxVersion = 3
INVARIANTS
  SetNeverPanics

SPECIFICATION Spec
CONSTANTS
  MaxKey = 7
  Value = {v1}
  MaxVersion = 2
INVARIANTS
  GetIsExact
  RangeIsExact
  HashesAreExact
  SavedVersionsReadable
  MeasuresAreExact
PROPERTIES
  SetsKeepBalance

SPECIFICATION CrashSpec
CONSTANTS
  Store = {bank, params}
  LastStore = params
  Value = {v1, v2}
  None = None
  Key = {k1}
  MaxVersion = 3
INVARIANTS
  TreeIsLatestSaved
  NeverPoisoned
PROPERTIES
  HeadNeverRegresses

SPECIFICATION CrashSpec
CONSTANTS
  Store = {bank, params}
  LastStore = params
  Value = {v1}
  None = None
  Key = {k1}
  MaxVersion = 2
INVARIANTS
  MultiStoreIsOneBlock

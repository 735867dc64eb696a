SPECIFICATION BlockSpec
CONSTANTS
  Store = {bank, params}
  LastStore = params
  Value = {v1}
  None = None
  Key = {k1, k2}
  MaxVersion = 2
INVARIANTS
  TypeOK
  StoresInStep
PROPERTIES
  LedgerSpec

SPECIFICATION AheadSpec
CONSTANTS
  bank = bank
  params = params
  k1 = k1
  v1 = v1
  v2 = v2
  None = None
  Store = {bank, params}
  LastStore = params
  Key = {k1}
  Value = {v1, v2}
  MaxVersion = 3
  Writes <- MCWrites
CHECK_DEADLOCK FALSE
INVARIANTS
  StateIsTheChains
  SentStatesAreOneBlock
  HeadVersionIsBlockNumber
PROPERTIES
  BlocksAreCommitted

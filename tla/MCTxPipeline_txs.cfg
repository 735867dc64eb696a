SPECIFICATION Spec
CONSTANTS
  alice = alice
  bob = bob
  carol = carol
  dave = dave
  u = u
  v = v
  FeeCollector = feeCollector
  None = None
  Denom = {u, v}
  Address <- MCAddress
  Tx <- MCTx
  GenesisAccounts <- MCGenesisAccounts
  GenesisBalances <- MCGenesisBalances
  MaxMemo = 1
  MaxTxs = 3
  MaxBlock = 2
INVARIANTS
  TypeOK
  SupplyIsConserved
  NoReplay
  NumbersAreUnique
  HoldersHaveAccounts
  FeesAreCollected
  OnlyBadSignaturesPanic
  TimeoutIsAtMostOneBlockLate
PROPERTIES
  OnlySignersPay
  TransactionsAreAtomic
\* The instance runs out of blocks and transactions, and a panic ends it.
CHECK_DEADLOCK FALSE

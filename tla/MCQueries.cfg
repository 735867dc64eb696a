SPECIFICATION Spec
CONSTANTS
    a = a
    b = b
    collector = collector
    d = d
    e = e
    None = None
    Address = {a, b}
    FeeCollector = collector
    Denom = {d, e}
    FeeDenom = d
    Genesis <- MCGenesis
    Accounts = {a}
    Transfer <- MCTransfer
    Key <- MCKey
    Value <- MCValue
    MaxVersion = 2
    MaxBlock = 2
    MaxPending = 3
    Client = {c1}
PROPERTIES
    ListsAreOfTheLastCommit
    ReadsAreOfWholeTransactions

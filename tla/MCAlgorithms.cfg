SPECIFICATION Spec
CONSTANTS
    Places = 2
    MaxUint = 10000
    Overflow = Overflow
    DivideByZero = DivideByZero
    Malformed = Malformed
    Panic = Panic
    None = None
    NoValue = NoValue
    Denom = {1, 2}
    MaxAddrLen = 2
    MaxGasWanted = 1
    BankURLs = {"MsgSend", "MsgMultiSend"}
    AddressOf <- MCAddressOf
    MaxByte = 2
    AuthSpace <- MCAuthSpace
    BankSpace <- MCBankSpace
    BaseAppSpace <- MCBaseAppSpace
    KeyOf <- MCKeyOf
    MaxDuration = 20
    NanosPerSecond = 5
    Decimals <- MCDecimals
    Exponents <- MCExponents
    BasesAndExponents <- MCBasesAndExponents
    DecimalTexts <- MCDecimalTexts
    RawTxs <- MCRawTxs
    RawAccounts <- MCRawAccounts
    AddressTexts <- MCAddressTexts
    CoinLists <- MCCoinLists
    Transfers <- MCTransfers
    Databases <- MCDatabases
    ByteStrings <- MCByteStrings
    Limits <- MCLimits
    AuthWrites <- MCAuthWrites
    BankWrites <- MCBankWrites
    ConsensusWrites <- MCConsensusWrites
    Leaves <- MCLeaves
    LeafLists <- MCLeafLists
    StoreNames <- MCStoreNames
    StoreHashes <- MCStoreHashes
INVARIANTS
    DecimalsAreExact
    DecodingIsExact
    TransfersAreDecodedAsSigned
    PrefixesKeepApart
    RootsCommit

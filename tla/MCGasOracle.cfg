\* Fees escalate by one half up to a small limit, prices by one tenth.
SPECIFICATION Spec
CONSTANTS
    EscalateMultipleNum = 3
    EscalateMultipleDen = 2
    MaxGasPrice = 6
    MaxBlobGasPrice = 6
    Suggested <- MCSuggested
    BaseFees <- MCBaseFees
    BlobBaseFees <- MCBlobBaseFees
    Prices <- MCPrices
    MinGasPrice = 20
    GasPriceDiff = 1
    GasPriceDiffPrecision = 10
    Contexts = 2
    MaxPending = 2
    MaxMoves = 2
    MaxFaults = 1
    None = None
INVARIANTS
    MemoryInStep
    GenesisImported
    BumpRaises
PROPERTIES
    OracleFollows
CHECK_DEADLOCK FALSE

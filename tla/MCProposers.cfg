\* Size 4 exceeds the limit of a chunk on its own; a blob has room for 3 places of
\* metadata and 5 of transactions.
SPECIFICATION Spec
CONSTANTS
    Chains <- MCChains
    Configs <- MCConfigs
    W = 2
    Byte = 4
    MaxNumChunks = 2
    Usable = 2
    Elements = 4
    FetchLimit = 2
    MaxBlocksPerChunk = 3
    MaxChunkSize = 3
    MaxChunkCalldata = 8
    MaxChunkGas = 10
    MaxChunksPerBatch = 3
    MaxBatchCalldata = 12
    MaxBatchGas = 12
    MaxUint16 = 4
    BatchGas = 3
    MaxFaults = 1
INVARIANTS
    Partition
    RowsMatchHeaders
    CommitReproducesHeader
    BlobReadsBack
PROPERTIES
    BlocksAreBatched
CHECK_DEADLOCK FALSE

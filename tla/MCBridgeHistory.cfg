SPECIFICATION Spec
CONSTANTS
    Scenarios <- MCScenarios
    Deposits <- MCDeposits
    Withdrawn <- MCWithdrawn
    Batch <- MCBatch
    MaxHeight = 4
    SafeDepth = 2
    FetchLimit = 2
    StartHeight = 1
    MaxReorgs = 1
    MaxFaults = 1
    None = None
INVARIANTS
    ProofsVerify
    UpdatedMeansProved
    NothingMissed
    NoncesInStep
PROPERTIES
    TerminalIsFinal

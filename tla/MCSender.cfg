\* The node, the chain, the process and a request may fail, two times in all.
SPECIFICATION Spec
CONSTANTS
    c1 = c1
    c2 = c2
    Contexts <- TwoContexts
    MaxNonce = 2
    MaxFee = 2
    Suggested <- OneFee
    Limit = 4
    ChanSize = 1
    MaxFaults = 1
    MaxEvictions = 1
    MaxReorgs = 1
    MaxCrashes = 1
    MaxTrouble = 2
INVARIANTS
    VerdictsMatchChain
    OnePendingPerNonce
PROPERTIES
    ImplementsTxService
SYMMETRY ContextSymmetry
CHECK_DEADLOCK FALSE

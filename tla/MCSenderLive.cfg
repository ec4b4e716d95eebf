\* No failing requests and no crash.
SPECIFICATION FairSpec
CONSTANTS
    c1 = c1
    c2 = c2
    Contexts <- OneContext
    MaxNonce = 2
    MaxFee = 2
    Suggested <- OneFee
    Limit = 6
    ChanSize = 1
    MaxFaults = 0
    MaxEvictions = 1
    MaxReorgs = 1
    MaxCrashes = 0
    MaxTrouble = 2
PROPERTIES
    RowsResolve
CHECK_DEADLOCK FALSE

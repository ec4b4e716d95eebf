\* Two batches whose commits may revert, and a round of the watcher.
SPECIFICATION FairSpec
CONSTANTS
    MaxBatch = 2
    Backlog = 2
    FirstBlob = 2
    MaxNonce = 4
    FetchLimit = 2
    Bypass = FALSE
    Reverting = {"commit"}
    MaxReverts = 1
    MaxSeen = 1
    MaxFaults = 0
PROPERTIES
    BatchesRollUp
CHECK_DEADLOCK FALSE

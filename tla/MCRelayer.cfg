\* Two batches, with a watcher and a fault.
SPECIFICATION Spec
CONSTANTS
    MaxBatch = 2
    Backlog = 0
    FirstBlob = 2
    MaxNonce = 2
    FetchLimit = 2
    Bypass = FALSE
    Reverting = {}
    MaxReverts = 0
    MaxSeen = 4
    MaxFaults = 1
INVARIANTS
    StatusesAreTrue
CHECK_DEADLOCK FALSE

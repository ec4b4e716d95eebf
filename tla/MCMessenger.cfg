\* Two bits per word, so that the words of a batch straddle buckets.
SPECIFICATION MessengerSpec
CONSTANTS
    Entries <- MessengerEntries
    W = 2
    MaxBatch = 2
    MaxQueue = 4
    MaxPopped = 4
    ReplayLimits = {1, 2}
INVARIANTS
    ChainLinked
    QueueInStep
    SkippedExactly
    ReplayListIsComplete
    DroppedNeverExecuted
PROPERTIES
    FinalizedIsFinal

\* One chunk and its batch, two provers, one of them for chunks only, one failing
\* database call and one restart.
SPECIFICATION FairSpec
CONSTANTS
    p1 = p1
    p2 = p2
    Chunks = {1}
    Batches = {11}
    BatchOf <- OneBatch
    Provers = {p1, p2}
    Handlers = {p1, p2}
    ProverOf <- SelfServed
    Eligible <- OneForBatches
    SessionAttempts = 1
    ProversPerSession = 1
    Tries = 1
    TimeoutLimit = 1
    MaxFaults = 1
    MaxCrashes = 1
INVARIANTS
    BatchWaitsForChunks
    AttemptsAccounted
PROPERTIES
    ProverTaskCloses
    BatchBecomesReady

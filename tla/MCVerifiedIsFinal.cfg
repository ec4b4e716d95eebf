\* One chunk, two attempts, no faults.
SPECIFICATION Spec
CONSTANTS
    p1 = p1
    p2 = p2
    Chunks = {1}
    Batches = {11}
    BatchOf <- OneBatch
    Provers = {p1, p2}
    Handlers = {p1, p2}
    ProverOf <- SelfServed
    Eligible <- ChunksOnly
    SessionAttempts = 2
    ProversPerSession = 2
    Tries = 2
    TimeoutLimit = 2
    MaxFaults = 0
    MaxCrashes = 0
SYMMETRY ProverSymmetry
INVARIANTS
    VerifiedIsFinal

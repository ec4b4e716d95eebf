\* One chunk, attempted at most twice by two provers at once, two failing
\* database calls and one restart.
SPECIFICATION Spec
CONSTANTS
    p1 = p1
    p2 = p2
    Chunks = {1}
    Batches = {11}
    BatchOf <- OneBatch
    Provers = {p1, p2}
    Handlers = {p1, p2}
    ProverOf <- SelfServed
    Eligible <- ChunksOnly
    SessionAttempts = 2
    ProversPerSession = 2
    Tries = 2
    TimeoutLimit = 2
    MaxFaults = 2
    MaxCrashes = 1
SYMMETRY ProverSymmetry
INVARIANTS
    AttemptsBounded
    VerifiedHasProof
    FailedIsExhausted
    AttemptsAccounted
PROPERTIES
    FailedIsFinal

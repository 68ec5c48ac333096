\* One event finds more to read than the bound on reads.
SPECIFICATION Spec
CONSTANTS
    StreamIds = {1}
    PeerIds = {1}
    ErrorCodes = {0}
    Chunks = {c1}
    MaxPayload = 1
    FinCloses = TRUE
    MaxReads = 1
    MaxArrivals = 2
    MaxFailures = 0
INVARIANTS
    CompletedInFull

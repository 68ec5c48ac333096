\* One stream of the peer; no event finds more to read than the bound on reads.
SPECIFICATION FairSpec
CONSTANTS
    StreamIds = {1}
    PeerIds = {1}
    ErrorCodes = {0}
    Chunks = {c1, c2}
    MaxPayload = 4
    FinCloses = TRUE
    MaxReads = 4
    MaxArrivals = 4
    MaxFailures = 0
INVARIANTS
    CompletedInFull
PROPERTIES
    EndIsDelivered

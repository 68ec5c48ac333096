\* One stream of ours, four QUIC events, at most two reads per event, one call that throws.
SPECIFICATION Spec
CONSTANTS
    StreamIds = {0}
    PeerIds = {}
    ErrorCodes = {0}
    Chunks = {c1, c2}
    MaxPayload = 2
    FinCloses = FALSE
    MaxReads = 2
    MaxArrivals = 4
    MaxFailures = 1
INVARIANTS
    TypeOK
    BodyAccounted
    BodyHasOnlyGaps
    CompletionIsEarned
PROPERTIES
    ImplementsContract
    NoEventIsLost

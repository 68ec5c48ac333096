\* A client sends on two streams while one call throws.
SPECIFICATION NativeSpec
CONSTANTS
    Server = FALSE
    StreamIds = {0, 1}
    PeerIds = {}
    ErrorCodes = {0}
    Chunks = {h, d}
    HeaderBlocks = {h}
    MaxPayload = 1
    FinCloses = FALSE
    MaxReads = 1
    MaxArrivals = 1
    MaxFailures = 1
    MaxPieces = 1
    h = h
    d = d
INVARIANTS
    SentInFull
    EndedHasNoBody
PROPERTIES
    HungUpIsSilent

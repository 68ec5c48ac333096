\* A server reads requests and answers while one call throws; its event loop goes on.
SPECIFICATION NativeFairSpec
CONSTANTS
    Server = TRUE
    StreamIds = {0}
    PeerIds = {0}
    ErrorCodes = {0, 7}
    Chunks = {h, d}
    HeaderBlocks = {h}
    MaxPayload = 3
    FinCloses = TRUE
    MaxReads = 3
    MaxArrivals = 3
    MaxFailures = 1
    MaxPieces = 0
    h = h
    d = d
INVARIANTS
    NativeTypeOK
    NativeCompletionIsEarned
    NativeBodyAccounted
    NativeCompletedInFull
PROPERTIES
    ImplementsNativeContract
    NativeEndIsDelivered

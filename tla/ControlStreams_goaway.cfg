\* A request after the GOAWAY frame of the peer.
SPECIFICATION Spec
CONSTANTS
    StreamIds = {0, 2, 4, 6, 10, 14, 18, 22, 26}
    UniIds = {2, 6, 10, 14, 18, 22, 26}
    Defaults <- MCDefaults
    MaxFailures = 0
    ErrorCodes = {0}
    Chunks = {c1}
    MaxPayload = 1
    c1 = c1
PROPERTIES
    NoRequestAfterPeerGoaway

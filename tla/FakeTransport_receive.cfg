\* One stream of ours, one of the peer's, three signals in any order over any polls.
SPECIFICATION FairSpec
CONSTANTS
    StreamIds = {0, 1}
    PeerIds = {1}
    StartId = 0
    ErrorCodes = {0, 7}
    Chunks = {c1, c2}
    MaxPayload = 1
    MaxSignals = 3
    MaxCalls = 0
INVARIANTS
    TypeOK
    EventsInOrder
    BodyConserved
    OneEnding
PROPERTIES
    ImplementsContract
    EndIsDelivered
    CloseIsNoticed

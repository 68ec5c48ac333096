\* Up to four calls per stream and the connection's methods, three signals racing with them.
SPECIFICATION Spec
CONSTANTS
    StreamIds = {0, 1}
    PeerIds = {1}
    StartId = 0
    ErrorCodes = {0}
    Chunks = {c1}
    MaxPayload = 0
    MaxSignals = 3
    MaxCalls = 4
INVARIANTS
    ClosingAgreesWithState
    TerminalClosesHandle
    SendDiscipline
PROPERTIES
    StateOnlyAdvances
    NoRequestAfterGoaway
    NoSendAfterTerminal

\* The three streams are opened while two calls throw; retries may use up the ids.
SPECIFICATION Spec
CONSTANTS
    StreamIds = {0, 2, 4, 6, 10, 14, 18, 22, 26}
    UniIds = {2, 6, 10, 14, 18, 22, 26}
    Defaults <- MCDefaults
    MaxFailures = 2
    ErrorCodes = {0}
    Chunks = {c1}
    MaxPayload = 1
    c1 = c1
INVARIANTS
    TypeOK
    HeadersNeedAllRoles
    WasteIsBounded
    RolesAreDistinct
CHECK_DEADLOCK FALSE

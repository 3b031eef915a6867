SPECIFICATION IBSpec
CONSTANTS
    k1 = k1
    k2 = k2
    k3 = k3
    f1 = f1
    KeepAlives = {k1, k2, k3}
    Fetches = {f1}
    Closer = app
    Workers = 3
    Credentials = TRUE
    Nobody = Nobody
INVARIANTS
    SessionIsKept
PROPERTIES
    OnlySelfLockBlocks
    RequestsAndCloseEnd
CHECK_DEADLOCK FALSE

SPECIFICATION Spec
CONSTANTS
    k1 = k1
    k2 = k2
    r1 = r1
    r2 = r2
    get = get
    NoRequest = NoRequest
    Connections <- OneConnection
    Requests <- TwoRequests
    Routes <- OneRoute
    MaxChunks = 1
    MaxWritables = 1
    MaxListens = 1
    MaxNesting = 2
INVARIANT ShutdownIsClean

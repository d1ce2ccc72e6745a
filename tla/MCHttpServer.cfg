SPECIFICATION BoundedSpec
CONSTANTS
    k1 = k1
    k2 = k2
    r1 = r1
    r2 = r2
    get = get
    NoRequest = NoRequest
    Connections <- TwoConnections
    Requests <- TwoRequests
    Routes <- OneRoute
    MaxChunks = 1
    MaxWritables = 1
    MaxListens = 2
    MaxNesting = 2
INVARIANTS
    PointersToPendingResponses
PROPERTIES
    OnlyPendingResponsesTouched
    EventContract
    RequestsAreReported
    NothingPendingWhenStopped

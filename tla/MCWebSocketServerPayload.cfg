SPECIFICATION Spec
CONSTANTS
    c1 = c1
    c2 = c2
    Clients <- TwoClients
    MaxMessages = 2
    MaxListens = 2
    MaxNesting = 2
    m_maxPayloadSize = 2
    PayloadSizes <- Sizes
SYMMETRY Symmetry

INVARIANT PayloadsArriveComplete

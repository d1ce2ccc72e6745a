SPECIFICATION FairSpec
CONSTANTS
    r1 = r1
    r2 = r2
    fd1 = fd1
    fd2 = fd2
    NoDescriptor = NoDescriptor
    Requests <- TwoRequests
    Descriptors <- TwoDescriptors
    Sizes <- BoundarySizes
    CHUNK_SIZE_IN_BYTES = 2
INVARIANTS
    DescriptorsAreOwned
    EventsInOrder
    LoggedChunksAreStable
    CompletedMeansRead
PROPERTY RequestsEnd
CHECK_DEADLOCK FALSE

SPECIFICATION Spec
CONSTANTS
    Nil = Nil
    None = None
    NULL = NULL
    z1 = z1
    z2 = z2
    d1 = d1
    a = a
    b = b
    s1 = s1
    g1 = g1
    p1 = p1
    output1 = output1
    h1 = h1
    h2 = h2
    t1 = t1
    t2 = t2
    Zips <- TwoZips
    Descriptors <- OneDescriptor
    Names <- TwoNames
    DiskArchive <- TwoEntries
    MaxEntries = 2
    UINT_RANGE = 16
    LUAL_BUFFERSIZE = 2
    MaxOutput = 6
    INT_MAX = 7
    Sampled <- OneSource
    Gains <- OneGain
    Panners <- OnePanner
    Destination = output1
    Edges <- SomeEdges
    MaxQueued = 2
    Rates <- SomeRates
    MaxHandles = 2
    LUA_MINSTACK = 20
    MaxChunks = 3
    MaxChunkSize = 2
    MaxQuality = 2
    Colors <- SomeColors
    BYTE_BITS = 4
    CHAR_BITS = 3
    Bytes <- SomeBytes
    MaxInput = 4
    InitialCapacity = 4
    MaxHashes = 3
    Handles <- TwoHandles
    MaxLength = 2
    Tables <- TwoTables
    Root = t1
    StringKeys <- TwoKeys
    MAX_DEPTH = 2
INVARIANTS
    BindingsTypeOK
    ReadersOwnTheirDescriptors
    IndicesAgree
    DecompressionIsComplete
    
    StackNeverOverflows
    RunsAreComplete
    ImagesAreSound
    ConversionsAreSound
    DescriptorsAreClosedOnce
    EncodingIsExact
CHECK_DEADLOCK FALSE

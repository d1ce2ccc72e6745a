SPECIFICATION Spec
CONSTANTS
    q1 = q1
    q2 = q2
    g1 = g1
    t1 = t1
    NULL = NULL
    Queues <- TwoQueues
    Geometries <- OneGeometry
    Textures <- OneTexture
    Values <- TwoValues
    Counts <- SomeCounts
    DefaultScale = 0
    Observed <- SomeEvents
    MaxPending = 2
    MaxPlain = 1
SYMMETRY Symmetry
INVARIANTS
    NoUseAfterFree
    DrainedRendererMatchesRml
    DrainedContextFollowsWindow
PROPERTY DrawsOnlyWhatItHolds
CHECK_DEADLOCK FALSE

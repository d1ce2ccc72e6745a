SPECIFICATION Spec
CONSTANTS
    e1 = e1
    e2 = e2
    l1 = l1
    l2 = l2
    l3 = l3
    Events <- TwoEvents
    Listeners <- ThreeListeners
    isForceEnabled = FALSE
    MaxDepth = 2
    MaxLog = 1
SYMMETRY Symmetry
INVARIANT AllSubscribersAreCalled

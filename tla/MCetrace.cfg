SPECIFICATION Spec
CONSTANTS
    e1 = e1
    e2 = e2
    l1 = l1
    l2 = l2
    l3 = l3
    Events <- OneEvent
    Listeners <- TwoListeners
    isForceEnabled = FALSE
    MaxDepth = 2
    MaxLog = 2
SYMMETRY Symmetry
INVARIANTS
    EveryoneOnce
    OnlySubscribersAreCalled

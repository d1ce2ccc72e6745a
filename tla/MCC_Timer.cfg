SPECIFICATION FairSpec
CONSTANTS
    t1 = t1
    t2 = t2
    th1 = th1
    th2 = th2
    NoTimer = NoTimer
    NoThread = NoThread
    Timers <- TwoTimers
    Threads <- TwoThreads
    MaxDeferrals = 2
INVARIANTS
    CheckerStartedIffNeeded
    DeferredInOrder
    RegistryMatchesHandles
    FiredOneshotsAreClosed
    FatalOnlyBySelfStopOrDefer
    SleepersHaveOneAlarm
PROPERTIES
    DeferredEventuallyRun
    SleepersEventuallyWake
CHECK_DEADLOCK FALSE

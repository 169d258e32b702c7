SPECIFICATION FairSessionSpec
CONSTANTS
    NumAddrs = 2
    NumSlots = 2
    NumTriggers = 1
    CsrViaProgbuf = TRUE
    MaxInFlight = 2
    Ops <- MCOps
    Faults <- MCFaults
    AppTasks <- MCTasks
    GarbageTids <- MCGarbage
INVARIANTS
    ServerIsSound
    HaltedMeansSaved
PROPERTIES
    
    TriggersStaleOnlyWhileRunning
    ArmedInStep
    
    InterruptAnswered
CHECK_DEADLOCK FALSE

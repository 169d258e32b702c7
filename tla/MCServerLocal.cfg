SPECIFICATION FairSpec
CONSTANTS
    NumAddrs = 2
    NumSlots = 1
    NumTriggers = 1
    CsrViaProgbuf = TRUE
    MaxInFlight = 1
    Ops <- MCOps
    Faults <- MCFaults
    AppTasks <- MCTasks
    GarbageTids <- MCGarbage

    
PROPERTIES
    
    TasksLostOnlyBySwitch
    StoppedUntilCreation
    ScratchKept
CHECK_DEADLOCK FALSE

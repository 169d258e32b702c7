SPECIFICATION Spec
CONSTANTS
    NumAddrs = 2
    NumSlots = 1
    NumTriggers = 1
    CsrViaProgbuf = TRUE
    MaxInFlight = 1
    Ops <- SwitchOps
    Faults <- MCFaults
    AppTasks <- MCTasks
    GarbageTids <- MCGarbage
INVARIANT
    ContinueResumesTasks
CHECK_DEADLOCK FALSE

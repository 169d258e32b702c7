SPECIFICATION SessionSpec
CONSTANTS
    NumAddrs = 2
    NumSlots = 2
    NumTriggers = 1
    CsrViaProgbuf = TRUE
    MaxInFlight = 2
    Ops <- ReinitOps
    Faults <- MCFaults
    AppTasks <- MCTasks
    GarbageTids <- MCGarbage
INVARIANT
    HartRunsWithItsRegisters
CHECK_DEADLOCK FALSE

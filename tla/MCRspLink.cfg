SPECIFICATION FairSpec
CONSTANTS
    Ops <- MCOps
    RxDepth = 4
    BatchMax = 2
    PktMax = 4
    TxDepth = 1
    Strays <- MCStrays
    MaxCommands = 2
    MaxFaults = 2
    MaxCount = 9

    
    
PROPERTIES
    AnswersAreFresh
    GdbGetsItsPrompt
CHECK_DEADLOCK FALSE

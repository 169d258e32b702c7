SPECIFICATION FairSpec
CONSTANTS
    a = a
    b = b
    c = c
    Names = {a, b, c}
    NoName = NoName
    MaxFiles = 2
    Blocks = {b1, b2, b3, b4}
    Null = Null
    Malloc <- MCMalloc
    Served <- MCServed
    Versions = {1, 2}
    QueueDepth = 1
    FirstSize = 1
    MaxSize = 2
    MaxCommands = 3
    Bitstreams <- MCBitstreams
INVARIANTS
    FilesAreSound
    ResponsesAreTrue
    UnknownLengthReadToItsEnd
    UnracedCopyIsTheFile
    
    SoundAttemptSucceeds
    InIscOnlyAfterTimeout
CHECK_DEADLOCK FALSE
PROPERTIES
    ImplementsFileTopic
    EveryCommandEnds

SPECIFICATION FairSpec
CONSTANTS
    Size = 8
    MaxLen = 6
    Byte <- MCByte
    Fill = Fill
    Contents <- MCContents
    Payloads <- MCPayloads
    MaxCalls = 2
INVARIANTS
    ReadsTheTarget
    WritesAPrefix
PROPERTIES
    ImplementsRemoteMemory
    CallReturns

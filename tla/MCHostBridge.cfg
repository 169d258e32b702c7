SPECIFICATION FairSpec
CONSTANTS
    MaxConns = 3
    MaxRequests = 2
INVARIANTS
    BridgeIsSound
    AnswersGoToTheAsker
PROPERTIES
    RequestsAreAnswered
CHECK_DEADLOCK FALSE

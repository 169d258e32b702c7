SPECIFICATION FairSpec
CONSTANTS
    Fields <- MCFields
    Values = {1, 2}
    Default = 1
    Missing = 0
    WIFI_MAX_RETRY = 2
    MaxDrops = 5
    CmdTopic = "cmd"
    MAX_HANDLERS = 4
    Modules <- MCModules
    Topics <- MCTopics
    MaxRestarts = 2
INVARIANTS
    SettingsPersist
    GivesUpAfterRetries
    TopicsAreSound
PROPERTIES
    Reconnects
CHECK_DEADLOCK FALSE

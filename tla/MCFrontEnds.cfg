SPECIFICATION MCSpec
CONSTANTS
    ChannelCap = 2
    RetainCap = 1
    QueueCap = 2
    MaxEmits = 3
    Queues = {steering}
    Keys = {k1}
    IdemLimit = 1
    MaxDrafts = 1
    MaxCommands = 3
    Profiles = {main, other}
    MaxInputs = 2
    MaxSessions = 3
    MaxTaskEmits = 2
    BusCap = 1
    AllEmit = FALSE
INVARIANTS
    RpcSound
    InterfaceSound
PROPERTIES
    RpcShown
    RunsEnd
    LoopDelivers
CHECK_DEADLOCK FALSE

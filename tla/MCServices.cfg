SPECIFICATION Spec
CONSTANTS
    DAgents = {"main", "helper"}
    DTeams = {"team"}
    DDefault = "main"
    DPolicy <- MCPolicy
    DMembers <- MCMembers
    DMaxRequests = 3
    DMaxOps = 2
    DMaxFaults = 1
    PPaths = {1, 2}
    PFiles <- MCFiles
    PMaxEdits = 1
    PMaxOps = 3
    CProfiles <- MCProfiles
    CPluginTools = {"t"}
    CMaxDepth = 3
    CMaxGen = 3
    TMaxLines = 2
    TMaxBytes = 4
    TMaxChars = 4
    TKeep = 5
    TTexts <- MCTexts
    TLimits = {0, 1, 3}
    TLines = {0, 6}
    TMaxWrites = 4
INVARIANTS
    DelegationSound
    PluginsSound
    HandlesFollowTools
    OutputTruthful
PROPERTIES
    DelegationEnds
    BashCallEnds
CHECK_DEADLOCK FALSE

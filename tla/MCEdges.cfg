SPECIFICATION Spec
CONSTANTS
    PNine = 2
    PApis = {"anthropic", "completions", "responses", "azure", "codex", "google", "mistral", "bedrock", "deepseek"}
    PBodies <- MCAnswers
    PMaxRetries = 1
    PMaxLost = 1
    PMaxTurns = 2
    HStreams = {1, 2}
    HHooks = {"start", "auth"}
    HHandlers = {1}
    HObservers = {1}
    HHeaders = {1}
    HMaxOps = 2
    HMaxEvents = 1
    HMaxMessages = 1
    FTasks = {1, 2}
    FNames = {"real", "link"}
    FBodies <- MCBodies
    FEdits <- MCEdits
    FMaxRepairs = 1
    FMaxDrops = 1
    GProcs = {p1, p2}
    GItems <- MCItems
    GChoices <- MCChoices
    GDefaults <- MCDefaults
    GContents <- MCContents
    GProviders = {"x", "y"}
    GUsed = "x"
    GEnvs <- MCEnvs
    GVisible = 1
    GMaxOps = 4
INVARIANTS
    ProviderSound
    HarnessSound
    EditsSound
    SettingsKept
CHECK_DEADLOCK FALSE

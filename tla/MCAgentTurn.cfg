SPECIFICATION MCSpec
CONSTANTS
    Scopes = {"texts", "runs"}
    Weight <- OneEach
    ContextWindow = 4
    ReserveTokens = 1
    KeepRecent = 2
    MaxTurns = 2
    MaxRuns = 2
    MaxTexts = 3
    MaxCalls = 2
    Usages = {0, 3}
    Reasons = {"stop", "tool_use", "error"}
    Configs <- TwoConfigs
INVARIANTS
    StreamSound
    TextsKept
    CallsAnswered
PROPERTIES
    RunEnds
CHECK_DEADLOCK FALSE

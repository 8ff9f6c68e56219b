SPECIFICATION MCSpec
CONSTANTS
    Scopes = {"texts"}
    Weight <- OneEach
    ContextWindow = 4
    ReserveTokens = 1
    KeepRecent = 2
    MaxTurns = 2
    MaxRuns = 1
    MaxTexts = 2
    MaxCalls = 1
    Usages = {3}
    Reasons = {"stop", "tool_use", "error"}
    Configs <- TwoConfigs
CHECK_DEADLOCK FALSE
INVARIANTS ResultsHaveCalls

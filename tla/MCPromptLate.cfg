SPECIFICATION MCSpec
CONSTANTS
    Parts = {"prompt"}
    MaxOperations = 3
    MaxItems = 1
    MaxSwitches = 1
    MaxForks = 1
    MaxFaults = 2
    Offered = {"prompt", "compact", "summary", "edit"}
    Clients = {c1}
    MaxClients = 2
    MaxGeneration = 2
    ControlIds = {k1, k2}
    Texts = {1}
    ChannelCapacity = 2
    MaxReceipts = 2
    MaxQueued = 1
    Drafting = {"Steer"}
    Fronts = {"ui"}
    MaxPrompts = 1
    MaxControls = 1
    MaxTurns <- Turns
    MaxCalls <- Calls
    Numbered = TRUE
SYMMETRY Symmetry
INVARIANTS
    EndsRecorded
CHECK_DEADLOCK FALSE

SPECIFICATION MCSpec
CONSTANTS
    Parts = {"faults"}
    MaxOperations = 1
    MaxItems = 1
    MaxSwitches = 0
    MaxForks = 0
    MaxFaults = 1
    Offered = {"prompt"}
    Clients = {c1}
    MaxClients = 2
    MaxGeneration = 2
    ControlIds = {k1, k2}
    Texts = {1}
    ChannelCapacity = 2
    MaxReceipts = 2
    MaxQueued = 1
    Drafting = {"Steer"}
    Fronts = {"rpc", "ui", "print"}
    MaxPrompts = 2
    MaxControls = 2
    MaxTurns <- Turns
    MaxCalls <- Calls
    Numbered = TRUE
SYMMETRY Symmetry
INVARIANTS
    NoHalfLifecycle
CHECK_DEADLOCK FALSE

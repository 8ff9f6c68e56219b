SPECIFICATION MCSpec
CONSTANTS
    Parts = {"faults", "branches", "prompt"}
    MaxOperations = 3
    MaxItems = 1
    MaxSwitches = 1
    MaxForks = 1
    MaxFaults = 2
    Offered = {"prompt", "compact", "summary", "edit"}
    Clients = {c1}
    MaxClients = 2
    MaxGeneration = 2
    ControlIds = {k1, k2}
    Texts = {1}
    ChannelCapacity = 2
    MaxReceipts = 2
    MaxQueued = 1
    Drafting = {"Steer"}
    Fronts = {"rpc", "ui", "print"}
    MaxPrompts = 2
    MaxControls = 2
    MaxTurns <- Turns
    MaxCalls <- Calls
    Numbered = TRUE
SYMMETRY Symmetry
INVARIANTS
    LogSound
    OneFinalMarker
    ManifestLeafCommitted
    LeavesSound
    ControlsSound
    TurnRecorded
PROPERTIES
    OpenRecovers
CHECK_DEADLOCK FALSE

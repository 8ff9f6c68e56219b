CONSTANTS
    Clients = {c1}
    MaxClients = 2
    MaxGeneration = 1
    MaxOperations = 1
    MaxEvents = 2
    MaxDrafts = 1
    Offered = {"prompt"}
    Readers = {}
    AckAhead = 0
SPECIFICATION MCSpec
INVARIANT OutcomeReturned
CHECK_DEADLOCK FALSE

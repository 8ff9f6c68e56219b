SPECIFICATION MCSpec
CONSTANTS
    Clients = {c1}
    MaxClients = 2
    MaxGeneration = 2
    MaxOperations = 2
    MaxEvents = 2
    MaxDrafts = 1
    Offered = {"prompt", "nested", "change", "read"}
    Readers = {c1}
    AckAhead = 1
INVARIANTS
    SubmissionSound
    ViewNotStale
PROPERTIES
    OutcomeUntilAcked
    SubmissionsEnd
CHECK_DEADLOCK FALSE

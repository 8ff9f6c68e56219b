CONSTANTS
    Emitters = {e1}
    Clients = {c1}
    RetainedCapacity = 2
    ChannelCapacity = 2
    MaxEvents = 4
SPECIFICATION FairSpec
INVARIANTS
    TypeOK
    RetainedWindow
    NoHandoffOmission
    ClientsCovered
PROPERTIES
    ImplementsFeed

CONSTANTS
    Dest = Dest
    Other = Other
    Id = Id
    OtherId = OtherId
    NoReply = NoReply
    Routing <- MC_Routing
    MaxSends = 3
    MaxChan = 2
    MaxStray = 2
    MaxRestarts = 2

SPECIFICATION Spec
CHECK_DEADLOCK FALSE

INVARIANTS
    TypeOK

PROPERTIES
    PendingTimesOut
    RefinesOutboundTransaction

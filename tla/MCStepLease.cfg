SPECIFICATION FairSpec
CONSTANTS
    Steps = {s1}
    Clients = {c1, c2}
    Watchers = {w1}
    NoHolder = NoHolder
    NoHandle = NoHandle
    TTL = 2
    Buffer = 1
    MaxTime = 6
    MaxTickets = 3
INVARIANTS
    TypeOK
    BelieverHolds
PROPERTIES
    SilentRelease
    ImplementsContract
    LapseCleared
CHECK_DEADLOCK FALSE

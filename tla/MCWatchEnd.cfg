SPECIFICATION Spec
CONSTANTS
    Steps = {s1}
    Clients = {c1, c2}
    Watchers = {w1}
    NoHolder = NoHolder
    NoHandle = NoHandle
    TTL = 2
    Buffer = 1
    MaxTime = 5
    MaxTickets = 3
INVARIANTS
    NoSendAfterClose
CHECK_DEADLOCK FALSE

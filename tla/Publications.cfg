SPECIFICATION Spec
CHECK_DEADLOCK FALSE
CONSTANTS
    Clients = {c1}
    SubscribeRequests <- MCSubscribeRequests
    MaxSubs = 2
    RetainedCapacity = 2
    QueueLength = 1
    MaxEvents = 1
    MaxConnects = 2
    MaxStarts = 2
INVARIANTS
    NothingMissed
    ModeCurrent
    FaultRepublished

CONSTANTS
    Machines = {"hmi", "core"}
    SeqModulus = 8
    Profiles = {"preferred"}
    QueueLength = 1
    CacheSize = 1
    RequestIds = {1}
    MaxConn = 2
    MaxSession = 2
    MaxEpoch = 2
    MaxSeq = 2
    MaxBeat = 1
SPECIFICATION Spec
INVARIANTS
    AtMostOnce
    EpochsInOrder
    EpochNamesHolder
PROPERTIES
    LeaseExpires
CHECK_DEADLOCK FALSE

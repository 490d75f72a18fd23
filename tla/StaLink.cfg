SPECIFICATION StaSpec
CHECK_DEADLOCK FALSE
CONSTANTS
    EventQueueLength = 2
    AuthLimit = 2
    MaxGen = 4
INVARIANTS
    NeverStuck
PROPERTIES
    QuietInService

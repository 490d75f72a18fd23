SPECIFICATION Spec
CHECK_DEADLOCK FALSE
CONSTANTS
    Kinds = {"config", "security", "people", "machines"}
    Clients = {"portal", "recovery"}
    Values = {1, 2}
    MaxGen = 4
    QueueLength = 1
    MaxFaults = 1
INVARIANTS
    NoLostUpdate
    IdentityStaysLocked
    BootsAgain
PROPERTY ImplementsRegister

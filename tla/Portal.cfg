SPECIFICATION PortalSpec
CHECK_DEADLOCK FALSE
CONSTANTS
    Ids = {"ann"}
    MaxHumans = 1
    MaxRoles = 2
    Capacity = 2
    Scenarios <- MCScenarios
    LevelChoices = {3}
    RoleNames = {"r", "s"}
    RoleChoices <- MCRoleChoices
    SessionCapacity = 2
    PerPrincipal = 1
    QueueLength = 1
    PageMax = 2
    MaxGen = 6
    MaxEpoch = 3
INVARIANTS
    NoStaleAuthority
    AuditComplete
    AuditTruthful
    FailsClosed

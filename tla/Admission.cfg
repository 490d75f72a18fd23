SPECIFICATION Spec
CHECK_DEADLOCK FALSE
SYMMETRY Interchangeable
CONSTANTS
    Addresses = {a, b}
    Names = {x, y}
    BrokerTasks = {m1, m2}
    Buckets = 1
    FailureLimit = 2
    FailureWindow = 3
    CooldownInitial = 2
    CooldownMax = 5
    GlobalWindow = 3
    GlobalBurst = 3
    UnprovenBurst = 2
    ProvenSources = 1
    ProvenTtl = 3
    AdmissionMax = 1
    BenchmarkTime = 2
    SubmitWait = 2
    Budgets <- MCBudgets
INVARIANTS
    LoginGetsItsTurn
    FailedLoginsCoolDown
    ReservedShareKept

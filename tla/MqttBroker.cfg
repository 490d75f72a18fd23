CONSTANTS
    Machines = {a, b}
    Sources = {"p"}
    MaxClients = 1
    MaxPre = 1
    MaxUnproven = 1
    Fds = {1, 2}
    Capacity = 1
    MaxConn = 2
    MaxStarts = 1
    MaxMachines = 2
    MaxChanges = 1
SPECIFICATION Spec
SYMMETRY Symmetry
INVARIANTS
    OldPrincipalGone
    ClaimedDescriptorSafe
    StoppedIsQuiet
CHECK_DEADLOCK FALSE

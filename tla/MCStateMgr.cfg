SPECIFICATION FairSpec
CONSTANTS
    MaxRpm = 3
    DeltaAccel = 2
    DeltaDecel = 2
    Requests <- MCRequests
    GenModulus = 2
    FailingOps = {"recover"}
INVARIANTS
    IInv
PROPERTIES
    NoSurge
    StopCompletes
    EstopServed

SPECIFICATION PathSpec
CONSTANTS
    Num = 360
    Spr = 3
    MaxRate = 10
    MinPeriod = 11
    PulseWidth = 5
    Asked = {1, 4, 7, 10, 11}
    MaxSteps = 40
    Digits = {"0", "1"}
    MaxTarget = 10
    U32Max = 109
    U64Max = 1009
    MaxDigits = 4
    SpaceWithin = 4
INVARIANTS
    ExactRate
    DecodesExactly
    AcceptedTargetRuns
CHECK_DEADLOCK FALSE

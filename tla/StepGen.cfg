SPECIFICATION FairSpec
CONSTANTS
    Rate = {1, 2}
    TimerMayFail = TRUE
INVARIANTS
    StopIsFinal
PROPERTIES
    ImplementsContract
    RateTakesEffect

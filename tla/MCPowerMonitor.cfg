SPECIFICATION MonitorFairSpec
CONSTANTS
    Pin <- BoundaryPins
    IdleLimit = 5
    WarnEvery = 5
    LowRounds = 3
INVARIANTS
    ForcedSleepIsEarned
    LowBatteryIsTold
PROPERTIES
    LeftAloneItSleeps
CHECK_DEADLOCK FALSE

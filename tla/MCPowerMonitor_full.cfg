SPECIFICATION MonitorSpec
CONSTANTS
    Pin <- GoodPins
    IdleLimit = 5
    WarnEvery = 5
    LowRounds = 3
INVARIANT ForcedOnlyWhenLow
CHECK_DEADLOCK FALSE

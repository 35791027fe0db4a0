SPECIFICATION RadarSpec
CONSTANTS
    ScanTries = 2
    MaxLost = 3
    RangeWord <- ShortRange
    Last = 10
CHECK_DEADLOCK TRUE
INVARIANTS RepliesInStep SightingsAreFresh

SPECIFICATION FairSpec
CONSTANTS
    LedNum = 4
    QueueLen = 2
    RandomFlashes = 2
    FlowFlashes = 3
INVARIANTS
    StoppedStripIsQuiet
PROPERTIES
    StopReturns

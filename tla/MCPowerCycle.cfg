SPECIFICATION FairSpec
CONSTANTS
    Number <- TwoNumbers
    MaxItems = 4
    SpeechQueue = 2
CHECK_DEADLOCK TRUE
INVARIANTS MoveIsFinished WholeNumbers SleepsDark FramesAreWhole
PROPERTIES BootEnds

SPECIFICATION AllSpec
CONSTANTS
    CaseLen = 7
    NumCases = 4
    StartRange = 4
    StartMin = 2
    Window = 3
    DispQueue = 2
    BlinkTimes = 2
    Percentages = {90}
    MaxAsked = 2
    Announce <- ShortAnnounce
    RecvQueue = 2
    Goal = 4
    Rounds = 3
    AttackTicks = 5
    Wrap = 6
    MaxTicks = 8
INVARIANTS
    ShotsAreJudged
    LiveScoreIsFinal
    ScoreIsShown
    ShotsAreEarned
CHECK_DEADLOCK FALSE

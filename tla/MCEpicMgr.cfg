SPECIFICATION FairSpec
CONSTANTS
    Addr = {a1, a2}
    Task = {t1, t2}
    Kind <- FourKinds
    NoAddr = NoAddr
    NoKind = NoKind
    QueueLen = 1
    HitMod = 2
    CreateCanFail = TRUE
INVARIANTS
    OneGameAtATime
    RunningFlagIsTruthful
    StaleHandleOnlyInTail
PROPERTIES
    ServoCutOnlyByDoubleShot
    SwitchCompletes
    EndedGameIsReaped
    ImplementsSession
CHECK_DEADLOCK FALSE

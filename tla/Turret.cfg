SPECIFICATION FairSpec
CONSTANTS
    Tasks = {t1, t2}
    Sweep = 2
    Tries = 2
    Burst = 2
INVARIANTS
    OnePatrol
    QuietWhenStopped
PROPERTY StopEnds

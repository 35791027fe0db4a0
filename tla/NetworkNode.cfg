SPECIFICATION Spec
CONSTANTS
    Phone = {"home", "office"}
    Accepted = {"home", "office"}
    MaxEvents = 3
    Servers = {"s1"}
    MaxSockets = 10
    Pings = 3
    LastVersion = 2
    Parts = 2
CHECK_DEADLOCK TRUE
INVARIANTS FlashKeepsLink CommandsReachMaster
PROPERTIES WifiInitReturns LogInitEnds UpdatesRestartIntoNewer

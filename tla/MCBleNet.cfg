SPECIFICATION MgrFairSpec
CONSTANTS
    Device = {"gun", "vest", "tag", "toy"}
    Handle = {1, 2}
    Slot = {1, 2}
    NoDev = NoDev
    NoHandle = NoHandle
    NoPeer = NoPeer
    Gatt <- MCGatt
    PoolSize <- MCPoolSize
    CallsFail = TRUE
    Walker = {"ble"}
    FirstHandle = 1
    CmdQueue = 1
CHECK_DEADLOCK TRUE
INVARIANTS TableIsExact DiscoveryOwnsPeer NoBlockLost AttributeIsCurrent UidsReachTheirOwner
PROPERTY KeepsLooking

CONSTANTS
    Dbs = {"inbox", "sealed"}
    Paged = {"inbox"}
    Sends <- MCSends
    Block = 1
    Cap = 2
    MaxDrops = 2
    MaxFails = 1
SPECIFICATION Spec
INVARIANTS
    SyncInv
PROPERTIES
    OnceBetweenSyncs
    EveryMessageArrives
CHECK_DEADLOCK FALSE

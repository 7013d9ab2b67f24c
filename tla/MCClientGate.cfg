CONSTANTS
    E2EE = TRUE
    ChanCap = 4
    EarlySuccess = {TRUE, FALSE}
    MaxMsgs = 3
    MaxDrops = 2
SPECIFICATION GateFairSpec
INVARIANT GateInv
PROPERTY LostOnlyOnDisconnect
PROPERTY ComesReady
CHECK_DEADLOCK FALSE

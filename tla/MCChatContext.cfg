CONSTANTS
    t1 = t1
    t2 = t2
    m1 = m1
    m2 = m2
    m3 = m3
    m4 = m4
    Threads <- MCThreads
    Msgs <- MCMsgs
    Kinds <- MCKinds
    Home <- MCHome
    Stamp <- MCStamp
    Limit = 2
    TTL = 2
    MaxEntries = 1
    MaxFaults = 1
    MaxTime = 2
SPECIFICATION Spec
INVARIANT ContextInv
PROPERTY ServesRecent
PROPERTY ServesSettled
CHECK_DEADLOCK FALSE

CONSTANTS
    s1 = s1
    s2 = s2
    Savers <- MCSavers
    MemoryOnly = {TRUE, FALSE}
    ReadFaults = {TRUE, FALSE}
    MaxKey = 2
    MaxRest = 1
    MaxEvents = 1
    MaxDevices = 3
    d1 = d1
    d2 = d2
    Letters <- MCLetters
    Downloads = {d1, d2}
    MaxAge = 2
    MaxMishaps = 1
    ChunkSize = 2
SPECIFICATION MCSpec
INVARIANTS
    SameDevice
    MediaFound
PROPERTY NoPreKeyReplaced
CHECK_DEADLOCK FALSE

CONSTANTS
    h1 = h1
    h2 = h2
    Senders <- TwoSenders
    Everybody = everybody
    Burst = 2
    PerToken = 3
    Refill = 2
    MaxTime = 6
    MaxSkew = 1
    i1 = i1
    i2 = i2
    i3 = i3
    i4 = i4
    i5 = i5
    Ids <- FiveIds
    cap = 3
    Unset = Unset
SPECIFICATION MCSpec
INVARIANT RateBound
INVARIANT WaitIsBounded
PROPERTY RefinesWindow
CHECK_DEADLOCK FALSE

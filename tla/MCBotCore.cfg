CONSTANTS
    d1 = d1
    d2 = d2
    d3 = d3
    m1 = m1
    m2 = m2
    alice = alice
    bob = bob
    Self = bot
    bot = bot
    Unset = Unset
    Events <- MCEvents
    Ids <- MCIds
    Users <- MCUsers
    IdOf <- MCIdOf
    SenderOf <- MCSenderOf
    Matches <- MCMatches
    cap = 2
    MaxConcurrent = 1
    DbFaults = {FALSE}
SPECIFICATION Spec
INVARIANT CoreInv
INVARIANT OneVerdictPerId
INVARIANT HistoryIsWhatRan
PROPERTY BlockedNeverStarts
CHECK_DEADLOCK FALSE

CONSTANTS
    d1 = d1
    d2 = d2
    d3 = d3
    m1 = m1
    m2 = m2
    alice = alice
    bob = bob
    Self = bot
    bot = bot
    Unset = Unset
    Events <- MCEvents
    Ids <- MCIds
    Users <- SoloUsers
    IdOf <- MCIdOf
    SenderOf <- SoloSenderOf
    Matches <- SoloMatches
    cap = 1
    MaxConcurrent = 1
    DbFaults = {TRUE, FALSE}
SPECIFICATION FairSpec
PROPERTY EveryDeliverySettles
PROPERTY ShutdownEnds
CHECK_DEADLOCK FALSE

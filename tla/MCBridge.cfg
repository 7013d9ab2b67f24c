CONSTANTS
    Threads = {1, 2}
    Calls <- MCCalls
    MaxHTTPRetries = 1
SPECIFICATION FairSpec
INVARIANTS
    BridgeInv
    OkMeansSent
PROPERTY CallsEnd
CHECK_DEADLOCK FALSE

CONSTANTS
    q1 = q1
    q2 = q2
    q3 = q3
    Callers = {q1, q2, q3}
    Clients = {q1, q2}
    Buckets = {"ip", "user"}
    IPBucket = "ip"
    UserBucket = "user"
    NoBucket = "none"
    Cap <- MCCap
    Cost <- MCCost
    Ttl = 1
    MaxTime = 2
    Expiry = 1
    NoClaims = NoClaims
    Earlier <- MCEarlier
    Mixes <- MCMixes
    User <- MCUser
    Types = {"ride", "driver"}
    SubChoices = {{"ride"}}
    BroadcastCap = 1
    SendCap = 1
    MaxMessages = 2
SPECIFICATION FairSpec
INVARIANTS
    TypeOK
    RateBound
    NoSendOnClosed
    InOrder
    
PROPERTIES
    Cleanup
    
CHECK_DEADLOCK FALSE

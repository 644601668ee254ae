CONSTANTS
    r1 = r1
    r2 = r2
    d1 = d1
    Rides = {r1, r2}
    Drivers = {d1}
    Workers = {w1, w2}
    Nobody = Nobody
    Logs <- MCLogs
    MaxRetries = 1
    MaxRebalances = 1
    MaxCrashes = 1
    Window = 2
    MaxTime = 3
SPECIFICATION FairSpec
INVARIANTS
    TypeOK
    
    
    
    Downsampled

    
    
CHECK_DEADLOCK FALSE

CONSTANTS
    d1 = d1
    d2 = d2
    Drivers = {d1, d2}
    Rides = {r1}
    Tokens = {t1, t2, t3}
    None = None
    Consumers = {c1}
    Calls = {}
    Dist <- MCDist
    Rating <- MCRating
    MaxCandidates = 2
    MaxRetries = 1
    MaxCopies = 2
    Written <- MCWritten
    Processes = {"p1"}
    Host <- MCHost
SPECIFICATION Spec
INVARIANT NoDuplicateAssignment
CHECK_DEADLOCK FALSE

CONSTANTS
    Drivers = {d1}
    Rides = {r1}
    Tokens = {t1, t2}
    None = None
    MaxCopies = 1
SPECIFICATION FairSpec
PROPERTIES
    ReleaseReturns
    QuietHandleFreesDriver

CONSTANTS
    Drivers = {d1}
    Rides = {r1, r2}
    Tokens = {t1, t2}
    None = None
    MaxCopies = 2
SYMMETRY Symmetry
SPECIFICATION Spec
INVARIANTS
    TypeOK
    HandleInv
    LeaseNamesItsRide
    ClosedHandleHoldsNothing
PROPERTIES
    LeaseEndsOnlyByOwner
    OnlyReservableIsTaken

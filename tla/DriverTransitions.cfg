CONSTANTS
    Drivers = {d1}
    Rides = {r1}
    Tokens = {t1, t2}
    None = None
    Workers = {w1, w2}
SYMMETRY Symmetry
SPECIFICATION Spec
PROPERTIES
    UpdatesAreLegal

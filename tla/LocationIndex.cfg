CONSTANTS
    Edge = 3
    Circumradius = 2
    Window = 3
    Points <- MCPoints
    Pickup <- MCPickup
    Radius = 2
    Workers = {w1, w2}
    MaxSeq = 2
    None = None
SYMMETRY Symmetry
SPECIFICATION Spec
INVARIANTS
    TypeOK
    CurrentCellIndexed
    PositionIsNewest
    
PROPERTIES
    PositionsInOrder

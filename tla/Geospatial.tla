----------------------------- MODULE Geospatial -----------------------------
(***************************************************************************)
(* internal/geospatial/h3.go on a flat piece of the H3 grid.  A point is   *)
(* given by two coordinates along axes at 60 degrees; the cells are        *)
(* hexagons of the given edge, a cell is named by the steps to it along    *)
(* two neighbouring directions.                                            *)
(***************************************************************************)
EXTENDS Integers

CONSTANTS Edge,          \* of a cell
          Circumradius,  \* cellCircumradiusM, which the code takes for it
          Window         \* bound: cells that many steps around the origin

\* At resolution 7 an edge is above 1 km everywhere, the code assumes 400 m.
ASSUME GeospatialAssumption ==
    Circumradius \in Nat \ {0} /\ Edge \in Nat /\ Circumradius < Edge /\ Window \in Nat

Grid == (-Window..Window) \X (-Window..Window)

\* The cells that have all their neighbours in the window.
Inside == {c \in Grid : /\ c[1] > -Window /\ c[1] < Window
                        /\ c[2] > -Window /\ c[2] < Window}

\* CellCenter.
CellCenter(c) == <<Edge * (c[1] - c[2]), Edge * (c[1] + 2 * c[2])>>

\* HaversineMeters, squared.
Distance2(p, q) ==
    LET x == p[1] - q[1]
        y == p[2] - q[2]
    IN x * x + x * y + y * y

\* The cell whose centre is nearest; a point on a border is in one of its cells.
CellKey(p) ==
    CHOOSE c \in Grid : \A d \in Grid : Distance2(p, CellCenter(c)) <= Distance2(p, CellCenter(d))

\* Steps from cell to cell.
GridDistance(c, d) ==
    LET i == d[1] - c[1]
        j == d[2] - c[2]
    IN CHOOSE n \in 0..(4 * Window) :
         /\ n >= i /\ n >= -i /\ n >= j /\ n >= -j /\ n >= i + j /\ n >= -(i + j)
         /\ n \in {i, -i, j, -j, i + j, -(i + j)}

Ring(c, k) == {d \in Grid : GridDistance(c, d) <= k}

\* How many steps cover a radius: rounded up, at least one.
RingForRadius(r) ==
    LET k == (r + Circumradius - 1) \div Circumradius
    IN IF k < 1 THEN 1 ELSE k

PlanSearch(p, r) == Ring(CellKey(p), RingForRadius(r))
=============================================================================

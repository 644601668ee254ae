------------------------ MODULE LocationIndexProofs -------------------------
(***************************************************************************)
(* For every size of the cells, every radius and all points: the rings the *)
(* search plans cover the radius it is asked for, the index follows the    *)
(* newest position, and a search finds the driver that stays in range.     *)
(***************************************************************************)
EXTENDS LocationIndex, TLAPS, WellFoundedInduction

-----------------------------------------------------------------------------
(* Geometry.                                                               *)

LEMMA SquareNat == \A a \in Int : a * a \in Nat
  OBVIOUS

\* The squared distance is one.
LEMMA NormNat ==
    ASSUME NEW x \in Int, NEW y \in Int PROVE x * x + x * y + y * y \in Nat
  <1>1. 4 * (x * x + x * y + y * y) = (2 * x + y) * (2 * x + y) + 3 * (y * y)
    OBVIOUS
  <1>2. (2 * x + y) * (2 * x + y) \in Nat /\ y * y \in Nat
    BY SquareNat
  <1> QED BY <1>1, <1>2

Points2 == Int \X Int

LEMMA CenterType ==
    ASSUME NEW c \in Points2
    PROVE  /\ CellCenter(c) \in Points2
           /\ CellCenter(c)[1] = Edge * (c[1] - c[2])
           /\ CellCenter(c)[2] = Edge * (c[1] + 2 * c[2])
  BY GeospatialAssumption DEF CellCenter, Points2

LEMMA DistanceNat ==
    ASSUME NEW p \in Points2, NEW q \in Points2 PROVE Distance2(p, q) \in Nat
  BY NormNat DEF Distance2, Points2

LEMMA GridPoints == Grid \subseteq Points2
  BY GeospatialAssumption DEF Grid, Points2

LEMMA LessRelation == \A m, n \in Nat : <<n, m>> \in OpToRel(<, Nat) <=> n < m
  BY DEF OpToRel

\* Some cell of the window is nearest, so CellKey is one that is.
LEMMA Nearest ==
    ASSUME NEW p \in Points2
    PROVE  /\ CellKey(p) \in Grid
           /\ \A d \in Grid : Distance2(p, CellCenter(CellKey(p))) <= Distance2(p, CellCenter(d))
  <1> DEFINE T == {Distance2(p, CellCenter(c)) : c \in Grid}
             R == OpToRel(<, Nat)
  <1>1. T \subseteq Nat
    BY DistanceNat, CenterType, GridPoints
  <1>2. T # {}
    <2>1. <<0, 0>> \in Grid
      BY GeospatialAssumption DEF Grid
    <2> QED BY <2>1
  <1>3. IsWellFoundedOn(R, Nat)
    BY NatLessThanWellFounded
  <1>4. PICK m \in T : \A n \in T : ~(<<n, m>> \in R)
    BY <1>1, <1>2, <1>3, WFMin, Zenon
  <1>5. \A n \in T : m <= n
    <2> HIDE DEF T
    <2> TAKE n \in T
    <2>1. m \in Nat /\ n \in Nat
      BY <1>1
    <2>2. ~(n < m)
      BY <1>4, <2>1, LessRelation
    <2> QED BY <2>1, <2>2
  <1>6. \E c \in Grid : \A d \in Grid : Distance2(p, CellCenter(c)) <= Distance2(p, CellCenter(d))
    BY <1>5
  <1> QED BY <1>6 DEF CellKey

\* A step from c to a neighbouring cell, in the coordinates of the points.
LEMMA Bisector ==
    ASSUME NEW p \in Points2, NEW c \in Points2, NEW i \in Int, NEW j \in Int,
           Distance2(p, CellCenter(c)) <= Distance2(p, CellCenter(<<c[1] + i, c[2] + j>>))
    PROVE  LET u == p[1] - CellCenter(c)[1]
               v == p[2] - CellCenter(c)[2]
           IN Edge * (i * (u + v) + j * v) <= Edge * (Edge * (i * i + i * j + j * j))
  <1> DEFINE u == p[1] - CellCenter(c)[1]
             v == p[2] - CellCenter(c)[2]
             d == <<c[1] + i, c[2] + j>>
             s == Edge * (i - j)
             t == Edge * (i + 2 * j)
  <1>1. /\ Edge \in Int /\ u \in Int /\ v \in Int /\ d \in Points2 /\ s \in Int /\ t \in Int
    BY CenterType, GeospatialAssumption DEF Points2
  <1>2. p[1] - CellCenter(d)[1] = u - s /\ p[2] - CellCenter(d)[2] = v - t
    BY <1>1, CenterType, GeospatialAssumption DEF Points2
  <1>3. u * u + u * v + v * v <= (u - s) * (u - s) + (u - s) * (v - t) + (v - t) * (v - t)
    BY <1>2 DEF Distance2
  <1> HIDE DEF u, v, s, t
  <1>4. 2 * (u * s) + u * t + v * s + 2 * (v * t) <= s * s + s * t + t * t
    BY <1>1, <1>3
  <1>5. 2 * (u * s) + u * t + v * s + 2 * (v * t) = 3 * (Edge * (i * (u + v) + j * v))
    BY <1>1 DEF s, t
  <1>6. s * s + s * t + t * t = 3 * (Edge * (Edge * (i * i + i * j + j * j)))
    BY <1>1 DEF s, t
  <1> DEFINE a == Edge * (i * (u + v) + j * v)
             b == Edge * (Edge * (i * i + i * j + j * j))
  <1>7. a \in Int /\ b \in Int
    BY <1>1
  <1>8. a <= b
    <2> HIDE DEF a, b
    <2> QED BY <1>4, <1>5, <1>6, <1>7 DEF a, b
  <1> QED BY <1>8 DEF u, v

\* A point, seen from the centre of its cell.
OffX(p) == p[1] - CellCenter(CellKey(p))[1]
OffY(p) == p[2] - CellCenter(CellKey(p))[2]

\* A point lies within the hexagon of its cell: the neighbours' centres are not
\* nearer.
LEMMA InHexagon ==
    ASSUME NEW p \in Points2, CellKey(p) \in Inside
    PROVE  /\ OffX(p) \in Int /\ OffY(p) \in Int
           /\ -Edge <= OffX(p) /\ OffX(p) <= Edge
           /\ -Edge <= OffY(p) /\ OffY(p) <= Edge
           /\ -Edge <= OffX(p) + OffY(p) /\ OffX(p) + OffY(p) <= Edge
  <1> DEFINE c == CellKey(p)
             u == OffX(p)
             v == OffY(p)
  <1>1. c \in Grid /\ c \in Points2 /\ u \in Int /\ v \in Int /\ Edge \in Nat \ {0}
    BY GridPoints, CenterType, GeospatialAssumption DEF Inside, OffX, OffY, Points2
  <1>2. ASSUME NEW i \in {-1, 0, 1}, NEW j \in {-1, 0, 1}
        PROVE  Edge * (i * (u + v) + j * v) <= Edge * (Edge * (i * i + i * j + j * j))
    <2>1. <<c[1] + i, c[2] + j>> \in Grid
      BY GeospatialAssumption DEF Inside, Grid
    <2>2. i \in Int /\ j \in Int
      OBVIOUS
    <2> QED BY <1>1, <2>1, <2>2, Nearest, Bisector DEF OffX, OffY
  <1> HIDE DEF u, v
  <1>3. \A a \in Int : Edge * a <= Edge * Edge => a <= Edge
    BY <1>1
  <1>4. /\ Edge * (u + v) <= Edge * Edge /\ Edge * (-(u + v)) <= Edge * Edge
    BY <1>1, <1>2
  <1>5. /\ Edge * v <= Edge * Edge /\ Edge * (-v) <= Edge * Edge
    BY <1>1, <1>2
  <1>6. /\ Edge * u <= Edge * Edge /\ Edge * (-u) <= Edge * Edge
    BY <1>1, <1>2
  <1>7. /\ u + v <= Edge /\ -(u + v) <= Edge /\ v <= Edge /\ -v <= Edge /\ u <= Edge /\ -u <= Edge
    BY <1>1, <1>3, <1>4, <1>5, <1>6
  <1> QED BY <1>1, <1>7 DEF u, v

\* How far a point within distance r can be along the three axes of the grid.
LEMMA AxisBound ==
    ASSUME NEW x \in Int, NEW y \in Int, NEW r \in Nat, x * x + x * y + y * y <= r * r
    PROVE  /\ -(2 * r) <= 2 * x + y /\ 2 * x + y <= 2 * r
           /\ -(2 * r) <= x + 2 * y /\ x + 2 * y <= 2 * r
           /\ -(2 * r) <= y - x /\ y - x <= 2 * r
  <1>1. ASSUME NEW a \in Int, a * a <= 4 * (r * r) PROVE -(2 * r) <= a /\ a <= 2 * r
    <2>1. a * a <= (2 * r) * (2 * r)
      BY <1>1
    <2> QED BY <2>1
  <1>2. /\ (2 * x + y) * (2 * x + y) = 4 * (x * x + x * y + y * y) - 3 * (y * y)
        /\ (x + 2 * y) * (x + 2 * y) = 4 * (x * x + x * y + y * y) - 3 * (x * x)
        /\ (y - x) * (y - x) = 4 * (x * x + x * y + y * y) - 3 * ((x + y) * (x + y))
    OBVIOUS
  <1>3. y * y \in Nat /\ x * x \in Nat /\ (x + y) * (x + y) \in Nat
    BY SquareNat
  <1>4. /\ (2 * x + y) * (2 * x + y) <= 4 * (r * r)
        /\ (x + 2 * y) * (x + 2 * y) <= 4 * (r * r)
        /\ (y - x) * (y - x) <= 4 * (r * r)
    BY <1>2, <1>3
  <1> QED BY <1>1, <1>4

\* GridDistance is the longest of the three coordinates.
LEMMA GridDistanceIs ==
    ASSUME NEW c \in Grid, NEW d \in Grid
    PROVE  LET i == d[1] - c[1]
               j == d[2] - c[2]
           IN /\ GridDistance(c, d) \in Nat
              /\ GridDistance(c, d) \in {i, -i, j, -j, i + j, -(i + j)}
  <1> DEFINE i == d[1] - c[1]
             j == d[2] - c[2]
             Longest(n) == /\ n >= i /\ n >= -i /\ n >= j /\ n >= -j /\ n >= i + j /\ n >= -(i + j)
                           /\ n \in {i, -i, j, -j, i + j, -(i + j)}
  <1>1. Window \in Nat /\ i \in -(2 * Window)..(2 * Window) /\ j \in -(2 * Window)..(2 * Window)
    BY GeospatialAssumption DEF Grid
  <1>2. GridDistance(c, d) = CHOOSE n \in 0..(4 * Window) : Longest(n)
    BY DEF GridDistance
  <1>3. \E n \in 0..(4 * Window) : Longest(n)
    <2> HIDE DEF i, j
    <2>1. i \in Int /\ j \in Int
      BY <1>1
    <2>2. \E n \in {i, -i, j, -j, i + j, -(i + j)} :
             /\ n >= i /\ n >= -i /\ n >= j /\ n >= -j /\ n >= i + j /\ n >= -(i + j)
      BY <2>1
    <2> QED BY <1>1, <2>2
  <1>4. GridDistance(c, d) \in 0..(4 * Window) /\ Longest(GridDistance(c, d))
    BY <1>2, <1>3
  <1> QED BY <1>1, <1>4

\* k rings reach as far as k assumed edges.
LEMMA RingReaches ==
    ASSUME NEW r \in Nat
    PROVE  /\ RingForRadius(r) \in Nat \ {0}
           /\ r <= RingForRadius(r) * Circumradius
  <1> DEFINE k == (r + Circumradius - 1) \div Circumradius
  <1>1. Circumradius \in Nat \ {0}
    BY GeospatialAssumption
  <1>2. k \in Int /\ r <= k * Circumradius
    BY <1>1
  <1>3. RingForRadius(r) = IF k < 1 THEN 1 ELSE k
    BY DEF RingForRadius
  <1> HIDE DEF k
  <1>4. CASE k < 1
    <2>1. k * Circumradius <= 0
      BY <1>1, <1>2, <1>4
    <2> QED BY <1>1, <1>2, <1>3, <1>4, <2>1
  <1>5. CASE k >= 1
    BY <1>2, <1>3, <1>5
  <1> QED BY <1>2, <1>4, <1>5

\* Cells n steps apart are at least n - 1 edges apart, and the code takes an
\* edge for shorter than it is, so the rings suffice.
LEMMA StepsWithinRing ==
    ASSUME NEW n \in Nat, NEW k \in Nat \ {0}, NEW r \in Nat,
           3 * (Edge * n) <= 2 * r + 4 * Edge, r <= k * Circumradius
    PROVE  n <= k
  <1>1. Edge \in Nat /\ Circumradius \in Nat /\ Circumradius < Edge
    BY GeospatialAssumption
  <1> SUFFICES ASSUME n >= k + 1 PROVE FALSE
    OBVIOUS
  <1>2. Edge * n >= Edge * (k + 1)
    BY <1>1
  <1>3. k * Circumradius <= k * (Edge - 1)
    BY <1>1
  <1>4. k * (Edge - 1) = Edge * k - k /\ Edge * (k + 1) = Edge * k + Edge
    BY <1>1
  <1>5. Edge * k >= Edge
    BY <1>1
  <1> DEFINE e == Edge * k
  <1>6. e \in Nat /\ Edge * n \in Nat /\ k * Circumradius \in Nat
    BY <1>1
  <1> HIDE DEF e
  <1> QED BY <1>1, <1>2, <1>3, <1>4, <1>5, <1>6 DEF e

\* PlanSearch covers the radius: the cell of a point within distance r of p is
\* one of the cells planned around p.
LEMMA PlanCovers ==
    ASSUME NEW p \in Points2, NEW q \in Points2, NEW r \in Nat,
           CellKey(p) \in Inside, CellKey(q) \in Inside, Distance2(q, p) <= r * r
    PROVE  CellKey(q) \in PlanSearch(p, r)
  <1> DEFINE c == CellKey(p)
             d == CellKey(q)
             i == d[1] - c[1]
             j == d[2] - c[2]
             x == q[1] - p[1]
             y == q[2] - p[2]
             n == GridDistance(c, d)
             k == RingForRadius(r)
  <1>1. /\ c \in Grid /\ d \in Grid /\ c \in Points2 /\ d \in Points2
        /\ c[1] \in Int /\ c[2] \in Int /\ d[1] \in Int /\ d[2] \in Int
        /\ i \in Int /\ j \in Int /\ x \in Int /\ y \in Int /\ Edge \in Nat
    BY GridPoints, GeospatialAssumption DEF Inside, Points2
  <1>2. /\ -(2 * r) <= 2 * x + y /\ 2 * x + y <= 2 * r
        /\ -(2 * r) <= x + 2 * y /\ x + 2 * y <= 2 * r
        /\ -(2 * r) <= y - x /\ y - x <= 2 * r
    BY <1>1, AxisBound DEF Distance2
  <1> DEFINE u == OffX(p)
             v == OffY(p)
             s == OffX(q)
             t == OffY(q)
  <1>3. /\ u \in Int /\ v \in Int /\ s \in Int /\ t \in Int
        /\ -Edge <= u /\ u <= Edge /\ -Edge <= v /\ v <= Edge /\ -Edge <= u + v /\ u + v <= Edge
        /\ -Edge <= s /\ s <= Edge /\ -Edge <= t /\ t <= Edge /\ -Edge <= s + t /\ s + t <= Edge
    BY InHexagon
  <1>4. /\ x + u - s = Edge * (d[1] - d[2]) - Edge * (c[1] - c[2])
        /\ y + v - t = Edge * (d[1] + 2 * d[2]) - Edge * (c[1] + 2 * c[2])
    BY <1>1, CenterType DEF OffX, OffY, Points2
  <1>5. x + u - s = Edge * i - Edge * j /\ y + v - t = Edge * i + 2 * (Edge * j)
    BY <1>1, <1>4
  <1> DEFINE a == Edge * i
             b == Edge * j
  <1>6. a \in Int /\ b \in Int /\ Edge * (-i) = -a /\ Edge * (-j) = -b
        /\ Edge * (i + j) = a + b /\ Edge * (-(i + j)) = -(a + b)
    BY <1>1
  <1> HIDE DEF x, y, u, v, s, t, a, b, i, j, n, k
  <1>7. /\ 3 * a = (2 * x + y) + (2 * u + v) - (2 * s + t)
        /\ 3 * b = (y - x) + (v - u) - (t - s)
        /\ 3 * (a + b) = (x + 2 * y) + (u + 2 * v) - (s + 2 * t)
    BY <1>1, <1>3, <1>5, <1>6 DEF a, b
  <1>8. /\ 3 * a <= 2 * r + 4 * Edge /\ 3 * (-a) <= 2 * r + 4 * Edge
        /\ 3 * b <= 2 * r + 4 * Edge /\ 3 * (-b) <= 2 * r + 4 * Edge
        /\ 3 * (a + b) <= 2 * r + 4 * Edge /\ 3 * (-(a + b)) <= 2 * r + 4 * Edge
    BY <1>1, <1>2, <1>3, <1>6, <1>7
  <1>9. n \in Nat /\ n \in {i, -i, j, -j, i + j, -(i + j)}
    BY <1>1, GridDistanceIs DEF n, i, j
  <1>10. 3 * (Edge * n) <= 2 * r + 4 * Edge
    BY <1>6, <1>8, <1>9 DEF a, b
  <1>11. n <= k
    BY <1>9, <1>10, RingReaches, StepsWithinRing DEF k
  <1> QED BY <1>1, <1>11 DEF PlanSearch, Ring, n, k

-----------------------------------------------------------------------------
(* The index.                                                              *)

LEMMA NearIsPlanned == \A q \in Positions : q.near => q.cell \in Plan
  <1> SUFFICES ASSUME NEW p \in Points, Position(p).near
               PROVE  Position(p).cell \in Plan
    BY DEF Positions
  <1>1. p \in Points2 /\ Pickup \in Points2 /\ Radius \in Nat
    BY SearchAssumption DEF Points2
  <1>2. CellKey(p) \in Inside /\ CellKey(Pickup) \in Inside
    BY SearchAssumption
  <1>3. Distance2(p, Pickup) <= Radius * Radius /\ Position(p).cell = CellKey(p)
    BY DEF Position
  <1>4. CellKey(p) \in PlanSearch(Pickup, Radius)
    BY <1>1, <1>2, <1>3, PlanCovers
  <1>5. Position(p).cell \in Cells
    BY DEF Cells, Positions
  <1> QED BY <1>3, <1>4, <1>5 DEF Plan

\* What an ingest call holds.
Ingest(w) ==
    /\ pc[w] # "idle" => fix[w] \in Fixes /\ fix[w].seq > 0
    /\ pc[w] = "eval" => oldCell[w] \in Cells

\* While the driver is steady, the search still has its cell ahead of it, or is
\* about to read its position, or has it.
Steady ==
    steady =>
      /\ loc # None /\ loc.pos.near /\ status = "AVAILABLE"
      /\ spc = "cells" => loc.pos.cell \in todo
      /\ spc = "state" => read = loc.pos
      /\ spc = "done" => found
      /\ spc # "panic"

LInv ==
    /\ TypeOK
    /\ \A w \in Workers : Ingest(w)
    /\ CurrentCellIndexed
    /\ PositionIsNewest
    /\ Steady

LEMMA InitHolds == Init => LInv
  <1> SUFFICES ASSUME Init PROVE LInv
    OBVIOUS
  <1>1. TypeOK
    <2>1. guard \in 0..MaxSeq
      <3>1. guard = 0
        BY DEF Init
      <3> QED BY <3>1, MaxSeqAssumption
    <2>2. /\ pc \in [Workers -> {"idle", "read", "eval"}]
          /\ fix \in [Workers -> Fixes \cup {None}]
          /\ oldCell \in [Workers -> Cells \cup {None}]
      BY DEF Init
    <2> QED BY <2>1, <2>2 DEF Init, TypeOK
  <1> QED BY <1>1 DEF Init, LInv, Ingest, CurrentCellIndexed, PositionIsNewest, Steady

LEMMA CellOf == \A f \in Fixes : f.pos \in Positions /\ f.pos.cell \in Cells /\ f.seq \in 0..MaxSeq
  BY DEF Fixes, Cells

LEMMA CellsArePlanned == Plan \subseteq Cells
  BY DEF Plan

\* The steps of an UpdateLocation call.
LEMMA IngestKeeps ==
    ASSUME LInv, NEW w \in Workers,
           \/ \E p \in Positions, m \in 1..MaxSeq : Apply(w, p, m)
           \/ ReadOldCell(w) \/ EvalApply(w) \/ ApplyFails(w)
    PROVE  LInv'
  <1> USE DEF LInv
  <1>1. ASSUME NEW p \in Positions, NEW m \in 1..MaxSeq, Apply(w, p, m) PROVE LInv'
    <2> DEFINE f == [pos |-> p, seq |-> m]
    <2>1. f \in Fixes /\ f.seq > 0
      BY MaxSeqAssumption DEF Fixes
    <2> HIDE DEF f
    <2>2. TypeOK'
      BY <1>1, <2>1 DEF Apply, TypeOK, storeVars, searchVars, f
    <2>3. \A x \in Workers : Ingest(x)'
      <3>1. /\ pc' = [pc EXCEPT ![w] = "read"] /\ fix' = [fix EXCEPT ![w] = f] /\ oldCell' = oldCell
        BY <1>1 DEF Apply, f
      <3> QED BY <2>1, <3>1 DEF TypeOK, Ingest
    <2> QED BY <1>1, <2>2, <2>3 DEF Apply, CurrentCellIndexed, PositionIsNewest, Steady, storeVars, searchVars
  <1>2. ASSUME ReadOldCell(w) PROVE LInv'
    <2>1. fix[w].pos.cell \in Cells /\ (loc # None => loc.pos.cell \in Cells)
      BY <1>2, CellOf DEF ReadOldCell, TypeOK, Ingest
    <2>2. TypeOK'
      BY <1>2, <2>1 DEF ReadOldCell, TypeOK, storeVars, searchVars
    <2>3. \A x \in Workers : Ingest(x)'
      BY <1>2, <2>1 DEF ReadOldCell, TypeOK, Ingest
    <2> QED BY <1>2, <2>2, <2>3 DEF ReadOldCell, CurrentCellIndexed, PositionIsNewest, Steady, storeVars, searchVars
  <1>3. ASSUME EvalApply(w) PROVE LInv'
    <2>1. fix[w] \in Fixes /\ fix[w].seq > 0 /\ fix[w].pos.cell \in Cells /\ fix[w].seq \in 0..MaxSeq
      BY <1>3, CellOf DEF EvalApply, Ingest
    <2>2. TypeOK'
      BY <1>3, <2>1 DEF EvalApply, ApplyLocationScript, Return, TypeOK, searchVars
    <2>3. \A x \in Workers : Ingest(x)'
      BY <1>3 DEF EvalApply, Return, TypeOK, Ingest
    <2>4. CurrentCellIndexed' /\ PositionIsNewest'
      BY <1>3, <2>1 DEF EvalApply, ApplyLocationScript, CurrentCellIndexed, PositionIsNewest
    <2>5. Steady'
      BY <1>3 DEF EvalApply, Steady, TypeOK, searchVars
    <2> QED BY <2>2, <2>3, <2>4, <2>5
  <1>4. ASSUME ApplyFails(w) PROVE LInv'
    <2>1. TypeOK'
      BY <1>4 DEF ApplyFails, Return, TypeOK, storeVars, searchVars
    <2>2. \A x \in Workers : Ingest(x)'
      BY <1>4 DEF ApplyFails, Return, TypeOK, Ingest
    <2> QED BY <1>4, <2>1, <2>2 DEF ApplyFails, CurrentCellIndexed, PositionIsNewest, Steady, storeVars, searchVars
  <1> QED BY <1>1, <1>2, <1>3, <1>4

\* Registration, the expiry of the keys, and the state of the driver.
LEMMA StoreKeeps ==
    ASSUME LInv,
           \/ \E p \in Positions, s \in {"AVAILABLE", "BUSY"} : InitDriver(p, s)
           \/ LocExpires \/ GuardExpires \/ StatusChanges
    PROVE  LInv'
  <1> USE DEF LInv
  <1>1. \A w \in Workers : Ingest(w)'
    BY DEF InitDriver, LocExpires, GuardExpires, StatusChanges, Ingest, workVars
  <1>2. ASSUME NEW p \in Positions, NEW s \in {"AVAILABLE", "BUSY"}, InitDriver(p, s) PROVE LInv'
    <2>1. [pos |-> p, seq |-> 0] \in Fixes /\ p.cell \in Cells
      BY MaxSeqAssumption DEF Fixes, Cells
    <2>2. TypeOK'
      BY <1>2, <2>1 DEF InitDriver, TypeOK, workVars, searchVars
    <2> QED BY <1>1, <1>2, <2>2 DEF InitDriver, CurrentCellIndexed, PositionIsNewest, Steady
  <1>3. ASSUME LocExpires PROVE LInv'
    BY <1>1, <1>3 DEF LocExpires, TypeOK, CurrentCellIndexed, PositionIsNewest, Steady, workVars, searchVars
  <1>4. ASSUME GuardExpires PROVE LInv'
    <2>1. guard' \in 0..MaxSeq
      BY <1>4, MaxSeqAssumption DEF GuardExpires
    <2>2. TypeOK'
      BY <1>4, <2>1 DEF GuardExpires, TypeOK, workVars, searchVars
    <2> QED BY <1>1, <1>4, <2>2
            DEF GuardExpires, CurrentCellIndexed, PositionIsNewest, Steady, workVars, searchVars
  <1>5. ASSUME StatusChanges PROVE LInv'
    BY <1>1, <1>5 DEF StatusChanges, TypeOK, CurrentCellIndexed, PositionIsNewest, Steady, workVars, searchVars
  <1> QED BY <1>2, <1>3, <1>4, <1>5

\* The search.
LEMMA SearchKeeps ==
    ASSUME LInv,
           StartSearch \/ (\E c \in Cells : SMembers(c)) \/ HMGet \/ HGetState \/ Recover
    PROVE  LInv'
  <1> USE DEF LInv
  <1>1. /\ \A w \in Workers : Ingest(w)'
        /\ CurrentCellIndexed' /\ PositionIsNewest'
    BY DEF StartSearch, SMembers, HMGet, HGetState, Recover, Ingest, CurrentCellIndexed, PositionIsNewest,
           storeVars, workVars
  <1>2. ASSUME StartSearch PROVE LInv'
    <2>1. TypeOK'
      BY <1>2 DEF StartSearch, TypeOK, storeVars, workVars
    <2>2. Steady'
      BY <1>2, NearIsPlanned, CellOf DEF StartSearch, TypeOK, Steady, storeVars
    <2> QED BY <1>1, <2>1, <2>2
  <1>3. ASSUME NEW c \in Cells, SMembers(c) PROVE LInv'
    <2>1. TypeOK'
      BY <1>3 DEF SMembers, TypeOK, storeVars, workVars
    <2>2. Steady'
      BY <1>3 DEF SMembers, TypeOK, Steady, CurrentCellIndexed, storeVars
    <2> QED BY <1>1, <2>1, <2>2
  <1>4. ASSUME HMGet PROVE LInv'
    <2>1. TypeOK'
      BY <1>4, CellOf DEF HMGet, TypeOK, storeVars, workVars
    <2>2. Steady'
      BY <1>4 DEF HMGet, Steady, storeVars
    <2> QED BY <1>1, <2>1, <2>2
  <1>5. ASSUME HGetState PROVE LInv'
    <2>1. TypeOK'
      BY <1>5 DEF HGetState, TypeOK, storeVars, workVars
    <2>2. loc # None => loc.pos # None
      BY CellOf, NoneAssumption DEF TypeOK
    <2>3. Steady'
      BY <1>5, <2>2 DEF HGetState, Steady, storeVars
    <2> QED BY <1>1, <2>1, <2>3
  <1>6. ASSUME Recover PROVE LInv'
    BY <1>1, <1>6 DEF Recover, TypeOK, Steady, storeVars, workVars
  <1> QED BY <1>2, <1>3, <1>4, <1>5, <1>6

LEMMA InvHolds == Spec => []LInv
  <1>1. LInv /\ [Next]_vars => LInv'
    <2> SUFFICES ASSUME LInv, [Next]_vars PROVE LInv'
      OBVIOUS
    <2>1. ASSUME Next PROVE LInv'
      BY <2>1, IngestKeeps, StoreKeeps, SearchKeeps DEF Next
    <2>2. ASSUME UNCHANGED vars PROVE LInv'
      BY <2>2 DEF LInv, TypeOK, Ingest, CurrentCellIndexed, PositionIsNewest, Steady,
                  vars, storeVars, workVars, searchVars
    <2> QED BY <2>1, <2>2
  <1> QED BY <1>1, InitHolds, PTL DEF Spec

\* Every variable of the index, of the ingest calls and of the search has its
\* type: applyLocationScript is only ever given fixes and cells.
THEOREM IndexTypes == Spec => []TypeOK
  BY InvHolds, PTL DEF LInv

\* However ApplyLocation's read of the old cell and the scripts of several calls
\* interleave, the cell of the stored position lists the driver.
THEOREM PositionIsIndexed == Spec => []CurrentCellIndexed
  BY InvHolds, PTL DEF LInv

\* The stored position is the one the sequence guard was last raised for, also
\* when the guard's TTL runs out.
THEOREM NewestPositionStored == Spec => []PositionIsNewest
  BY InvHolds, PTL DEF LInv

\* applyLocationScript never replaces a live position by an older one.
THEOREM PositionsNeverGoBack == Spec => PositionsInOrder
  <1>1. ASSUME LInv, [Next]_vars, loc # None, loc' # None, loc' # loc
        PROVE  loc'.seq = 0 \/ loc'.seq > loc.seq
    <2>1. CASE \E w \in Workers : EvalApply(w)
      <3>1. PICK w \in Workers : EvalApply(w)
        BY <2>1
      <3>2. guard < fix[w].seq /\ loc' = fix[w]
        BY <1>1, <3>1 DEF EvalApply, ApplyLocationScript
      <3>3. fix[w].seq \in 0..MaxSeq /\ loc.seq \in 0..MaxSeq /\ guard \in 0..MaxSeq
        BY <1>1, <3>1, CellOf DEF LInv, TypeOK, Ingest, EvalApply
      <3> QED BY <1>1, <3>2, <3>3, MaxSeqAssumption DEF LInv, PositionIsNewest
    <2>2. CASE \E p \in Positions, s \in {"AVAILABLE", "BUSY"} : InitDriver(p, s)
      BY <2>2 DEF InitDriver
    <2> QED BY <1>1, <2>1, <2>2
            DEF Next, Apply, ReadOldCell, ApplyFails, LocExpires, GuardExpires, StatusChanges, StartSearch,
                SMembers, HMGet, HGetState, Recover, vars, storeVars
  <1>2. LInv /\ [Next]_vars => [loc # None /\ loc' \notin {None, loc} => loc'.seq = 0 \/ loc'.seq > loc.seq]_vars
    BY <1>1
  <1> QED BY <1>2, InvHolds, PTL DEF Spec, PositionsInOrder

\* SearchNearby returns a driver that was in range, AVAILABLE and did not move
\* while it ran: PlanSearch plans the cell of the driver, wherever in its cell
\* the pickup is, and no update takes the driver out of that cell.
THEOREM SteadyIsFound == Spec => []SteadyDriverFound
  <1>1. LInv => SteadyDriverFound
    BY DEF LInv, Steady, SteadyDriverFound
  <1> QED BY <1>1, InvHolds, PTL
=============================================================================

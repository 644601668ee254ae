-------------------------- MODULE MCLocationIndex --------------------------
(* Instances of LocationIndex for TLC.                                     *)
EXTENDS LocationIndex, TLC

\* Near the pickup in its own cell and in the next one, and away from it in a
\* cell the search does not scan.
MCPickup == <<2, 0>>
MCPoints == {<<1, 0>>, <<4, 0>>, <<6, 6>>}

ASSUME \E p, q \in Positions : p.near /\ q.near /\ p.cell # q.cell

\* The plan covers the radius, from every point of a cell.
ASSUME
    LET key == [p \in (-7..7) \X (-7..7) |-> CellKey(p)]
    IN \A r \in 0..4, p \in (-3..3) \X (-3..3) : key[p] = <<0, 0>> =>
         LET plan == PlanSearch(p, r)
         IN \A q \in DOMAIN key : Distance2(p, q) <= r * r => key[q] \in plan

Symmetry == Permutations(Workers)
=============================================================================

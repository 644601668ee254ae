--------------------------- MODULE MCReservation ---------------------------
(* Instances of Reservation for TLC.                                       *)
EXTENDS Reservation, TLC

Symmetry == Permutations(Tokens) \cup Permutations(Rides)
=============================================================================

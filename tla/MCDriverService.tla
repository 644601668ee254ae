-------------------------- MODULE MCDriverService --------------------------
(* Instances of DriverService for TLC.                                     *)
EXTENDS DriverService, TLC

Symmetry == Permutations(Workers) \cup Permutations(Tokens)
=============================================================================

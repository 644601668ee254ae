----------------------------- MODULE MCDispatch -----------------------------
(* Instances of Dispatch for TLC.                                          *)
EXTENDS Dispatch, TLC

CONSTANTS d1, d2

\* d2 is nearer but has the lower rating; d1 has none.
MCDist == d1 :> 120 @@ d2 :> 100
MCRating == d1 :> 0 @@ d2 :> 4

MCHost == [w \in Workers |-> "p1"]
MCWritten == d1 :> {"AVAILABLE", "OFFLINE"} @@ d2 :> {}
=============================================================================

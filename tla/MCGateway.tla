----------------------------- MODULE MCGateway ------------------------------
(* Instances of Gateway for TLC.                                           *)
EXTENDS Gateway, TLC

CONSTANTS q1, q2, q3

Mix(a, b, c) == q1 :> a @@ q2 :> b @@ q3 :> c

\* Three requests at one bucket, two at both, a login before a request, two
\* connections, and each of the other routes.
MCMixes ==
    { Mix("ready", "ready", "ready"), Mix("rides", "location", "absent"),
      Mix("login", "status", "absent"), Mix("ws", "ws", "absent") }
    \cup {Mix(k, "absent", "absent") : k \in {"drivers", "ride", "cancel", "nearby", "health", "metrics"}}

MCEarlier == {[role |-> "ADMIN", exp |-> 1]}

MCUser == [c \in Clients |-> "u1"]
MCCap == [b \in Buckets |-> 1]
MCCost == [b \in Buckets |-> 1]
=============================================================================

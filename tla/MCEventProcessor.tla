-------------------------- MODULE MCEventProcessor --------------------------
(* Instances of EventProcessor for TLC.                                    *)
EXTENDS EventProcessor

CONSTANTS r1, r2, d1

M(k, i, r, d) == [kind |-> k, id |-> i, ride |-> r, driver |-> d]

\* One partition of each topic.  The first ride-status is there twice, as a
\* producer's retry leaves it, and one has no driver; two dispatches name the
\* same driver.
MCLogs ==
    { <<M("ride-status", 1, r1, d1), M("ride-status", 1, r1, d1),
        M("ride-status", 2, r1, d1)>>,
      <<M("ride-status", 1, r1, Nobody), M("poison", 2, Nobody, Nobody)>>,
      <<M("dispatch-created", 1, r1, d1), M("dispatch-created", 2, r2, d1),
        M("dispatch-created", 1, r1, d1)>>,
      <<M("driver-status", 1, Nobody, d1), M("driver-status", 2, Nobody, d1)>>,
      <<M("driver-location", 1, Nobody, d1), M("driver-location", 2, Nobody, d1)>> }
=============================================================================

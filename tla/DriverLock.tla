----------------------------- MODULE DriverLock -----------------------------
(***************************************************************************)
(* What reserving drivers promises to the callers of reservation.Manager:  *)
(* a lock per driver.  A handle comes to hold a driver only while nobody   *)
(* holds it, and stops holding it by releasing it, by giving up or by      *)
(* crashing.                                                               *)
(***************************************************************************)
CONSTANTS Drivers, Tokens

VARIABLE holders        \* for each driver, the handles that count on it

Init == holders = [d \in Drivers |-> {}]

Enter(d, h) ==
    /\ holders[d] = {}
    /\ holders' = [holders EXCEPT ![d] = {h}]

Leave(d) ==
    /\ holders[d] # {}
    /\ holders' = [holders EXCEPT ![d] = {}]

Next == \E d \in Drivers : Leave(d) \/ \E h \in Tokens : Enter(d, h)

Spec == Init /\ [][Next]_holders
=============================================================================

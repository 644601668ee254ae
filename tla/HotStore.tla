------------------------------ MODULE HotStore ------------------------------
(***************************************************************************)
(* The part of the Redis hot state that decides who may have a driver: the *)
(* `state' and `reserved_ride' fields of driver:{id} and the lease key     *)
(* driver:{id}:lease (internal/redis/store.go, scripts.go, keys.go).       *)
(*                                                                         *)
(* Redis runs a Lua script, and a MULTI/EXEC pipeline, atomically, so each *)
(* one is a single step here.  The module has no Next of its own: the      *)
(* components that call the store (Reservation, DriverService) extend it.  *)
(***************************************************************************)
CONSTANTS Drivers,      \* driver ids
          Rides,        \* ride ids
          Tokens,       \* the random part of a lease value, one per Reserve call
          None          \* a key or a hash field that is absent

LeaseValues == [ride : Rides, token : Tokens]

ASSUME NoneAssumption ==
    None \notin Drivers \cup Rides \cup LeaseValues

\* driver.State; "" is what GetState returns for a driver without a hash.
States == {"OFFLINE", "AVAILABLE", "RESERVED", "ON_TRIP", "PAUSED"}
Unknown == ""

VARIABLES state,         \* HGET driver:{id} state
          reservedRide,  \* HGET driver:{id} reserved_ride
          lease          \* GET driver:{id}:lease

hotVars == <<state, reservedRide, lease>>

HotTypeOK ==
    /\ state \in [Drivers -> States \cup {Unknown}]
    /\ reservedRide \in [Drivers -> Rides \cup {None}]
    /\ lease \in [Drivers -> LeaseValues \cup {None}]

HotInit ==
    /\ state = [d \in Drivers |-> Unknown]
    /\ reservedRide = [d \in Drivers |-> None]
    /\ lease = [d \in Drivers |-> None]

-----------------------------------------------------------------------------
(* reserveScript: what it returns, and what it does.                       *)

\* A RESERVED driver without a lease is treated as AVAILABLE (self-healing).
Reservable(d) == state[d] \in {"AVAILABLE", "RESERVED"}

\* A defective variant: a conflict is reported as success.
ReserveCodeNoConflict(d, lv) ==
    IF lease[d] # None \/ Reservable(d) THEN "Reserved" ELSE "NotAvailable"

ReserveCode(d, lv) ==
    IF lease[d] = lv THEN "Reserved"
    ELSE IF lease[d] # None THEN "Conflict"
    ELSE IF Reservable(d) THEN "Reserved"
    ELSE "NotAvailable"

\* Defective variants of reserveScript, each with a mistake that the properties
\* must notice.  It does not look at the state of the driver:
ReserveAnyState(d, lv) ==
    \/ /\ lease[d] = None
       /\ lease' = [lease EXCEPT ![d] = lv]
       /\ state' = [state EXCEPT ![d] = "RESERVED"]
       /\ reservedRide' = [reservedRide EXCEPT ![d] = lv.ride]
    \/ lease[d] # None /\ UNCHANGED hotVars

\* it takes the lease but forgets one of the two fields of the HSET:
ReserveWithoutRide(d, lv) ==
    \/ /\ lease[d] = None /\ Reservable(d)
       /\ lease' = [lease EXCEPT ![d] = lv]
       /\ state' = [state EXCEPT ![d] = "RESERVED"]
       /\ UNCHANGED reservedRide
    \/ (lease[d] # None \/ ~Reservable(d)) /\ UNCHANGED hotVars

ReserveWithoutState(d, lv) ==
    \/ /\ lease[d] = None /\ Reservable(d)
       /\ lease' = [lease EXCEPT ![d] = lv]
       /\ reservedRide' = [reservedRide EXCEPT ![d] = lv.ride]
       /\ UNCHANGED state
    \/ (lease[d] # None \/ ~Reservable(d)) /\ UNCHANGED hotVars

\* or it swaps the values of the two fields.
ReserveSwapped(d, lv) ==
    \/ /\ lease[d] = None /\ Reservable(d)
       /\ lease' = [lease EXCEPT ![d] = lv]
       /\ state' = [state EXCEPT ![d] = lv.ride]
       /\ reservedRide' = [reservedRide EXCEPT ![d] = "RESERVED"]
    \/ (lease[d] # None \/ ~Reservable(d)) /\ UNCHANGED hotVars

\* Renewal by the owner only resets the TTL, which the model abstracts into
\* when Expire may happen.
ReserveScript(d, lv) ==
    \/ /\ lease[d] = None
       /\ Reservable(d)
       /\ lease' = [lease EXCEPT ![d] = lv]
       /\ state' = [state EXCEPT ![d] = "RESERVED"]
       /\ reservedRide' = [reservedRide EXCEPT ![d] = lv.ride]
    \/ /\ lease[d] # None \/ ~Reservable(d)
       /\ UNCHANGED hotVars

\* Defective variants of releaseScript: a blind DEL, and one without the HSET.
ReleaseBlind(d, lv, target) ==
    /\ lease' = [lease EXCEPT ![d] = None]
    /\ state' = [state EXCEPT ![d] = target]
    /\ UNCHANGED reservedRide

ReleaseWithoutState(d, lv, target) ==
    \/ /\ lease[d] = lv
       /\ lease' = [lease EXCEPT ![d] = None]
       /\ UNCHANGED <<state, reservedRide>>
    \/ lease[d] # lv /\ UNCHANGED hotVars

\* releaseScript: compare-and-delete, then HSET state target.
ReleaseScript(d, lv, target) ==
    \/ /\ lease[d] = lv
       /\ lease' = [lease EXCEPT ![d] = None]
       /\ state' = [state EXCEPT ![d] = target]
       /\ UNCHANGED reservedRide
    \/ /\ lease[d] # lv
       /\ UNCHANGED hotVars

\* A defective variant: the lease is SET without EX.
ExpireNever(d) == FALSE /\ UNCHANGED hotVars

\* The TTL of the lease key runs out.
Expire(d) ==
    /\ lease[d] # None
    /\ lease' = [lease EXCEPT ![d] = None]
    /\ UNCHANGED <<state, reservedRide>>

\* SetState: the non-lease path.
SetState(d, s) ==
    /\ state' = [state EXCEPT ![d] = s]
    /\ UNCHANGED <<reservedRide, lease>>

\* InitDriver, as far as the driver hash is concerned: it overwrites `state'
\* and touches neither reserved_ride nor the lease key.
InitDriver(d, s) == SetState(d, s)
=============================================================================

--------------------------- MODULE DriverService ---------------------------
(***************************************************************************)
(* The Driver Service: registration and the availability state machine     *)
(* (internal/driver/service.go, state.go), on top of the hot store.        *)
(*                                                                         *)
(* A worker is one RPC in progress.  Every RPC is a read of the driver's   *)
(* state, a check, and then a write that Redis does not make conditional   *)
(* on the value read, so two workers, or a worker and a reserve or release *)
(* script, interleave between the two.                                     *)
(*                                                                         *)
(* Writes to Postgres are left to the model of the durable tier: their     *)
(* errors are ignored here and no step of the service reads them back.     *)
(***************************************************************************)
EXTENDS HotStore

CONSTANT Workers

VARIABLES pc,            \* worker -> where the RPC is
          job,           \* worker -> the RPC: driver, state to write, kind
          cache,         \* Service.drivers: driver -> State of the cached proto
          assignedRide,  \* HGET driver:{id} assigned_ride
          published,     \* the last state published on topic driver-status
          expired,       \* history: drivers that had a lease run out
          touched        \* history: written by the service since last reserved

svcVars == <<pc, job, cache, assignedRide, published>>
vars == <<hotVars, svcVars, expired, touched>>

Kinds == {"register", "update", "release", "assign"}
Jobs == [drv : Drivers, to : States, ride : Rides, kind : Kinds]

TypeOK ==
    /\ HotTypeOK
    /\ pc \in [Workers -> {"idle", "write", "cache", "emit"}]
    /\ job \in [Workers -> Jobs \cup {None}]
    /\ \A w \in Workers : pc[w] # "idle" => job[w] \in Jobs
    /\ cache \in [Drivers -> States \cup {Unknown}]
    /\ assignedRide \in [Drivers -> Rides \cup {None}]
    /\ published \in [Drivers -> States \cup {Unknown}]
    /\ expired \subseteq Drivers
    /\ touched \subseteq Drivers

Init ==
    /\ HotInit
    /\ pc = [w \in Workers |-> "idle"]
    /\ job = [w \in Workers |-> None]
    /\ cache = [d \in Drivers |-> Unknown]
    /\ assignedRide = [d \in Drivers |-> None]
    /\ published = [d \in Drivers |-> Unknown]
    /\ expired = {}
    /\ touched = {}

-----------------------------------------------------------------------------
(* state.go                                                                *)

validTransitions ==
    [OFFLINE   |-> {"AVAILABLE", "PAUSED"},
     AVAILABLE |-> {"RESERVED", "OFFLINE", "PAUSED"},
     RESERVED  |-> {"ON_TRIP", "AVAILABLE", "OFFLINE", "PAUSED"},
     ON_TRIP   |-> {"AVAILABLE", "OFFLINE"},
     PAUSED    |-> {"AVAILABLE", "OFFLINE"}]

CanTransition(from, to) == from = to \/ to \in validTransitions[from]

-----------------------------------------------------------------------------
(* The RPCs.                                                               *)

Begin(w, d, s, r, k) ==
    /\ pc[w] = "idle"
    /\ pc' = [pc EXCEPT ![w] = "write"]
    /\ job' = [job EXCEPT ![w] = [drv |-> d, to |-> s, ride |-> r, kind |-> k]]
    /\ UNCHANGED <<hotVars, cache, assignedRide, published, expired, touched>>

\* RegisterDriver: OFFLINE when the initial position is (0, 0).  The id is
\* derived from the e-mail, so registering again reuses the driver.
RegisterDriver(w, d, r) ==
    \E s \in {"AVAILABLE", "OFFLINE"} : Begin(w, d, s, r, "register")

\* UpdateDriverStatus up to AssertTransition.
UpdateDriverStatus(w, d, s, r) ==
    /\ state[d] # Unknown
    /\ CanTransition(state[d], s)
    /\ Begin(w, d, s, r, "update")

\* ReleaseDriver up to its check of the state.
ReleaseDriver(w, d, r) ==
    /\ state[d] \in {"RESERVED", "ON_TRIP"}
    /\ Begin(w, d, "AVAILABLE", r, "release")

\* AssignDriver up to its check of the state.
AssignDriver(w, d, r) ==
    /\ state[d] = "RESERVED"
    /\ Begin(w, d, "RESERVED", r, "assign")

Finish(w, next) ==
    /\ pc' = [pc EXCEPT ![w] = next]
    /\ job' = IF next = "idle" THEN [job EXCEPT ![w] = None] ELSE job

\* InitDriver or SetState.  UpdateDriverStatus and RegisterDriver go on to the
\* cached copy, ReleaseDriver does not touch it.
WriteState(w) ==
    LET j == job[w] IN
    /\ pc[w] = "write"
    /\ \/ /\ j.kind = "register" /\ InitDriver(j.drv, j.to) /\ Finish(w, "cache")
       \/ /\ j.kind = "update" /\ SetState(j.drv, j.to) /\ Finish(w, "cache")
       \/ /\ j.kind = "release" /\ SetState(j.drv, j.to) /\ Finish(w, "emit")
    /\ touched' = touched \cup {j.drv}
    /\ UNCHANGED <<cache, assignedRide, published, expired>>

\* AssignDriver records the ride; an error is ignored.
WriteAssignedRide(w) ==
    /\ pc[w] = "write" /\ job[w].kind = "assign"
    /\ \/ assignedRide' = [assignedRide EXCEPT ![job[w].drv] = job[w].ride]
       \/ UNCHANGED assignedRide
    /\ Finish(w, "idle")
    /\ UNCHANGED <<hotVars, cache, published, expired, touched>>

\* The write ends in an error and the RPC returns Internal.  Redis may have
\* executed it all the same, the reply being lost.
WriteFails(w) ==
    LET j == job[w] IN
    /\ pc[w] = "write"
    /\ \/ UNCHANGED <<hotVars, touched>>
       \/ /\ j.kind # "assign"
          /\ SetState(j.drv, j.to)
          /\ touched' = touched \cup {j.drv}
    /\ Finish(w, "idle")
    /\ UNCHANGED <<cache, assignedRide, published, expired>>

\* Under s.mu.  Registration caches AVAILABLE whatever state it stored; an
\* update changes only a driver that this process has registered.
WriteCache(w) ==
    LET j == job[w] IN
    /\ pc[w] = "cache"
    /\ cache' = IF j.kind = "register" THEN [cache EXCEPT ![j.drv] = "AVAILABLE"]
                ELSE IF cache[j.drv] # Unknown THEN [cache EXCEPT ![j.drv] = j.to]
                ELSE cache
    /\ Finish(w, "emit")
    /\ UNCHANGED <<hotVars, assignedRide, published, expired, touched>>

\* emitDriverStatus: best effort.
Emit(w) ==
    /\ pc[w] = "emit"
    /\ \/ published' = [published EXCEPT ![job[w].drv] = job[w].to]
       \/ UNCHANGED published
    /\ Finish(w, "idle")
    /\ UNCHANGED <<hotVars, cache, assignedRide, expired, touched>>

\* The process restarts: the RPCs in progress and Service.drivers are gone.
Restart ==
    /\ pc' = [w \in Workers |-> "idle"]
    /\ job' = [w \in Workers |-> None]
    /\ cache' = [d \in Drivers |-> Unknown]
    /\ UNCHANGED <<hotVars, assignedRide, published, expired, touched>>

\* GetDriver: the cached copy wins over the hot state.
GetDriver(d) == IF cache[d] # Unknown THEN cache[d] ELSE state[d]

-----------------------------------------------------------------------------
(* The reservation managers, as far as the driver is concerned.            *)

Reserved(d) ==
    /\ \E lv \in LeaseValues : ReserveScript(d, lv)
    /\ touched' = IF lease'[d] # lease[d] THEN touched \ {d} ELSE touched
    /\ UNCHANGED <<svcVars, expired>>

Released(d) ==
    /\ \E lv \in LeaseValues : ReleaseScript(d, lv, "AVAILABLE")
    /\ UNCHANGED <<svcVars, expired, touched>>

Expired(d) ==
    /\ Expire(d)
    /\ expired' = expired \cup {d}
    /\ UNCHANGED <<svcVars, touched>>

Next ==
    \/ \E w \in Workers, d \in Drivers, r \in Rides :
          \/ RegisterDriver(w, d, r)
          \/ \E s \in States : UpdateDriverStatus(w, d, s, r)
          \/ ReleaseDriver(w, d, r)
          \/ AssignDriver(w, d, r)
    \/ \E w \in Workers : \/ WriteState(w) \/ WriteAssignedRide(w) \/ WriteFails(w)
                          \/ WriteCache(w) \/ Emit(w)
    \/ Restart
    \/ \E d \in Drivers : Reserved(d) \/ Released(d) \/ Expired(d)

Spec == Init /\ [][Next]_vars

-----------------------------------------------------------------------------
(* Properties.                                                             *)

\* While a driver is leased it is RESERVED, unless the Driver Service wrote its
\* state after the lease was taken: the scripts keep the two keys together.
LeasedIsReserved ==
    \A d \in Drivers : lease[d] # None /\ d \notin touched => state[d] = "RESERVED"

\* A RESERVED driver without a lease had a lease run out, or was written by the
\* Driver Service.  reserveScript treats it as AVAILABLE in both cases.
StaleReservationExplained ==
    \A d \in Drivers : state[d] = "RESERVED" /\ lease[d] = None => d \in expired \cup touched

\* Only registration gives an unknown driver a state; the checks against ""
\* keep every other operation from creating a driver hash.
OnlyRegistrationCreates ==
    [][\A d \in Drivers : state[d] = Unknown /\ state'[d] # Unknown =>
          \E w \in Workers : pc[w] = "write" /\ job[w].drv = d /\ job[w].kind = "register"]_vars

\* UpdateDriverStatus enforces the state machine: what it writes is a legal
\* successor of the state that it replaces.
UpdatesAreLegal ==
    [][\A w \in Workers :
          /\ pc[w] = "write" /\ pc'[w] = "cache" /\ job[w].kind = "update"
          => CanTransition(state[job[w].drv], job[w].to)]_vars
=============================================================================

------------------------ MODULE DriverServiceProofs -------------------------
(***************************************************************************)
(* For any number of drivers, rides, leases and RPCs in progress: what the *)
(* state of a driver and its lease say of each other, although the service *)
(* writes what it decided before, and that only registration creates a     *)
(* driver.                                                                 *)
(***************************************************************************)
EXTENDS DriverService, TLAPS

\* An RPC other than registration has seen a driver that has a state.
Checked(w) ==
    pc[w] = "write" /\ job[w].kind # "register" => state[job[w].drv] # Unknown

\* A lease is taken of a driver that has a state, and states stay.
LeasedIsKnown == \A d \in Drivers : lease[d] # None => state[d] # Unknown

DInv ==
    /\ TypeOK
    /\ LeasedIsKnown
    /\ LeasedIsReserved
    /\ StaleReservationExplained
    /\ \A w \in Workers : Checked(w)

\* This step creates the hash of a driver; its registration is about to write.
Creates(d) == state[d] = Unknown /\ state'[d] # Unknown

Registering(d) ==
    \E w \in Workers : pc[w] = "write" /\ job[w].drv = d /\ job[w].kind = "register"

-----------------------------------------------------------------------------
(* Types.                                                                  *)

LEMMA StatesKnown == Unknown \notin States
  BY DEF Unknown, States

LEMMA FinishTypes ==
    ASSUME TypeOK, NEW w \in Workers, NEW next \in {"idle", "cache", "emit"},
           pc[w] # "idle", Finish(w, next)
    PROVE  /\ pc' \in [Workers -> {"idle", "write", "cache", "emit"}]
           /\ job' \in [Workers -> Jobs \cup {None}]
           /\ \A v \in Workers : pc'[v] # "idle" => job'[v] \in Jobs
           /\ \A v \in Workers : pc'[v] = "write" => pc[v] = "write" /\ job'[v] = job[v]
  BY DEF TypeOK, Finish

\* What a worker that is not idle has to do is well-formed.
LEMMA JobTypes ==
    ASSUME TypeOK, NEW w \in Workers, pc[w] # "idle"
    PROVE  /\ job[w] \in Jobs /\ job[w].drv \in Drivers /\ job[w].to \in States
           /\ job[w].ride \in Rides /\ job[w].kind \in Kinds
  BY DEF TypeOK, Jobs

-----------------------------------------------------------------------------
(* The hot store.                                                          *)

\* The state of d is written by the service: the two properties hold because d
\* is marked, the checks because no state is unknown.
LEMMA SetStateKeeps ==
    ASSUME DInv, NEW d \in Drivers, NEW s \in States, SetState(d, s),
           touched' = touched \cup {d}, expired' = expired,
           \A v \in Workers : pc'[v] = "write" => pc[v] = "write" /\ job'[v] = job[v]
    PROVE  /\ HotTypeOK' /\ touched' \subseteq Drivers /\ expired' \subseteq Drivers
           /\ LeasedIsReserved' /\ StaleReservationExplained' /\ LeasedIsKnown'
           /\ \A w \in Workers : Checked(w)'
  <1>1. /\ state' = [state EXCEPT ![d] = s] /\ UNCHANGED <<reservedRide, lease>>
        /\ state \in [Drivers -> States \cup {Unknown}]
    BY DEF SetState, DInv, TypeOK, HotTypeOK
  <1>2. HotTypeOK' /\ touched' \subseteq Drivers /\ expired' \subseteq Drivers
    BY <1>1 DEF DInv, TypeOK, HotTypeOK
  <1>3. LeasedIsReserved' /\ StaleReservationExplained' /\ LeasedIsKnown'
    BY <1>1, StatesKnown DEF DInv, LeasedIsReserved, StaleReservationExplained, LeasedIsKnown
  <1>4. ASSUME NEW w \in Workers PROVE Checked(w)'
    <2> SUFFICES ASSUME pc'[w] = "write", job'[w].kind # "register"
                 PROVE  state'[job'[w].drv] # Unknown
      BY DEF Checked
    <2>1. pc[w] = "write" /\ job'[w] = job[w]
      OBVIOUS
    <2>2. state[job[w].drv] # Unknown /\ job[w].drv \in Drivers
      BY <2>1, JobTypes DEF DInv, Checked
    <2> QED BY <1>1, <2>1, <2>2, StatesKnown
  <1> QED BY <1>2, <1>3, <1>4

\* The hot store is left alone.
LEMMA HotFrame ==
    ASSUME DInv, UNCHANGED <<hotVars, expired, touched>>,
           \A v \in Workers : pc'[v] = "write" => pc[v] = "write" /\ job'[v] = job[v]
    PROVE  /\ HotTypeOK' /\ touched' \subseteq Drivers /\ expired' \subseteq Drivers
           /\ LeasedIsReserved' /\ StaleReservationExplained' /\ LeasedIsKnown'
           /\ \A w \in Workers : Checked(w)'
  <1>1. UNCHANGED <<state, reservedRide, lease>>
    BY DEF hotVars
  <1>2. /\ HotTypeOK' /\ touched' \subseteq Drivers /\ expired' \subseteq Drivers
        /\ LeasedIsReserved' /\ StaleReservationExplained' /\ LeasedIsKnown'
    BY <1>1 DEF DInv, TypeOK, HotTypeOK, LeasedIsReserved, StaleReservationExplained, LeasedIsKnown
  <1>3. \A w \in Workers : Checked(w)'
    BY <1>1 DEF DInv, Checked
  <1> QED BY <1>2, <1>3

-----------------------------------------------------------------------------
(* The RPCs.                                                               *)

LEMMA BeginKeeps ==
    ASSUME DInv, NEW w \in Workers, NEW d \in Drivers, NEW s \in States, NEW r \in Rides,
           NEW k \in Kinds, Begin(w, d, s, r, k), k = "register" \/ state[d] # Unknown
    PROVE  DInv' /\ UNCHANGED state
  <1>1. /\ pc' = [pc EXCEPT ![w] = "write"] /\ UNCHANGED <<state, reservedRide, lease>>
        /\ job' = [job EXCEPT ![w] = [drv |-> d, to |-> s, ride |-> r, kind |-> k]]
        /\ UNCHANGED <<cache, assignedRide, published, expired, touched>>
    BY DEF Begin, hotVars
  <1>2. [drv |-> d, to |-> s, ride |-> r, kind |-> k] \in Jobs
    BY DEF Jobs
  <1>3. TypeOK'
    BY <1>1, <1>2 DEF DInv, TypeOK, HotTypeOK
  <1>4. LeasedIsReserved' /\ StaleReservationExplained' /\ LeasedIsKnown'
    BY <1>1 DEF DInv, LeasedIsReserved, StaleReservationExplained, LeasedIsKnown
  <1>5. ASSUME NEW v \in Workers PROVE Checked(v)'
    <2>1. CASE v = w
      <3>1. job'[v].drv = d /\ job'[v].kind = k
        BY <1>1, <2>1 DEF DInv, TypeOK
      <3> QED BY <1>1, <3>1 DEF Checked
    <2>2. CASE v # w
      <3>1. job'[v] = job[v] /\ pc'[v] = pc[v]
        BY <1>1, <2>2 DEF DInv, TypeOK
      <3> QED BY <1>1, <3>1 DEF DInv, Checked
    <2> QED BY <2>1, <2>2
  <1> QED BY <1>1, <1>3, <1>4, <1>5 DEF DInv

\* The four RPCs, up to their check.
LEMMA RequestKeeps ==
    ASSUME DInv, NEW w \in Workers, NEW d \in Drivers, NEW r \in Rides,
           \/ RegisterDriver(w, d, r)
           \/ \E s \in States : UpdateDriverStatus(w, d, s, r)
           \/ ReleaseDriver(w, d, r)
           \/ AssignDriver(w, d, r)
    PROVE  DInv' /\ UNCHANGED state
  <1>1. CASE RegisterDriver(w, d, r)
    BY <1>1, BeginKeeps DEF RegisterDriver, States, Kinds
  <1>2. ASSUME NEW s \in States, UpdateDriverStatus(w, d, s, r)
        PROVE  DInv' /\ UNCHANGED state
    BY <1>2, BeginKeeps DEF UpdateDriverStatus, Kinds
  <1>3. CASE ReleaseDriver(w, d, r)
    BY <1>3, BeginKeeps DEF ReleaseDriver, States, Kinds, Unknown
  <1>4. CASE AssignDriver(w, d, r)
    BY <1>4, BeginKeeps DEF AssignDriver, States, Kinds, Unknown
  <1> QED BY <1>1, <1>2, <1>3, <1>4

\* A step of an RPC that writes the state of its driver, or nothing.
LEMMA ServiceKeeps ==
    ASSUME DInv, NEW w \in Workers, pc[w] # "idle",
           NEW next \in {"idle", "cache", "emit"}, Finish(w, next),
           \/ UNCHANGED <<hotVars, touched>>
           \/ /\ pc[w] = "write" /\ job[w].kind # "assign"
              /\ SetState(job[w].drv, job[w].to)
              /\ touched' = touched \cup {job[w].drv},
           expired' = expired,
           cache' \in [Drivers -> States \cup {Unknown}],
           assignedRide' \in [Drivers -> Rides \cup {None}],
           published' \in [Drivers -> States \cup {Unknown}]
    PROVE  DInv' /\ \A d \in Drivers : Creates(d) => Registering(d)
  <1>1. /\ pc' \in [Workers -> {"idle", "write", "cache", "emit"}]
        /\ job' \in [Workers -> Jobs \cup {None}]
        /\ \A v \in Workers : pc'[v] # "idle" => job'[v] \in Jobs
        /\ \A v \in Workers : pc'[v] = "write" => pc[v] = "write" /\ job'[v] = job[v]
    BY FinishTypes DEF DInv
  <1>2. /\ job[w].drv \in Drivers /\ job[w].to \in States
    BY JobTypes DEF DInv
  <1>3. /\ HotTypeOK' /\ touched' \subseteq Drivers /\ expired' \subseteq Drivers
        /\ LeasedIsReserved' /\ StaleReservationExplained' /\ LeasedIsKnown'
        /\ \A v \in Workers : Checked(v)'
    BY <1>1, <1>2, SetStateKeeps, HotFrame
  <1>4. TypeOK'
    BY <1>1, <1>3 DEF TypeOK
  <1>5. ASSUME NEW d \in Drivers, Creates(d) PROVE Registering(d)
    <2>1. /\ pc[w] = "write" /\ SetState(job[w].drv, job[w].to)
      BY <1>5 DEF Creates, hotVars
    <2>2. d = job[w].drv
      BY <2>1, <1>2, <1>5 DEF Creates, SetState, DInv, TypeOK, HotTypeOK
    <2>3. job[w].kind = "register"
      BY <2>1, <2>2, <1>5 DEF Creates, DInv, Checked
    <2> QED BY <2>1, <2>2, <2>3 DEF Registering
  <1> QED BY <1>3, <1>4, <1>5 DEF DInv

LEMMA WorkerKeeps ==
    ASSUME DInv, NEW w \in Workers,
           WriteState(w) \/ WriteAssignedRide(w) \/ WriteFails(w) \/ WriteCache(w) \/ Emit(w)
    PROVE  DInv' /\ \A d \in Drivers : Creates(d) => Registering(d)
  <1> pc[w] # "idle"
    BY DEF WriteState, WriteAssignedRide, WriteFails, WriteCache, Emit
  <1>1. /\ job[w].drv \in Drivers /\ job[w].to \in States /\ job[w].ride \in Rides
    BY JobTypes DEF DInv
  <1>2. /\ cache \in [Drivers -> States \cup {Unknown}]
        /\ assignedRide \in [Drivers -> Rides \cup {None}]
        /\ published \in [Drivers -> States \cup {Unknown}]
    BY DEF DInv, TypeOK
  <1>3. CASE WriteState(w)
    <2>1. \E next \in {"cache", "emit"} : Finish(w, next)
      BY <1>3 DEF WriteState
    <2>2. /\ pc[w] = "write" /\ job[w].kind # "assign" /\ SetState(job[w].drv, job[w].to)
          /\ touched' = touched \cup {job[w].drv}
          /\ UNCHANGED <<cache, assignedRide, published, expired>>
      BY <1>3 DEF WriteState, InitDriver
    <2> QED BY <1>2, <2>1, <2>2, ServiceKeeps
  <1>4. CASE WriteAssignedRide(w)
    <2>1. /\ Finish(w, "idle") /\ UNCHANGED <<hotVars, cache, published, expired, touched>>
          /\ \/ assignedRide' = [assignedRide EXCEPT ![job[w].drv] = job[w].ride]
             \/ UNCHANGED assignedRide
      BY <1>4 DEF WriteAssignedRide
    <2>2. assignedRide' \in [Drivers -> Rides \cup {None}]
      BY <1>1, <1>2, <2>1
    <2> QED BY <1>2, <2>1, <2>2, ServiceKeeps
  <1>5. CASE WriteFails(w)
    <2>1. /\ Finish(w, "idle") /\ UNCHANGED <<cache, assignedRide, published, expired>>
          /\ \/ UNCHANGED <<hotVars, touched>>
             \/ /\ pc[w] = "write" /\ job[w].kind # "assign" /\ SetState(job[w].drv, job[w].to)
                /\ touched' = touched \cup {job[w].drv}
      BY <1>5 DEF WriteFails
    <2> QED BY <1>2, <2>1, ServiceKeeps
  <1>6. CASE WriteCache(w)
    <2>1. /\ Finish(w, "emit") /\ UNCHANGED <<hotVars, assignedRide, published, expired, touched>>
          /\ \/ cache' = [cache EXCEPT ![job[w].drv] = "AVAILABLE"]
             \/ cache' = [cache EXCEPT ![job[w].drv] = job[w].to]
             \/ cache' = cache
      BY <1>6 DEF WriteCache
    <2>2. cache' \in [Drivers -> States \cup {Unknown}]
      BY <1>1, <1>2, <2>1 DEF States
    <2> QED BY <1>2, <2>1, <2>2, ServiceKeeps
  <1>7. CASE Emit(w)
    <2>1. /\ Finish(w, "idle") /\ UNCHANGED <<hotVars, cache, assignedRide, expired, touched>>
          /\ \/ published' = [published EXCEPT ![job[w].drv] = job[w].to]
             \/ UNCHANGED published
      BY <1>7 DEF Emit
    <2>2. published' \in [Drivers -> States \cup {Unknown}]
      BY <1>1, <1>2, <2>1
    <2> QED BY <1>2, <2>1, <2>2, ServiceKeeps
  <1> QED BY <1>3, <1>4, <1>5, <1>6, <1>7

-----------------------------------------------------------------------------
(* The reservations.                                                       *)

\* A script or the expiry of a lease on d.
LEMMA ScriptKeeps ==
    ASSUME DInv, NEW d \in Drivers, UNCHANGED svcVars, HotTypeOK',
           touched' \subseteq Drivers, expired' \subseteq Drivers,
           state[d] # Unknown => state'[d] # Unknown,
           lease'[d] # None => state'[d] # Unknown,
           lease'[d] # None /\ d \notin touched' => state'[d] = "RESERVED",
           state'[d] = "RESERVED" /\ lease'[d] = None => d \in expired' \cup touched',
           \A e \in Drivers \ {d} : /\ state'[e] = state[e] /\ lease'[e] = lease[e]
                                    /\ e \in touched' <=> e \in touched
                                    /\ e \in expired => e \in expired'
    PROVE  DInv'
  <1>1. TypeOK'
    BY DEF DInv, TypeOK, svcVars
  <1>2. LeasedIsReserved' /\ StaleReservationExplained' /\ LeasedIsKnown'
    BY DEF DInv, LeasedIsReserved, StaleReservationExplained, LeasedIsKnown
  <1>3. ASSUME NEW w \in Workers PROVE Checked(w)'
    <2> SUFFICES ASSUME pc[w] = "write", job[w].kind # "register"
                 PROVE  state'[job[w].drv] # Unknown
      BY DEF Checked, svcVars
    <2>1. state[job[w].drv] # Unknown /\ job[w].drv \in Drivers
      BY JobTypes DEF DInv, Checked
    <2> QED BY <2>1
  <1> QED BY <1>1, <1>2, <1>3 DEF DInv

\* No script touches a driver without a state.
LEMMA ReservationKeeps ==
    ASSUME DInv, NEW d \in Drivers, Reserved(d) \/ Released(d) \/ Expired(d)
    PROVE  DInv' /\ \A e \in Drivers : ~Creates(e)
  <1>1. /\ state \in [Drivers -> States \cup {Unknown}]
        /\ reservedRide \in [Drivers -> Rides \cup {None}]
        /\ lease \in [Drivers -> LeaseValues \cup {None}]
        /\ touched \subseteq Drivers /\ expired \subseteq Drivers
    BY DEF DInv, TypeOK, HotTypeOK
  <1>2. /\ lease[d] # None /\ d \notin touched => state[d] = "RESERVED"
        /\ state[d] = "RESERVED" /\ lease[d] = None => d \in expired \cup touched
        /\ lease[d] # None => state[d] # Unknown
    BY DEF DInv, LeasedIsReserved, StaleReservationExplained, LeasedIsKnown
  <1>3. UNCHANGED svcVars
    BY DEF Reserved, Released, Expired
  <1>4. ASSUME UNCHANGED <<state, reservedRide, lease, touched, expired>>
        PROVE  DInv' /\ \A e \in Drivers : ~Creates(e)
    BY <1>1, <1>2, <1>3, <1>4, ScriptKeeps DEF HotTypeOK, Creates
  <1>5. ASSUME NEW lv \in LeaseValues, lease[d] = None, Reservable(d),
               lease' = [lease EXCEPT ![d] = lv], state' = [state EXCEPT ![d] = "RESERVED"],
               reservedRide' = [reservedRide EXCEPT ![d] = lv.ride],
               touched' = touched \ {d}, expired' = expired
        PROVE  DInv' /\ \A e \in Drivers : ~Creates(e)
    <2>1. lv.ride \in Rides /\ lv # None /\ "RESERVED" \in States /\ "RESERVED" # Unknown
      BY NoneAssumption DEF LeaseValues, States, Unknown
    <2>2. HotTypeOK'
      BY <1>1, <1>5, <2>1 DEF HotTypeOK
    <2>3. /\ lease'[d] = lv /\ state'[d] = "RESERVED"
          /\ \A e \in Drivers \ {d} : state'[e] = state[e] /\ lease'[e] = lease[e]
      BY <1>1, <1>5
    <2>4. DInv'
      BY <1>1, <1>3, <1>5, <2>1, <2>2, <2>3, ScriptKeeps
    <2>5. state[d] # Unknown
      BY <1>5 DEF Reservable, Unknown
    <2> QED BY <2>3, <2>4, <2>5 DEF Creates
  <1>6. ASSUME NEW lv \in LeaseValues, lease[d] = lv,
               lease' = [lease EXCEPT ![d] = None], state' = [state EXCEPT ![d] = "AVAILABLE"],
               UNCHANGED <<reservedRide, touched, expired>>
        PROVE  DInv'
    <2>1. "AVAILABLE" \in States /\ "AVAILABLE" # Unknown /\ "AVAILABLE" # "RESERVED"
      BY DEF States, Unknown
    <2>2. HotTypeOK'
      BY <1>1, <1>6, <2>1 DEF HotTypeOK
    <2>3. /\ lease'[d] = None /\ state'[d] = "AVAILABLE"
          /\ \A e \in Drivers \ {d} : state'[e] = state[e] /\ lease'[e] = lease[e]
      BY <1>1, <1>6
    <2> QED BY <1>1, <1>3, <1>6, <2>1, <2>2, <2>3, ScriptKeeps
  <1>7. CASE Reserved(d)
    <2>1. PICK lv \in LeaseValues : ReserveScript(d, lv)
      BY <1>7 DEF Reserved
    <2>2. CASE UNCHANGED hotVars
      BY <1>4, <1>7, <2>2 DEF Reserved, hotVars
    <2>3. CASE ~UNCHANGED hotVars
      <3>1. lease[d] = None /\ lease'[d] = lv /\ lv # None
        BY <1>1, <2>1, <2>3, NoneAssumption DEF ReserveScript
      <3> QED BY <1>5, <1>7, <2>1, <2>3, <3>1 DEF Reserved, ReserveScript
    <2> QED BY <2>2, <2>3
  <1>8. CASE Released(d)
    <2>1. PICK lv \in LeaseValues : ReleaseScript(d, lv, "AVAILABLE")
      BY <1>8 DEF Released
    <2>2. CASE lease[d] # lv
      BY <1>4, <1>8, <2>1, <2>2 DEF Released, ReleaseScript, hotVars
    <2>3. CASE lease[d] = lv
      <3>1. DInv'
        BY <1>6, <1>8, <2>1, <2>3 DEF Released, ReleaseScript
      <3>2. state' = [state EXCEPT ![d] = "AVAILABLE"] /\ state[d] # Unknown
        BY <1>2, <2>1, <2>3, NoneAssumption DEF ReleaseScript
      <3> QED BY <1>1, <3>1, <3>2 DEF Creates
    <2> QED BY <2>2, <2>3
  <1>9. CASE Expired(d)
    <2>1. /\ lease' = [lease EXCEPT ![d] = None] /\ UNCHANGED <<state, reservedRide, touched>>
          /\ expired' = expired \cup {d}
      BY <1>9 DEF Expired, Expire
    <2>2. HotTypeOK' /\ expired' \subseteq Drivers
      BY <1>1, <2>1 DEF HotTypeOK
    <2>3. lease'[d] = None /\ \A e \in Drivers \ {d} : lease'[e] = lease[e]
      BY <1>1, <2>1
    <2>4. DInv'
      BY <1>1, <1>3, <2>1, <2>2, <2>3, ScriptKeeps
    <2> QED BY <2>1, <2>4 DEF Creates
  <1> QED BY <1>7, <1>8, <1>9

-----------------------------------------------------------------------------

LEMMA RestartKeeps ==
    ASSUME DInv, Restart PROVE DInv'
  <1>1. /\ pc' = [w \in Workers |-> "idle"] /\ job' = [w \in Workers |-> None]
        /\ cache' = [d \in Drivers |-> Unknown]
        /\ UNCHANGED <<hotVars, assignedRide, published, expired, touched>>
    BY DEF Restart
  <1>2. \A w \in Workers : pc'[w] # "write"
    BY <1>1
  <1>3. /\ HotTypeOK' /\ touched' \subseteq Drivers /\ expired' \subseteq Drivers
        /\ LeasedIsReserved' /\ StaleReservationExplained' /\ LeasedIsKnown'
        /\ \A w \in Workers : Checked(w)'
    BY <1>1, <1>2, HotFrame
  <1>4. TypeOK'
    BY <1>1, <1>3 DEF DInv, TypeOK
  <1> QED BY <1>3, <1>4 DEF DInv

LEMMA StepKeeps ==
    DInv /\ [Next]_vars => DInv' /\ [\A d \in Drivers : Creates(d) => Registering(d)]_vars
  <1> SUFFICES ASSUME DInv, [Next]_vars
               PROVE  DInv' /\ \A d \in Drivers : Creates(d) => Registering(d)
    OBVIOUS
  <1>1. ASSUME UNCHANGED state PROVE \A d \in Drivers : Creates(d) => Registering(d)
    BY <1>1 DEF Creates
  <1>2. CASE Restart
    <2>1. UNCHANGED state
      BY <1>2 DEF Restart, hotVars
    <2> QED BY <1>1, <1>2, <2>1, RestartKeeps
  <1>3. CASE UNCHANGED vars
    <2>1. UNCHANGED <<hotVars, svcVars, expired, touched>>
      BY <1>3 DEF vars
    <2>2. UNCHANGED <<state, pc, job, cache, assignedRide, published>>
      BY <2>1 DEF hotVars, svcVars
    <2>3. /\ HotTypeOK' /\ touched' \subseteq Drivers /\ expired' \subseteq Drivers
          /\ LeasedIsReserved' /\ StaleReservationExplained' /\ LeasedIsKnown'
          /\ \A w \in Workers : Checked(w)'
      BY <2>1, <2>2, HotFrame
    <2>4. TypeOK'
      BY <2>2, <2>3 DEF DInv, TypeOK
    <2> QED BY <1>1, <2>2, <2>3, <2>4 DEF DInv
  <1>4. ASSUME NEW w \in Workers, NEW d \in Drivers, NEW r \in Rides,
               \/ RegisterDriver(w, d, r)
               \/ \E s \in States : UpdateDriverStatus(w, d, s, r)
               \/ ReleaseDriver(w, d, r)
               \/ AssignDriver(w, d, r)
        PROVE  DInv' /\ \A e \in Drivers : Creates(e) => Registering(e)
    BY <1>1, <1>4, RequestKeeps
  <1> QED BY <1>2, <1>3, <1>4, WorkerKeeps, ReservationKeeps DEF Next

LEMMA InvHolds == Spec => []DInv
  <1>1. Init => DInv
    <2> SUFFICES ASSUME Init PROVE DInv
      OBVIOUS
    <2>1. TypeOK
      BY DEF Init, HotInit, TypeOK, HotTypeOK
    <2>2. /\ \A d \in Drivers : state[d] = Unknown /\ lease[d] = None
          /\ \A w \in Workers : pc[w] = "idle"
      BY DEF Init, HotInit
    <2>3. LeasedIsReserved /\ LeasedIsKnown /\ \A w \in Workers : Checked(w)
      BY <2>2 DEF LeasedIsReserved, LeasedIsKnown, Checked
    <2>4. StaleReservationExplained
      BY <2>2 DEF StaleReservationExplained, Unknown
    <2> QED BY <2>1, <2>3, <2>4 DEF DInv
  <1> QED BY <1>1, StepKeeps, PTL DEF Spec

\* Every variable keeps its type; in particular an RPC in progress has a job
\* (driver/service.go).
THEOREM ServiceTypes == Spec => []TypeOK
  <1>1. DInv => TypeOK
    BY DEF DInv
  <1> QED BY <1>1, InvHolds, PTL

\* A leased driver is RESERVED unless the service wrote its state meanwhile, for
\* any RPCs, restarts and lost answers (scripts.go, reserveScript).
THEOREM LeaseMeansReserved == Spec => []LeasedIsReserved
  <1>1. DInv => LeasedIsReserved
    BY DEF DInv
  <1> QED BY <1>1, InvHolds, PTL

\* The self-healing branch of reserveScript meets a RESERVED driver without a
\* lease only after an expiry or a write of the service.
THEOREM StaleIsExplained == Spec => []StaleReservationExplained
  <1>1. DInv => StaleReservationExplained
    BY DEF DInv
  <1> QED BY <1>1, InvHolds, PTL

\* No update, release, assignment, reservation or late answer creates a driver
\* that was not registered (driver/service.go, AssertTransition).
THEOREM RegistrationCreates == Spec => OnlyRegistrationCreates
  <1>1. DInv /\ [Next]_vars =>
           [\A d \in Drivers : state[d] = Unknown /\ state'[d] # Unknown =>
               \E w \in Workers : pc[w] = "write" /\ job[w].drv = d /\ job[w].kind = "register"]_vars
    BY StepKeeps DEF Creates, Registering
  <1> QED BY <1>1, InvHolds, PTL DEF Spec, OnlyRegistrationCreates
=============================================================================

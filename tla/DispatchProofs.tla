--------------------------- MODULE DispatchProofs ---------------------------
(* Theorems about Dispatch, for any number of processes, workers, rides and *)
(* drivers.                                                                 *)
EXTENDS Dispatch, FiniteSetTheorems, SequenceTheorems, TLAPS

Shapes ==
    /\ pc \in [Workers -> Places] /\ ride \in [Workers -> Rides \cup {None}]
    /\ owed \in [Rides -> Int] /\ phase \in [Processes -> Phases]

\* A worker without a request, or in FindCandidates, has no ride.
RideOf(w) == Waiting(w) \/ pc[w] = "answer" => ride[w] = None

DInv ==
    /\ Shapes
    /\ \A w \in Workers : RideOf(w)
    /\ ClientsOutliveCalls
    /\ OneDriverPerDelivery

\* What a step leaves alone, worker by worker.
SameBut(w) ==
    \A v \in Workers \ {w} : pc'[v] = pc[v] /\ ride'[v] = ride[v]

\* The requests in progress are finitely many.
LEMMA PendingFinite ==
    ASSUME NEW r PROVE IsFiniteSet(Pending(r)) /\ Cardinality(Pending(r)) \in Nat
  <1>1. Pending(r) \in SUBSET Workers
    BY DEF Pending
  <1>2. IsFiniteSet(Pending(r))
    BY <1>1, DispatchAssumption, FS_Subset
  <1> QED BY <1>2, FS_CardinalityType

\* A request begins: one more is pending and one more is owed.
LEMMA CountEnters ==
    ASSUME DInv, Shapes', NEW w \in Workers, NEW q \in Rides, SameBut(w),
           Waiting(w), pc'[w] = "search", ride'[w] = q,
           owed' = [owed EXCEPT ![q] = @ + 1]
    PROVE OneDriverPerDelivery'
  <1> SUFFICES ASSUME NEW r \in Rides PROVE owed'[r] = Cardinality(Pending(r)')
    BY DEF OneDriverPerDelivery
  <1>1. owed[r] = Cardinality(Pending(r)) /\ owed[r] \in Int
    BY DEF DInv, Shapes, OneDriverPerDelivery
  <1>2. CASE r = q
    <2>1. Pending(r)' = Pending(r) \cup {w} /\ w \notin Pending(r)
      BY <1>2 DEF Pending, SameBut, Waiting
    <2>2. Cardinality(Pending(r)') = Cardinality(Pending(r)) + 1
      BY <2>1, PendingFinite, FS_AddElement, Zenon
    <2>3. owed'[r] = owed[r] + 1
      BY <1>2 DEF DInv, Shapes
    <2> QED BY <1>1, <2>2, <2>3
  <1>3. CASE r # q
    <2>1. Pending(r)' = Pending(r)
      BY <1>3 DEF Pending, SameBut, Waiting
    <2>2. owed'[r] = owed[r]
      BY <1>3 DEF DInv, Shapes
    <2> QED BY <1>1, <2>1, <2>2
  <1> QED BY <1>2, <1>3

\* A pending request is settled: it is no longer pending nor owed.
LEMMA CountLeaves ==
    ASSUME DInv, NEW w \in Workers, SameBut(w), Settle(w),
           pc[w] \in {"search", "reserve"}, pc'[w] \notin {"search", "reserve"}
    PROVE OneDriverPerDelivery'
  <1> SUFFICES ASSUME NEW r \in Rides PROVE owed'[r] = Cardinality(Pending(r)')
    BY DEF OneDriverPerDelivery
  <1>1. owed[r] = Cardinality(Pending(r)) /\ owed[r] \in Int
    BY DEF DInv, Shapes, OneDriverPerDelivery
  <1>2. CASE r = ride[w]
    <2>1. Pending(r)' = Pending(r) \ {w} /\ w \in Pending(r)
      BY <1>2 DEF Pending, SameBut
    <2>2. Cardinality(Pending(r)') = Cardinality(Pending(r)) - 1
      BY <2>1, PendingFinite, FS_RemoveElement, Zenon
    <2>3. owed'[r] = owed[r] - 1
      BY <1>2 DEF Settle
    <2> QED BY <1>1, <2>2, <2>3
  <1>3. CASE r # ride[w]
    <2>1. Pending(r)' = Pending(r)
      BY <1>3 DEF Pending, SameBut
    <2>2. owed'[r] = owed[r]
      BY <1>1, <1>3 DEF Settle
    <2> QED BY <1>1, <2>1, <2>2
  <1> QED BY <1>2, <1>3

\* A worker that moves on with its request changes no count.
LEMMA CountStays ==
    ASSUME DInv, NEW w \in Workers, SameBut(w), UNCHANGED owed,
           \/ ride'[w] = ride[w] /\ (pc[w] \in {"search", "reserve"} <=> pc'[w] \in {"search", "reserve"})
           \/ ride'[w] = None /\ ride[w] = None
           \/ pc[w] \notin {"search", "reserve"} /\ pc'[w] \notin {"search", "reserve"}
    PROVE OneDriverPerDelivery'
  <1> SUFFICES ASSUME NEW r \in Rides PROVE owed'[r] = Cardinality(Pending(r)')
    BY DEF OneDriverPerDelivery
  <1>1. owed[r] = Cardinality(Pending(r))
    BY DEF DInv, OneDriverPerDelivery
  <1>2. r # None
    BY NoneAssumption
  <1>3. Pending(r)' = Pending(r)
    BY <1>2 DEF Pending, SameBut
  <1> QED BY <1>1, <1>3

\* The workers of a process end: what was pending there is settled.
LEMMA CountAbandon ==
    ASSUME DInv, NEW p \in Processes, Abandon(p)
    PROVE OneDriverPerDelivery'
  <1> DEFINE gone == {w \in Workers : Host[w] = p}
             busy == {w \in gone : ~Waiting(w)}
  <1> SUFFICES ASSUME NEW r \in Rides PROVE owed'[r] = Cardinality(Pending(r)')
    BY DEF OneDriverPerDelivery
  <1>1. owed[r] = Cardinality(Pending(r)) /\ r # None
    BY NoneAssumption DEF DInv, OneDriverPerDelivery
  <1>2. {w \in busy : ride[w] = r /\ pc[w] # "publish"} = Pending(r) \cap gone
    BY <1>1 DEF DInv, Shapes, RideOf, Pending, Waiting, Places
  <1>3. owed'[r] = owed[r] - Cardinality(Pending(r) \cap gone)
    <2>1. owed'[r] = owed[r] - Cardinality({w \in busy : ride[w] = r /\ pc[w] # "publish"})
      BY DEF Abandon
    <2> QED BY <1>2, <2>1
  <1>4. Pending(r)' = Pending(r) \ gone
    <2>1. \A w \in Workers \ gone : pc'[w] = pc[w] /\ ride'[w] = ride[w]
      BY DEF Abandon
    <2>2. \A w \in gone : pc'[w] \notin {"search", "reserve"}
      BY DEF Abandon, Waiting
    <2> QED BY <2>1, <2>2 DEF Pending
  <1>5. Cardinality(Pending(r) \ gone) = Cardinality(Pending(r)) - Cardinality(Pending(r) \cap gone)
    BY PendingFinite, FS_Difference, Zenon
  <1> QED BY <1>1, <1>3, <1>4, <1>5

-----------------------------------------------------------------------------

\* A step that touches neither the workers nor the processes.
LEMMA FrameKeeps ==
    ASSUME DInv, UNCHANGED <<pc, ride, owed, phase>> PROVE DInv'
  BY DEF DInv, Shapes, RideOf, Waiting, ClientsOutliveCalls, ClientsOpen,
         OneDriverPerDelivery, Pending

\* One worker goes to place x with ride y.
LEMMA Move ==
    ASSUME DInv, NEW w \in Workers, NEW x \in Places, NEW y \in Rides \cup {None},
           pc' = [pc EXCEPT ![w] = x], ride' = [ride EXCEPT ![w] = y],
           owed' \in [Rides -> Int], phase' = phase
    PROVE Shapes' /\ SameBut(w) /\ pc'[w] = x /\ ride'[w] = y
  BY DEF DInv, Shapes, SameBut

LEMMA MoveKeeps ==
    ASSUME DInv, NEW w \in Workers, NEW x \in Places, NEW y \in Rides \cup {None},
           pc' = [pc EXCEPT ![w] = x], ride' = [ride EXCEPT ![w] = y],
           owed' \in [Rides -> Int], phase' = phase,
           x \in {"idle", "done", "answer"} => y = None,
           w \in Calls => x \in {"idle", "done"} \/ ClientsOpen(w),
           OneDriverPerDelivery'
    PROVE DInv'
  <1>1. Shapes' /\ SameBut(w) /\ pc'[w] = x /\ ride'[w] = y
    BY Move, Zenon
  <1>2. \A v \in Workers : RideOf(v)'
    BY <1>1 DEF DInv, RideOf, Waiting, SameBut
  <1>3. ClientsOutliveCalls'
    BY <1>1 DEF DInv, ClientsOutliveCalls, ClientsOpen, Waiting, SameBut, Workers
  <1> QED BY <1>1, <1>2, <1>3 DEF DInv

\* A request ends, with or without a driver.
LEMMA LeaveKeeps ==
    ASSUME DInv, NEW w \in Workers, NEW x \in Places, NEW y \in Rides \cup {None},
           pc[w] \in {"search", "reserve"}, x \in {"idle", "done", "publish"},
           pc' = [pc EXCEPT ![w] = x], ride' = [ride EXCEPT ![w] = y],
           x # "publish" => y = None, Settle(w), phase' = phase
    PROVE DInv'
  <1>1. owed' \in [Rides -> Int]
    BY DEF Settle, DInv, Shapes
  <1>2. SameBut(w) /\ pc'[w] = x
    BY <1>1, Move, Zenon
  <1>3. OneDriverPerDelivery'
    BY <1>2, CountLeaves
  <1>4. w \in Calls => ClientsOpen(w)
    BY DEF DInv, ClientsOutliveCalls, Waiting
  <1> QED BY <1>1, <1>3, <1>4, MoveKeeps, Zenon

\* A worker goes on with its request.
LEMMA StayKeeps ==
    ASSUME DInv, NEW w \in Workers, NEW x \in Places, ~Waiting(w),
           pc' = [pc EXCEPT ![w] = x], UNCHANGED <<ride, owed, phase>>,
           x \in {"idle", "done", "answer"} => ride[w] = None,
           ride[w] = None \/ (pc[w] \in {"search", "reserve"} <=> x \in {"search", "reserve"})
    PROVE DInv'
  <1>1. ride' = [ride EXCEPT ![w] = ride[w]] /\ ride[w] \in Rides \cup {None} /\ owed' \in [Rides -> Int]
    BY DEF DInv, Shapes
  <1>2. SameBut(w) /\ pc'[w] = x /\ ride'[w] = ride[w]
    BY <1>1, Move, Zenon
  <1>3. OneDriverPerDelivery'
    BY <1>2, CountStays
  <1>4. w \in Calls => ClientsOpen(w)
    BY DEF DInv, ClientsOutliveCalls
  <1> QED BY <1>1, <1>3, <1>4, MoveKeeps, Zenon

\* A request is taken up.
LEMMA EnterKeeps ==
    ASSUME DInv, NEW w \in Workers, NEW q \in Rides, Waiting(w),
           pc' = [pc EXCEPT ![w] = "search"], ride' = [ride EXCEPT ![w] = q],
           owed' = [owed EXCEPT ![q] = @ + 1], phase' = phase,
           w \in Calls => ClientsOpen(w)
    PROVE DInv'
  <1>1. owed' \in [Rides -> Int] /\ "search" \in Places
    BY DEF DInv, Shapes, Places
  <1>2. Shapes' /\ SameBut(w) /\ pc'[w] = "search" /\ ride'[w] = q
    BY <1>1, Move, Zenon
  <1>3. OneDriverPerDelivery'
    BY <1>2, CountEnters, Zenon
  <1> QED BY <1>1, <1>3, MoveKeeps, Zenon

-----------------------------------------------------------------------------

LEMMA FinishKeeps ==
    ASSUME DInv, NEW w \in Workers, pc[w] \in {"search", "reserve"},
           Finish(w), Settle(w), phase' = phase
    PROVE DInv'
  <1>1. PICK x \in {"idle", "done"} : pc' = [pc EXCEPT ![w] = x]
    BY Zenon DEF Finish
  <1>2. ride' = [ride EXCEPT ![w] = None] /\ x \in Places
    BY DEF Finish, Places
  <1> QED BY <1>1, <1>2, LeaveKeeps, Zenon

LEMMA FailKeeps ==
    ASSUME DInv, NEW w \in Workers, pc[w] = "reserve", Fail(w), phase' = phase
    PROVE DInv'
  <1>1. CASE w \in Consumers /\ attempt[w] < MaxRetries
    <2>1. pc' = [pc EXCEPT ![w] = "search"] /\ UNCHANGED <<ride, owed, phase>>
      BY <1>1 DEF Fail, StartSearch
    <2>2. "search" \in Places /\ ~Waiting(w)
      BY DEF Places, Waiting
    <2> QED BY <2>1, <2>2, StayKeeps, Zenon
  <1>2. CASE ~(w \in Consumers /\ attempt[w] < MaxRetries)
    <2>1. Finish(w) /\ Settle(w)
      BY <1>2 DEF Fail
    <2> QED BY <2>1, FinishKeeps
  <1> QED BY <1>1, <1>2

LEMMA ReserveKeeps ==
    ASSUME DInv, NEW w \in Workers, Reserve(w) PROVE DInv'
  <1> pc[w] = "reserve" /\ phase' = phase
    BY DEF Reserve
  <1>1. Fail(w) \/ Conflict(w) \/ \E t : Win(w, t)
    BY DEF Reserve
  <1>2. CASE Fail(w)
    BY <1>2, FailKeeps
  <1>3. CASE Conflict(w)
    <2>1. Fail(w) \/ UNCHANGED <<pc, ride, owed, phase>>
      BY <1>3 DEF Conflict
    <2> QED BY <2>1, FailKeeps, FrameKeeps
  <1>4. ASSUME NEW t, Win(w, t) PROVE DInv'
    <2>1. /\ pc' = [pc EXCEPT ![w] = "publish"] /\ Settle(w)
          /\ ride' = [ride EXCEPT ![w] = ride[w]] /\ ride[w] \in Rides \cup {None}
      BY <1>4 DEF Win, DInv, Shapes
    <2>2. "publish" \in Places
      BY DEF Places
    <2> QED BY <2>1, <2>2, LeaveKeeps, Zenon
  <1> QED BY <1>1, <1>2, <1>3, <1>4

LEMMA WorkerKeeps ==
    ASSUME DInv, NEW w \in Workers, WorkerStep(w) PROVE DInv'
  <1>1. ASSUME NEW d \in Drivers, SearchNearby(w, d) PROVE DInv'
    BY <1>1, FrameKeeps DEF SearchNearby
  <1>2. CASE SearchEndsEmpty(w)
    BY <1>2, FinishKeeps DEF SearchEndsEmpty
  <1>3. CASE Rank(w)
    <2>1. PICK x \in {"answer", "reserve"} :
             pc' = [pc EXCEPT ![w] = x] /\ (x = "answer" => ride[w] = None)
      BY <1>3, Zenon DEF Rank
    <2>2. pc[w] = "search" /\ UNCHANGED <<ride, owed, phase>>
      BY <1>3 DEF Rank
    <2>3. x \in Places /\ ~Waiting(w)
      BY <2>2 DEF Places, Waiting
    <2> QED BY <2>1, <2>2, <2>3, StayKeeps, Zenon
  <1>4. CASE Reserve(w)
    BY <1>4, ReserveKeeps
  <1>5. CASE Publish(w)
    <2>1. PICK x \in {"idle", "done"} : pc' = [pc EXCEPT ![w] = x]
      BY <1>5, Zenon DEF Publish, Finish
    <2>2. /\ ride' = [ride EXCEPT ![w] = None] /\ x \in Places /\ UNCHANGED <<owed, phase>>
          /\ pc[w] \in {"publish", "answer"}
      BY <1>5 DEF Publish, Finish, Places
    <2>3. owed' \in [Rides -> Int]
      BY <2>2 DEF DInv, Shapes
    <2>4. SameBut(w) /\ pc'[w] = x
      BY <2>1, <2>2, <2>3, Move, Zenon
    <2>5. OneDriverPerDelivery'
      BY <2>2, <2>4, CountStays
    <2> QED BY <2>1, <2>2, <2>3, <2>5, MoveKeeps, Zenon
  <1> QED BY <1>1, <1>2, <1>3, <1>4, <1>5 DEF WorkerStep

\* Requests are taken up by idle workers, calls only while the process serves.
LEMMA StartKeeps ==
    ASSUME DInv, NEW w \in Workers,
           FindCandidates(w) \/ \E r \in Rides : ReadMessage(w, r) \/ DispatchByRideID(w, r)
    PROVE DInv'
  <1>1. pc[w] = "idle" /\ Waiting(w) /\ phase' = phase /\ pc' = [pc EXCEPT ![w] = "search"]
    BY DEF FindCandidates, ReadMessage, DispatchByRideID, StartSearch, Waiting
  <1>2. w \in Calls => ClientsOpen(w)
    BY DispatchAssumption DEF FindCandidates, ReadMessage, DispatchByRideID, ClientsOpen
  <1>3. CASE FindCandidates(w)
    <2>1. ride[w] = None /\ ride' = [ride EXCEPT ![w] = None] /\ "search" \in Places
      BY <1>1, <1>3 DEF FindCandidates, DInv, RideOf, Shapes, Places
    <2>2. UNCHANGED owed /\ owed' \in [Rides -> Int]
      BY <1>3 DEF FindCandidates, DInv, Shapes
    <2>3. SameBut(w) /\ ride'[w] = None
      BY <1>1, <2>1, <2>2, Move, Zenon
    <2>4. OneDriverPerDelivery'
      BY <2>1, <2>2, <2>3, CountStays
    <2> QED BY <1>1, <1>2, <2>1, <2>2, <2>4, MoveKeeps, Zenon
  <1>4. ASSUME NEW r \in Rides, ReadMessage(w, r) \/ DispatchByRideID(w, r) PROVE DInv'
    <2>1. ride' = [ride EXCEPT ![w] = r] /\ owed' = [owed EXCEPT ![r] = @ + 1]
      BY <1>4 DEF ReadMessage, DispatchByRideID
    <2> QED BY <1>1, <1>2, <2>1, EnterKeeps, Zenon
  <1> QED BY <1>3, <1>4

\* The process: clients are closed without calls, and a process that ends takes
\* its workers along.
LEMMA AbandonKeeps ==
    ASSUME DInv, NEW p \in Processes, Abandon(p), phase' = [phase EXCEPT ![p] = "down"]
    PROVE DInv'
  <1>1. Shapes'
    <2>1. pc' \in [Workers -> Places] /\ ride' \in [Workers -> Rides \cup {None}]
      BY DEF Abandon, DInv, Shapes, Places
    <2>2. phase' \in [Processes -> Phases]
      BY DEF DInv, Shapes, Phases
    <2>3. owed' \in [Rides -> Int]
      <3> SUFFICES ASSUME NEW r \in Rides
                   PROVE Cardinality({w \in {v \in {u \in Workers : Host[u] = p} : ~Waiting(v)} :
                                        ride[w] = r /\ pc[w] # "publish"}) \in Nat
        BY DEF Abandon, DInv, Shapes
      <3> QED BY DispatchAssumption, FS_Subset, FS_CardinalityType
    <2> QED BY <2>1, <2>2, <2>3 DEF Shapes
  <1>2. \A w \in Workers : RideOf(w)'
    BY DEF Abandon, DInv, RideOf, Waiting
  <1>3. ClientsOutliveCalls'
    BY DispatchAssumption DEF Abandon, DInv, Shapes, ClientsOutliveCalls, ClientsOpen, Waiting, Workers
  <1>4. OneDriverPerDelivery'
    BY CountAbandon
  <1> QED BY <1>1, <1>2, <1>3, <1>4 DEF DInv

LEMMA ProcessKeeps ==
    ASSUME DInv, NEW p \in Processes, EngineStops(p) \/ EngineReturns(p) \/ EngineOther(p)
    PROVE DInv'
  <1>1. CASE EngineReturns(p) \/ (Crash(p) /\ Abandon(p))
    BY <1>1, AbandonKeeps DEF EngineReturns, Return, Crash
  <1>2. ASSUME UNCHANGED <<pc, ride, owed>>, NEW x \in Phases, phase' = [phase EXCEPT ![p] = x],
               \/ x \in {"serving", "draining"}
               \/ \A w \in Calls : Host[w] = p => Waiting(w)
        PROVE DInv'
    <2>1. Shapes' /\ OneDriverPerDelivery' /\ \A w \in Workers : RideOf(w)'
      BY <1>2 DEF DInv, Shapes, OneDriverPerDelivery, Pending, RideOf, Waiting
    <2>2. ClientsOutliveCalls'
      BY <1>2, DispatchAssumption DEF DInv, Shapes, ClientsOutliveCalls, ClientsOpen, Waiting, Workers
    <2> QED BY <2>1, <2>2 DEF DInv
  <1>3. CASE EngineStops(p)
    <2>1. UNCHANGED <<pc, ride, owed>> /\ phase' = [phase EXCEPT ![p] = "closed"] /\ "closed" \in Phases
      BY <1>3 DEF EngineStops, GracefulStop, workVars, Phases
    <2>2. \A w \in Calls : Host[w] = p => Waiting(w)
      BY <1>3 DEF EngineStops, GracefulStop
    <2> QED BY <1>2, <2>1, <2>2, Zenon
  <1>4. CASE (Start(p) \/ Shutdown(p)) /\ UNCHANGED <<workVars, owed>>
    <2>1. PICK x \in {"serving", "draining"} : phase' = [phase EXCEPT ![p] = x]
      BY <1>4 DEF Start, Shutdown
    <2>2. UNCHANGED <<pc, ride, owed>> /\ x \in Phases
      BY <1>4 DEF workVars, Phases
    <2> QED BY <1>2, <2>1, <2>2, Zenon
  <1> QED BY <1>1, <1>3, <1>4 DEF EngineOther

-----------------------------------------------------------------------------

LEMMA StepKeeps == ASSUME DInv, [Next]_vars PROVE DInv'
  <1>1. ASSUME NEW r \in Rides, CreateRide(r) \/ CancelRide(r) \/ CancelWrites(r) \/ RideExpires(r)
        PROVE DInv'
    BY <1>1, FrameKeeps DEF CreateRide, CancelRide, CancelWrites, RideExpires, workVars
  <1>2. ASSUME NEW w \in Workers, NEW r \in Rides, ReadMessage(w, r) \/ DispatchByRideID(w, r)
        PROVE DInv'
    BY <1>2, StartKeeps
  <1>3. ASSUME NEW w \in Workers, FindCandidates(w) \/ WorkerStep(w) PROVE DInv'
    BY <1>3, StartKeeps, WorkerKeeps
  <1>4. ASSUME NEW p \in Processes, EngineStops(p) \/ EngineReturns(p) \/ EngineOther(p) PROVE DInv'
    BY <1>4, ProcessKeeps
  <1>5. ASSUME NEW t \in Tokens, RenewFails(t) PROVE DInv'
    BY <1>5, FrameKeeps DEF RenewFails, workVars
  <1>6. ASSUME NEW d \in Drivers, LeaseExpires(d) \/ DriverServiceWrites(d) PROVE DInv'
    BY <1>6, FrameKeeps DEF LeaseExpires, DriverServiceWrites, workVars
  <1>7. CASE UNCHANGED vars
    BY <1>7, FrameKeeps DEF vars, workVars
  <1> QED BY <1>1, <1>2, <1>3, <1>4, <1>5, <1>6, <1>7 DEF Next

LEMMA InvHolds == Spec => []DInv
  <1>1. ASSUME Init PROVE DInv
    <2>1. Shapes /\ ClientsOutliveCalls /\ \A w \in Workers : RideOf(w)
      BY <1>1 DEF Init, Shapes, Places, Phases, ClientsOutliveCalls, Waiting, RideOf, Workers
    <2>2. OneDriverPerDelivery
      <3> SUFFICES ASSUME NEW r \in Rides PROVE owed[r] = Cardinality(Pending(r))
        BY DEF OneDriverPerDelivery
      <3>1. Pending(r) = {} /\ owed[r] = 0
        BY <1>1 DEF Init, Pending
      <3> QED BY <3>1, FS_EmptySet
    <2> QED BY <2>1, <2>2 DEF DInv
  <1> QED BY <1>1, StepKeeps, PTL DEF Spec

\* No call of any engine runs into closed clients, however shutdowns, crashes
\* and restarts fall (server.go, Run).
THEOREM CallsHaveClients == Spec => []ClientsOutliveCalls
  <1>1. DInv => ClientsOutliveCalls
    BY DEF DInv
  <1> QED BY <1>1, InvHolds, PTL

\* A delivery books at most one driver, for any number of engines, calls,
\* rides, drivers, candidates and retries (engine.go, DispatchForRide).
THEOREM DeliveriesBookOnce == Spec => []OneDriverPerDelivery
  <1>1. DInv => OneDriverPerDelivery
    BY DEF DInv
  <1> QED BY <1>1, InvHolds, PTL

-----------------------------------------------------------------------------
(* The leases.                                                             *)

RideTypes ==
    /\ rideHash \in [Rides -> RideHashes \cup {None}]
    /\ requests \in [Rides -> -1..MaxCopies] /\ cancelling \subseteq Rides

WorkTypes ==
    /\ unread \in [Workers -> SUBSET Drivers] /\ found \in [Workers -> SUBSET Drivers]
    /\ ranked \in [Workers -> Seq(Drivers)]
    /\ attempt \in [Workers -> 0..MaxRetries]

LeaseTypes == HotTypeOK /\ renewer \in [Tokens -> Workers \cup {None}]

\* A worker that reserves or announces has a ride and a candidate.
Equipped(w) == pc[w] \in {"reserve", "publish"} => ride[w] # None /\ ranked[w] # <<>>

HasToken(d, t) == lease[d] # None /\ lease[d].token = t

\* No two drivers have leases with the same token, and a token whose lease is
\* renewed is that of some driver's lease.
Distinct == \A d, e \in Drivers, t \in Tokens : HasToken(d, t) /\ HasToken(e, t) => d = e
Held == \A t \in Tokens : renewer[t] # None => \E d \in Drivers : HasToken(d, t)

\* A worker that announces a driver and renews a lease of that driver renews it
\* for its ride.
Announces(w) ==
    pc[w] = "publish" => \A d \in Drivers : d = Head(ranked[w]) /\ Renews(w, d) => lease[d].ride = ride[w]

BInv ==
    /\ RideTypes /\ WorkTypes /\ LeaseTypes
    /\ \A w \in Workers : Equipped(w)
    /\ Distinct /\ Held
    /\ \A w \in Workers : Announces(w)

\* There are more tokens than drivers, so a new one is always fresh.
LEMMA TokenIsFresh ==
    ASSUME LeaseTypes, Held
    PROVE Token \in Tokens /\ renewer[Token] = None /\ \A d \in Drivers : ~HasToken(d, Token)
  <1> DEFINE Leased == {d \in Drivers : lease[d] # None}
             Used == {t \in Tokens : \E d \in Drivers : HasToken(d, t)}
             f == [d \in Leased |-> lease[d].token]
  <1>1. IsFiniteSet(Leased) /\ Cardinality(Leased) <= Cardinality(Drivers)
    BY TokenAssumption, FS_Subset, Leased \in SUBSET Drivers
  <1>2. f \in Surjection(Leased, Used)
    <2>1. ASSUME NEW d \in Leased PROVE lease[d].token \in Used
      BY DEF LeaseTypes, HotTypeOK, LeaseValues, HasToken
    <2>2. ASSUME NEW t \in Used PROVE \E d \in Leased : f[d] = t
      BY Zenon DEF HasToken
    <2> QED BY <2>1, <2>2, Zenon DEF Surjection
  <1>3. IsFiniteSet(Used) /\ Cardinality(Used) <= Cardinality(Leased)
    <2> HIDE DEF f, Leased, Used
    <2> QED BY <1>1, <1>2, FS_Surjection
  <1>4. Used # Tokens
    <2>1. Cardinality(Used) \in Nat /\ Cardinality(Leased) \in Nat /\ Cardinality(Drivers) \in Nat
      BY <1>1, <1>3, TokenAssumption, FS_CardinalityType
    <2> HIDE DEF f, Leased, Used
    <2> QED BY <1>1, <1>3, <2>1, TokenAssumption
  <1>5. PICK t \in Tokens : t \notin Used
    BY <1>4
  <1>6. renewer[t] = None /\ \A d \in Drivers : lease[d] # None => lease[d].token # t
    BY <1>5 DEF Held, HasToken
  <1> QED BY <1>6 DEF Token, HasToken

\* Renewals end and leases go, but no lease goes that somebody still renews.
Shrinks ==
    /\ \A t \in Tokens : renewer'[t] \in {renewer[t], None}
    /\ \A d \in Drivers : \/ lease'[d] = lease[d]
                          \/ lease'[d] = None /\ lease[d] # None /\ renewer'[lease[d].token] = None

\* Worker w takes the free lease of d with the fresh token t; whether it renews
\* the lease depends on the answer.
Takes(w, d, t) ==
    /\ ride[w] \in Rides
    /\ lease[d] = None /\ t \in Tokens /\ renewer[t] = None /\ \A e \in Drivers : ~HasToken(e, t)
    /\ lease' = [lease EXCEPT ![d] = [ride |-> ride[w], token |-> t]]
    /\ renewer' \in {renewer, [renewer EXCEPT ![t] = w]}

\* What a worker announces is what it announced before.
Steady(w) ==
    pc'[w] = "publish" => pc[w] = "publish" /\ ranked'[w] = ranked[w] /\ ride'[w] = ride[w]

LEMMA ShrinkKeeps ==
    ASSUME BInv, LeaseTypes', Shrinks PROVE Distinct' /\ Held'
  <1>1. ASSUME NEW d \in Drivers, NEW t \in Tokens, HasToken(d, t)' PROVE HasToken(d, t)
    BY <1>1 DEF Shrinks, HasToken
  <1>2. ASSUME NEW t \in Tokens, renewer'[t] # None PROVE \E d \in Drivers : HasToken(d, t)'
    <2>1. renewer[t] # None
      BY <1>2 DEF Shrinks
    <2>2. PICK d \in Drivers : HasToken(d, t)
      BY <2>1 DEF BInv, Held
    <2>3. lease'[d] = lease[d]
      BY <1>2, <2>2 DEF Shrinks, HasToken
    <2> QED BY <2>2, <2>3 DEF HasToken
  <1>3. Distinct'
    BY <1>1 DEF BInv, Distinct
  <1> QED BY <1>2, <1>3 DEF Held

LEMMA ShrinkAnnounces ==
    ASSUME BInv, NEW w \in Workers, Shrinks, Steady(w) PROVE Announces(w)'
  <1> SUFFICES ASSUME pc'[w] = "publish", NEW d \in Drivers, d = Head(ranked'[w]), Renews(w, d)'
               PROVE lease'[d].ride = ride'[w]
    BY DEF Announces
  <1>1. pc[w] = "publish" /\ d = Head(ranked[w]) /\ ride'[w] = ride[w]
    BY DEF Steady
  <1>2. lease'[d] = lease[d] /\ lease[d] # None /\ renewer'[lease[d].token] = w
    BY DEF Shrinks, Renews
  <1>3. lease[d].token \in Tokens /\ w # None
    BY <1>2, TokenAssumption DEF BInv, LeaseTypes, HotTypeOK, LeaseValues
  <1>4. Renews(w, d)
    BY <1>2, <1>3 DEF Shrinks, Renews
  <1> QED BY <1>1, <1>2, <1>4 DEF BInv, Announces

LEMMA TakeKeeps ==
    ASSUME BInv, LeaseTypes', NEW w \in Workers, NEW d \in Drivers, NEW t, Takes(w, d, t)
    PROVE Distinct' /\ Held'
  <1>1. \A e \in Drivers : lease'[e] = IF e = d THEN [ride |-> ride[w], token |-> t] ELSE lease[e]
    BY DEF Takes, BInv, LeaseTypes, HotTypeOK
  <1>2. HasToken(d, t)' /\ \A u : HasToken(d, u)' => u = t
    <2>1. [ride |-> ride[w], token |-> t] \in LeaseValues
      BY DEF Takes, LeaseValues
    <2>2. lease'[d] # None
      BY <1>1, <2>1, NoneAssumption
    <2>3. lease'[d].token = t
      BY <1>1
    <2> QED BY <2>2, <2>3 DEF HasToken
  <1>3. \A u : \A e \in Drivers \ {d} : HasToken(e, u)' <=> HasToken(e, u)
    BY <1>1 DEF HasToken
  <1>4. \A e \in Drivers : ~HasToken(e, t)
    BY DEF Takes
  <1>5. Distinct'
    BY <1>2, <1>3, <1>4 DEF BInv, Distinct
  <1>6. ASSUME NEW u \in Tokens, renewer'[u] # None PROVE \E e \in Drivers : HasToken(e, u)'
    <2>1. CASE u = t
      BY <1>2, <2>1
    <2>2. CASE u # t
      <3>1. renewer[u] # None
        BY <1>6, <2>2 DEF Takes, BInv, LeaseTypes
      <3>2. PICK e \in Drivers : HasToken(e, u)
        BY <3>1 DEF BInv, Held
      <3>3. e # d
        BY <3>2 DEF HasToken, Takes
      <3> QED BY <1>3, <3>2, <3>3
    <2> QED BY <2>1, <2>2
  <1> QED BY <1>5, <1>6 DEF Held

LEMMA TakeAnnounces ==
    ASSUME BInv, NEW w \in Workers, NEW d \in Drivers, NEW t, Takes(w, d, t),
           NEW v \in Workers, v # w, Steady(v)
    PROVE Announces(v)'
  <1> SUFFICES ASSUME pc'[v] = "publish", NEW e \in Drivers, e = Head(ranked'[v]), Renews(v, e)'
               PROVE lease'[e].ride = ride'[v]
    BY DEF Announces
  <1>1. pc[v] = "publish" /\ e = Head(ranked[v]) /\ ride'[v] = ride[v]
    BY DEF Steady
  <1>2. t \in Tokens /\ renewer'[t] # v
    BY TokenAssumption DEF Takes, BInv, LeaseTypes
  <1>3. e # d
    BY <1>2 DEF Takes, Renews, BInv, LeaseTypes, HotTypeOK
  <1>4. lease'[e] = lease[e] /\ lease[e] # None /\ renewer'[lease[e].token] = v
    BY <1>3 DEF Takes, Renews, BInv, LeaseTypes, HotTypeOK
  <1>5. lease[e].token \in Tokens
    BY <1>4 DEF BInv, LeaseTypes, HotTypeOK, LeaseValues
  <1>6. Renews(v, e)
    BY <1>2, <1>4, <1>5 DEF Takes, Renews, BInv, LeaseTypes
  <1> QED BY <1>1, <1>4, <1>6 DEF BInv, Announces

\* The worker that takes the lease announces its driver.
LEMMA TakerAnnounces ==
    ASSUME BInv, NEW w \in Workers, NEW d \in Drivers, NEW t, Takes(w, d, t),
           d = Head(ranked[w]), ranked'[w] = ranked[w], ride'[w] = ride[w]
    PROVE Announces(w)'
  <1>1. lease'[d].ride = ride[w]
    BY DEF Takes, BInv, LeaseTypes, HotTypeOK
  <1> QED BY <1>1 DEF Announces

\* A step that leaves the leases alone, or lets them go.
LEMMA LeasesKeep ==
    ASSUME BInv, RideTypes', WorkTypes', LeaseTypes', Shrinks,
           \A w \in Workers : Equipped(w)' /\ Steady(w)
    PROVE BInv'
  <1>1. Distinct' /\ Held'
    BY ShrinkKeeps
  <1>2. \A w \in Workers : Announces(w)'
    BY ShrinkAnnounces
  <1> QED BY <1>1, <1>2 DEF BInv

LEMMA SameLeases == ASSUME BInv, UNCHANGED <<hotVars, renewer>> PROVE LeaseTypes' /\ Shrinks
  BY DEF BInv, LeaseTypes, HotTypeOK, hotVars, Shrinks

LEMMA SameWorkers ==
    ASSUME BInv, UNCHANGED workVars
    PROVE WorkTypes' /\ \A w \in Workers : Equipped(w)' /\ Steady(w)
  BY DEF BInv, WorkTypes, workVars, Equipped, Steady

LEMMA SameRides == ASSUME BInv, UNCHANGED rideVars PROVE RideTypes'
  BY DEF BInv, RideTypes, rideVars

\* Worker w moves on, and does not announce afterwards.
LEMMA OneMoves ==
    ASSUME BInv, NEW w \in Workers, NEW x, NEW y, NEW s,
           pc' = [pc EXCEPT ![w] = x], ride' = [ride EXCEPT ![w] = y], ranked' = [ranked EXCEPT ![w] = s],
           DInv, x # "publish", x = "reserve" => y # None /\ s # <<>>
    PROVE \A v \in Workers : Equipped(v)' /\ Steady(v)
  <1>1. pc'[w] = x /\ ride'[w] = y /\ ranked'[w] = s
    BY DEF BInv, WorkTypes, DInv, Shapes
  <1>2. \A v \in Workers \ {w} : pc'[v] = pc[v] /\ ride'[v] = ride[v] /\ ranked'[v] = ranked[v]
    BY DEF BInv, WorkTypes, DInv, Shapes
  <1>3. \A v \in Workers : Equipped(v)
    BY DEF BInv
  <1> QED BY <1>1, <1>2, <1>3 DEF Equipped, Steady

-----------------------------------------------------------------------------

LEMMA RideActionsBook ==
    ASSUME BInv, NEW r \in Rides, CreateRide(r) \/ CancelRide(r) \/ CancelWrites(r) \/ RideExpires(r)
    PROVE BInv'
  <1>1. UNCHANGED <<hotVars, workVars, renewer>>
    BY DEF CreateRide, CancelRide, CancelWrites, RideExpires
  <1>2. RideTypes'
    <2>1. CASE CreateRide(r)
      <3>1. rideHash' \in [Rides -> RideHashes \cup {None}]
        <4>1. PICK hash \in {None, [state |-> "REQUESTED", whole |-> TRUE]} :
                 rideHash' = [rideHash EXCEPT ![r] = hash]
          BY <2>1, Zenon DEF CreateRide
        <4>2. hash \in RideHashes \cup {None}
          <5>1. [state |-> "REQUESTED", whole |-> TRUE] \in RideHashes
            BY Zenon DEF RideHashes, RideStates
          <5> QED BY <5>1, Zenon
        <4> QED BY <4>1, <4>2 DEF BInv, RideTypes
      <3>2. requests' \in [Rides -> -1..MaxCopies]
        <4>1. PICK n \in Copies : requests' = [requests EXCEPT ![r] = n]
          BY <2>1, Zenon DEF CreateRide
        <4>2. n \in -1..MaxCopies
          BY DispatchAssumption DEF Copies
        <4> QED BY <4>1, <4>2 DEF BInv, RideTypes
      <3> QED BY <2>1, <3>1, <3>2 DEF CreateRide, BInv, RideTypes
    <2>2. CASE CancelRide(r)
      BY <2>2 DEF CancelRide, BInv, RideTypes
    <2>3. CASE CancelWrites(r)
      <3>1. rideHash' \in [Rides -> RideHashes \cup {None}]
        <4>1. CASE UNCHANGED rideHash
          BY <4>1 DEF BInv, RideTypes
        <4>2. CASE rideHash' = [rideHash EXCEPT ![r] = [state |-> "CANCELLED", whole |-> @ # None /\ @.whole]]
          <5>1. [state |-> "CANCELLED", whole |-> rideHash[r] # None /\ rideHash[r].whole] \in RideHashes
            <6>1. (rideHash[r] # None /\ rideHash[r].whole) \in BOOLEAN
              BY Zenon
            <6> QED BY <6>1 DEF RideHashes, RideStates
          <5> QED BY <4>2, <5>1 DEF BInv, RideTypes
        <4> QED BY <2>3, <4>1, <4>2 DEF CancelWrites
      <3> QED BY <2>3, <3>1, Zenon DEF CancelWrites, BInv, RideTypes
    <2>4. CASE RideExpires(r)
      BY <2>4 DEF RideExpires, BInv, RideTypes
    <2> QED BY <2>1, <2>2, <2>3, <2>4
  <1> QED BY <1>1, <1>2, SameLeases, SameWorkers, LeasesKeep

\* The ways in which a worker begins, gives up and goes on.
LEMMA StartMoves ==
    ASSUME DInv, BInv, NEW w \in Workers, NEW y, StartSearch(w), ride' = [ride EXCEPT ![w] = y],
           attempt' \in [Workers -> 0..MaxRetries]
    PROVE WorkTypes' /\ \A v \in Workers : Equipped(v)' /\ Steady(v)
  <1>1. WorkTypes'
    BY EmptySeq, Zenon DEF StartSearch, BInv, WorkTypes
  <1>2. \A v \in Workers : Equipped(v)' /\ Steady(v)
    BY OneMoves, Zenon DEF StartSearch
  <1> QED BY <1>1, <1>2

LEMMA FinishMoves ==
    ASSUME DInv, BInv, NEW w \in Workers, Finish(w)
    PROVE WorkTypes' /\ \A v \in Workers : Equipped(v)' /\ Steady(v)
  <1>1. WorkTypes'
    BY EmptySeq, DispatchAssumption DEF Finish, BInv, WorkTypes
  <1>2. PICK x \in {"idle", "done"} : pc' = [pc EXCEPT ![w] = x]
    BY Zenon DEF Finish
  <1>3. \A v \in Workers : Equipped(v)' /\ Steady(v)
    BY <1>2, OneMoves, Zenon DEF Finish
  <1> QED BY <1>1, <1>3

LEMMA SameRide == ASSUME DInv, UNCHANGED ride, NEW w \in Workers PROVE ride' = [ride EXCEPT ![w] = ride[w]]
  BY DEF DInv, Shapes

LEMMA FailMoves ==
    ASSUME DInv, BInv, NEW w \in Workers, Fail(w)
    PROVE WorkTypes' /\ \A v \in Workers : Equipped(v)' /\ Steady(v)
  <1>1. CASE w \in Consumers /\ attempt[w] < MaxRetries
    <2>1. StartSearch(w) /\ UNCHANGED ride /\ attempt' = [attempt EXCEPT ![w] = @ + 1]
      BY <1>1 DEF Fail
    <2>2. attempt' \in [Workers -> 0..MaxRetries]
      BY <1>1, <2>1, DispatchAssumption DEF BInv, WorkTypes
    <2> QED BY <2>1, <2>2, SameRide, StartMoves
  <1>2. CASE ~(w \in Consumers /\ attempt[w] < MaxRetries)
    BY <1>2, FinishMoves DEF Fail
  <1> QED BY <1>1, <1>2

LEMMA StartBooks ==
    ASSUME DInv, BInv, NEW w \in Workers,
           FindCandidates(w) \/ \E r \in Rides : ReadMessage(w, r) \/ DispatchByRideID(w, r)
    PROVE BInv'
  <1>1. UNCHANGED <<hotVars, renewer>> /\ StartSearch(w)
    BY DEF FindCandidates, ReadMessage, DispatchByRideID
  <1>2. attempt' \in [Workers -> 0..MaxRetries]
    <2>1. UNCHANGED attempt \/ attempt' = [attempt EXCEPT ![w] = 0]
      BY DEF FindCandidates, ReadMessage, DispatchByRideID
    <2>2. 0 \in 0..MaxRetries
      BY DispatchAssumption
    <2> QED BY <2>1, <2>2, Zenon DEF BInv, WorkTypes
  <1>3. \E y : ride' = [ride EXCEPT ![w] = y]
    BY SameRide DEF FindCandidates, ReadMessage, DispatchByRideID
  <1>4. RideTypes'
    <2>1. CASE UNCHANGED rideVars
      BY <2>1, SameRides
    <2>2. ASSUME NEW r \in Rides, ReadMessage(w, r) PROVE RideTypes'
      <3>1. /\ requests' = [requests EXCEPT ![r] = @ - 1] /\ requests[r] > 0
            /\ UNCHANGED <<rideHash, cancelling>>
        BY <2>2 DEF ReadMessage
      <3>2. requests \in [Rides -> -1..MaxCopies] /\ MaxCopies \in Nat
        BY DispatchAssumption DEF BInv, RideTypes
      <3>3. requests' \in [Rides -> -1..MaxCopies]
        BY <3>1, <3>2
      <3> QED BY <3>1, <3>3 DEF BInv, RideTypes
    <2> QED BY <2>1, <2>2 DEF FindCandidates, DispatchByRideID
  <1>5. WorkTypes' /\ \A v \in Workers : Equipped(v)' /\ Steady(v)
    BY <1>1, <1>2, <1>3, StartMoves, Zenon
  <1> QED BY <1>1, <1>4, <1>5, SameLeases, LeasesKeep

\* The best candidates of a search that found somebody are somebody.
LEMMA RankedIsDrivers ==
    ASSUME NEW ds \in SUBSET Drivers, ds # {}, NEW s \in Ranked(ds), NEW max \in Nat \ {0}
    PROVE TopRanked(s, max) \in Seq(Drivers) /\ TopRanked(s, max) # <<>>
  <1>1. Cardinality(ds) \in Nat \ {0}
    BY TokenAssumption, FS_Subset, FS_CardinalityType, FS_EmptySet
  <1>2. s \in [1..Cardinality(ds) -> ds]
    BY DEF Ranked, Bijection, Injection
  <1>3. s \in Seq(Drivers) /\ Len(s) \in Nat \ {0}
    <2>1. s \in [1..Cardinality(ds) -> Drivers]
      BY <1>2
    <2> QED BY <1>1, <2>1
  <1>4. PICK k \in 1..Len(s) : TopRanked(s, max) = SubSeq(s, 1, k)
    BY <1>3 DEF TopRanked
  <1>5. SubSeq(s, 1, k) \in Seq(Drivers) /\ Len(SubSeq(s, 1, k)) = k
    BY <1>3, SubSeqProperties
  <1>6. Len(<<>>) = 0
    BY EmptySeq
  <1> QED BY <1>4, <1>5, <1>6

LEMMA RankBooks == ASSUME DInv, BInv, NEW w \in Workers, Rank(w) PROVE BInv'
  <1>1. PICK s \in Ranked(found[w]), max \in IF ride[w] = None THEN 1..Cardinality(Drivers)
                                                                ELSE {MaxCandidates} :
           ranked' = [ranked EXCEPT ![w] = TopRanked(s, max)]
    BY Zenon DEF Rank
  <1>2. max \in Nat \ {0}
    <2>1. Cardinality(Drivers) \in Nat
      BY TokenAssumption, FS_CardinalityType
    <2>2. MaxCandidates \in Nat \ {0}
      BY DispatchAssumption
    <2> QED BY <2>1, <2>2
  <1>3. found[w] \in SUBSET Drivers /\ found[w] # {}
    BY DEF Rank, BInv, WorkTypes
  <1>4. TopRanked(s, max) \in Seq(Drivers) /\ TopRanked(s, max) # <<>>
    BY <1>2, <1>3, RankedIsDrivers
  <1>5. WorkTypes'
    BY <1>1, <1>4 DEF Rank, BInv, WorkTypes
  <1>6. PICK x \in {"answer", "reserve"} :
           pc' = [pc EXCEPT ![w] = x] /\ (x = "reserve" => ride[w] # None)
    BY Zenon DEF Rank
  <1>7. \A v \in Workers : Equipped(v)' /\ Steady(v)
    <2>1. ride' = [ride EXCEPT ![w] = ride[w]]
      BY SameRide DEF Rank
    <2> QED BY <1>1, <1>4, <1>6, <2>1, OneMoves, Zenon
  <1> QED BY <1>5, <1>7, SameRides, SameLeases, LeasesKeep DEF Rank

LEMMA SearchBooks ==
    ASSUME DInv, BInv, NEW w \in Workers,
           SearchEndsEmpty(w) \/ \E d \in Drivers : SearchNearby(w, d)
    PROVE BInv'
  <1>1. UNCHANGED <<hotVars, renewer>> /\ UNCHANGED rideVars
    BY DEF SearchEndsEmpty, SearchNearby
  <1>2. CASE SearchEndsEmpty(w)
    BY <1>1, <1>2, SameRides, SameLeases, FinishMoves, LeasesKeep, Zenon DEF SearchEndsEmpty
  <1>3. ASSUME NEW d \in Drivers, SearchNearby(w, d) PROVE BInv'
    <2>1. WorkTypes'
      <3>1. unread' \in [Workers -> SUBSET Drivers]
        BY <1>3 DEF SearchNearby, BInv, WorkTypes
      <3>2. found' \in [Workers -> SUBSET Drivers]
        <4>1. UNCHANGED found \/ found' = [found EXCEPT ![w] = @ \cup {d}]
          BY <1>3 DEF SearchNearby
        <4> QED BY <4>1 DEF BInv, WorkTypes
      <3> QED BY <1>3, <3>1, <3>2 DEF SearchNearby, BInv, WorkTypes
    <2>2. \A v \in Workers : Equipped(v)' /\ Steady(v)
      BY <1>3 DEF SearchNearby, BInv, Equipped, Steady
    <2> QED BY <1>1, <2>1, <2>2, SameRides, SameLeases, LeasesKeep
  <1> QED BY <1>2, <1>3

LEMMA PublishBooks == ASSUME DInv, BInv, NEW w \in Workers, Publish(w) PROVE BInv'
  <1>1. \A t \in Tokens : renewer'[t] \in {renewer[t], None}
    BY Zenon DEF Publish
  <1>2. LeaseTypes'
    BY Zenon DEF Publish, BInv, LeaseTypes, HotTypeOK, hotVars
  <1>3. Shrinks
    BY <1>1, Zenon DEF Shrinks, Publish, hotVars
  <1> QED BY <1>2, <1>3, SameRides, FinishMoves, LeasesKeep, Zenon DEF Publish

LEMMA RenewalBooks ==
    ASSUME BInv,
           \/ \E t \in Tokens : RenewFails(t)
           \/ \E d \in Drivers : LeaseExpires(d) \/ DriverServiceWrites(d)
    PROVE BInv'
  <1>1. UNCHANGED rideVars /\ UNCHANGED workVars
    BY DEF RenewFails, LeaseExpires, DriverServiceWrites
  <1>2. ASSUME NEW t \in Tokens, RenewFails(t) PROVE LeaseTypes' /\ Shrinks
    BY <1>2 DEF RenewFails, BInv, LeaseTypes, HotTypeOK, hotVars, Shrinks
  <1>3. ASSUME NEW d \in Drivers, LeaseExpires(d) PROVE LeaseTypes' /\ Shrinks
    BY <1>3 DEF LeaseExpires, Expire, BInv, LeaseTypes, HotTypeOK, Shrinks
  <1>4. ASSUME NEW d \in Drivers, DriverServiceWrites(d) PROVE LeaseTypes' /\ Shrinks
    <2>1. PICK s \in States : state' = [state EXCEPT ![d] = s]
      BY <1>4, DispatchAssumption, Zenon DEF DriverServiceWrites, SetState
    <2>2. UNCHANGED <<reservedRide, lease, renewer>>
      BY <1>4 DEF DriverServiceWrites, SetState
    <2>3. LeaseTypes'
      BY <2>1, <2>2 DEF BInv, LeaseTypes, HotTypeOK
    <2> QED BY <2>2, <2>3 DEF Shrinks
  <1> QED BY <1>1, <1>2, <1>3, <1>4, SameRides, SameWorkers, LeasesKeep

LEMMA AbandonBooks ==
    ASSUME DInv, BInv, NEW p, Abandon(p), UNCHANGED <<hotVars, rideVars>> PROVE BInv'
  <1>1. WorkTypes'
    <2>1. 0 \in 0..MaxRetries /\ <<>> \in Seq(Drivers)
      BY DispatchAssumption, EmptySeq
    <2> QED BY <2>1, Zenon DEF Abandon, BInv, WorkTypes
  <1>2. LeaseTypes'
    BY Zenon DEF Abandon, BInv, LeaseTypes, HotTypeOK, hotVars
  <1>3. Shrinks
    BY Zenon DEF Abandon, Shrinks, hotVars
  <1>4. ASSUME NEW w \in Workers PROVE Equipped(w)' /\ Steady(w)
    <2>1. \/ pc'[w] \in {"idle", "done"}
          \/ pc'[w] = pc[w] /\ ride'[w] = ride[w] /\ ranked'[w] = ranked[w]
      BY DEF Abandon
    <2> QED BY <2>1 DEF BInv, Equipped, Steady
  <1> QED BY <1>1, <1>2, <1>3, <1>4, SameRides, LeasesKeep

LEMMA ProcessBooks ==
    ASSUME DInv, BInv, NEW p \in Processes, EngineStops(p) \/ EngineReturns(p) \/ EngineOther(p)
    PROVE BInv'
  <1>1. CASE Abandon(p) /\ UNCHANGED <<hotVars, rideVars>>
    BY <1>1, AbandonBooks
  <1>2. CASE UNCHANGED <<hotVars, renewer>> /\ UNCHANGED rideVars /\ UNCHANGED workVars
    BY <1>2, SameRides, SameWorkers, SameLeases, LeasesKeep
  <1> QED BY <1>1, <1>2 DEF EngineStops, EngineReturns, EngineOther

\* What one turn of the loop over the candidates does: the worker wins the
\* free lease of its next candidate, or it does not win.
LEMMA ReserveCases ==
    ASSUME DInv, BInv, NEW w \in Workers, Reserve(w)
    PROVE /\ Head(ranked[w]) \in Drivers
          /\ \/ Takes(w, Head(ranked[w]), Token) /\ Win(w, Token)
             \/ /\ Takes(w, Head(ranked[w]), Token) \/ UNCHANGED hotVars
                /\ Conflict(w) \/ (Fail(w) /\ UNCHANGED renewer)
          /\ UNCHANGED hotVars
             \/ /\ state' = [state EXCEPT ![Head(ranked[w])] = "RESERVED"]
                /\ reservedRide' = [reservedRide EXCEPT ![Head(ranked[w])] = ride[w]]
  <1> DEFINE d == Head(ranked[w])
             lv == [ride |-> ride[w], token |-> Token]
  <1>1. ride[w] \in Rides /\ ranked[w] \in Seq(Drivers) /\ ranked[w] # <<>>
    BY DEF Reserve, BInv, WorkTypes, Equipped, DInv, Shapes
  <1>2. d \in Drivers
    BY <1>1
  <1>3. Token \in Tokens /\ renewer[Token] = None /\ \A e \in Drivers : ~HasToken(e, Token)
    BY TokenIsFresh DEF BInv
  <1>4. lease[d] # lv
    <2>1. lv \in LeaseValues /\ lv.token = Token
      BY <1>1, <1>3 DEF LeaseValues
    <2>2. lv # None
      BY <2>1, NoneAssumption
    <2> QED BY <1>2, <1>3, <2>1, <2>2 DEF HasToken
  <1>5. ASSUME ReserveScript(d, lv), renewer' \in {renewer, [renewer EXCEPT ![Token] = w]}, lease[d] = None, Reservable(d)
        PROVE Takes(w, d, Token)
    BY <1>1, <1>3, <1>5 DEF ReserveScript, Takes
  <1>6. ASSUME ReserveScript(d, lv)
        PROVE \/ UNCHANGED hotVars
              \/ /\ lease[d] = None /\ Reservable(d)
                 /\ state' = [state EXCEPT ![d] = "RESERVED"]
                 /\ reservedRide' = [reservedRide EXCEPT ![d] = ride[w]]
    BY <1>6 DEF ReserveScript
  <1> HIDE DEF d, lv
  <1>7. \/ /\ ReserveScript(d, lv)
           /\ \/ ReserveCode(d, lv) = "Reserved" /\ Win(w, Token)
              \/ Conflict(w) \/ (Fail(w) /\ UNCHANGED renewer)
        \/ UNCHANGED hotVars /\ Fail(w) /\ UNCHANGED renewer
    BY Zenon DEF Reserve, d, lv
  <1>8. ReserveCode(d, lv) = "Reserved" => lease[d] = None /\ Reservable(d)
    BY <1>4 DEF ReserveCode
  <1>9. Conflict(w) \/ UNCHANGED renewer => renewer' = renewer
    BY DEF Conflict
  <1>10. Win(w, Token) => renewer' = [renewer EXCEPT ![Token] = w]
    BY DEF Win
  <1>11. \/ Takes(w, d, Token) /\ Win(w, Token)
         \/ /\ Takes(w, d, Token) \/ UNCHANGED hotVars
            /\ Conflict(w) \/ (Fail(w) /\ UNCHANGED renewer)
    BY <1>5, <1>6, <1>7, <1>8, <1>9, <1>10
  <1>12. \/ UNCHANGED hotVars
         \/ state' = [state EXCEPT ![d] = "RESERVED"] /\ reservedRide' = [reservedRide EXCEPT ![d] = ride[w]]
    BY <1>6, <1>7
  <1> QED BY <1>2, <1>11, <1>12 DEF d

\* A conflict, or any other failure, leads to the next candidate or the end.
LEMMA LoseMoves ==
    ASSUME DInv, BInv, NEW w \in Workers, pc[w] = "reserve", Conflict(w) \/ Fail(w)
    PROVE WorkTypes' /\ \A v \in Workers : Equipped(v)' /\ Steady(v)
  <1>1. CASE Fail(w)
    BY <1>1, FailMoves
  <1>2. CASE /\ Len(ranked[w]) > 1 /\ ranked' = [ranked EXCEPT ![w] = Tail(@)]
             /\ UNCHANGED <<pc, ride, unread, found, attempt>>
    <2>1. ranked[w] \in Seq(Drivers) /\ ranked[w] # <<>> /\ ride[w] # None
      BY DEF BInv, WorkTypes, Equipped
    <2>2. Tail(ranked[w]) \in Seq(Drivers) /\ Len(Tail(ranked[w])) # 0
      <3>1. Tail(ranked[w]) \in Seq(Drivers) /\ Len(Tail(ranked[w])) = Len(ranked[w]) - 1
        BY <2>1, HeadTailProperties
      <3>2. Len(ranked[w]) \in Nat /\ Len(ranked[w]) > 1
        BY <1>2, <2>1, LenProperties
      <3>3. PICK n, m : n = Len(ranked[w]) /\ m = Len(Tail(ranked[w]))
        BY Zenon
      <3>4. n \in Nat /\ n > 1 /\ m = n - 1
        BY <3>1, <3>2, <3>3
      <3>5. m # 0
        BY <3>4
      <3> QED BY <3>1, <3>3, <3>5, Zenon
    <2>3. Tail(ranked[w]) # <<>>
      BY <2>2, EmptySeq, Zenon
    <2>4. WorkTypes'
      BY <1>2, <2>2 DEF BInv, WorkTypes
    <2>5. pc' = [pc EXCEPT ![w] = "reserve"] /\ ride' = [ride EXCEPT ![w] = ride[w]]
      BY <1>2 DEF DInv, Shapes
    <2>6. \A v \in Workers : Equipped(v)' /\ Steady(v)
      BY <1>2, <2>1, <2>3, <2>5, OneMoves, Zenon
    <2> QED BY <2>4, <2>6
  <1> QED BY <1>1, <1>2 DEF Conflict

LEMMA ReserveTypes ==
    ASSUME DInv, BInv, NEW w \in Workers, Reserve(w) PROVE LeaseTypes'
  <1>1. PICK d \in Drivers : d = Head(ranked[w])
    BY ReserveCases
  <1>2. ride[w] \in Rides /\ Token \in Tokens
    BY TokenIsFresh, Zenon DEF Reserve, BInv, Equipped, DInv, Shapes
  <1>3. state' \in [Drivers -> States \cup {Unknown}] /\ reservedRide' \in [Drivers -> Rides \cup {None}]
    <2>1. \/ UNCHANGED <<state, reservedRide>>
          \/ state' = [state EXCEPT ![d] = "RESERVED"] /\ reservedRide' = [reservedRide EXCEPT ![d] = ride[w]]
      BY <1>1, ReserveCases DEF hotVars
    <2>2. state \in [Drivers -> States \cup {Unknown}] /\ reservedRide \in [Drivers -> Rides \cup {None}]
      BY DEF BInv, LeaseTypes, HotTypeOK
    <2> QED BY <1>2, <2>1, <2>2 DEF States
  <1>4. lease' \in [Drivers -> LeaseValues \cup {None}]
    <2>1. Takes(w, d, Token) \/ UNCHANGED lease
      BY <1>1, ReserveCases DEF hotVars
    <2>2. UNCHANGED lease \/ lease' = [lease EXCEPT ![d] = [ride |-> ride[w], token |-> Token]]
      BY <2>1 DEF Takes
    <2>3. [ride |-> ride[w], token |-> Token] \in LeaseValues
      BY <1>2 DEF LeaseValues
    <2> QED BY <2>2, <2>3 DEF BInv, LeaseTypes, HotTypeOK
  <1>5. renewer' \in [Tokens -> Workers \cup {None}]
    <2>1. UNCHANGED renewer \/ renewer' = [renewer EXCEPT ![Token] = w]
      BY ReserveCases DEF Win, Conflict
    <2> QED BY <1>2, <2>1 DEF BInv, LeaseTypes
  <1> QED BY <1>3, <1>4, <1>5 DEF LeaseTypes, HotTypeOK

LEMMA ReserveBooks == ASSUME DInv, BInv, NEW w \in Workers, Reserve(w) PROVE BInv'
  <1>1. PICK d \in Drivers : d = Head(ranked[w])
    BY ReserveCases
  <1>2. LeaseTypes' /\ RideTypes' /\ pc[w] = "reserve"
    BY ReserveTypes, SameRides, Zenon DEF Reserve
  <1>3. CASE Takes(w, d, Token) /\ Win(w, Token)
    <2>1. WorkTypes' /\ ranked'[w] = ranked[w] /\ ride'[w] = ride[w]
      BY <1>3 DEF Win, BInv, WorkTypes
    <2>2. \A v \in Workers : Equipped(v)'
      BY <1>2, <1>3 DEF Win, BInv, Equipped, DInv, Shapes
    <2>3. Distinct' /\ Held'
      BY <1>2, <1>3, TakeKeeps
    <2>4. \A v \in Workers \ {w} : Steady(v)
      BY <1>3 DEF Win, Steady, DInv, Shapes
    <2>5. \A v \in Workers \ {w} : Announces(v)'
      BY <1>3, <2>4, TakeAnnounces
    <2>6. Announces(w)'
      BY <1>1, <1>3, <2>1, TakerAnnounces
    <2> QED BY <1>2, <2>1, <2>2, <2>3, <2>5, <2>6, Zenon DEF BInv
  <1>4. CASE Conflict(w) \/ (Fail(w) /\ UNCHANGED renewer)
    <2>1. WorkTypes' /\ \A v \in Workers : Equipped(v)' /\ Steady(v)
      BY <1>2, <1>4, LoseMoves
    <2>2. CASE UNCHANGED hotVars
      <3>1. UNCHANGED renewer
        BY <1>4 DEF Conflict
      <3> QED BY <1>2, <2>1, <2>2, <3>1, SameLeases, LeasesKeep
    <2>3. CASE Takes(w, d, Token)
      <3>1. Distinct' /\ Held'
        BY <1>2, <2>3, TakeKeeps
      <3>2. \A v \in Workers \ {w} : Announces(v)'
        BY <2>1, <2>3, TakeAnnounces
      <3>3. pc'[w] # "publish"
        BY <1>2, <2>1 DEF Steady
      <3>4. Announces(w)'
        BY <3>3 DEF Announces
      <3> QED BY <1>2, <2>1, <3>1, <3>2, <3>4 DEF BInv
    <2> QED BY <1>1, <1>4, <2>2, <2>3, ReserveCases DEF Conflict, Win
  <1> QED BY <1>1, <1>3, <1>4, ReserveCases

LEMMA StepBooks == ASSUME DInv, BInv, [Next]_vars PROVE BInv'
  <1>1. ASSUME NEW r \in Rides, CreateRide(r) \/ CancelRide(r) \/ CancelWrites(r) \/ RideExpires(r)
        PROVE BInv'
    BY <1>1, RideActionsBook
  <1>2. ASSUME NEW w \in Workers, NEW r \in Rides, ReadMessage(w, r) \/ DispatchByRideID(w, r)
        PROVE BInv'
    BY <1>2, StartBooks
  <1>3. ASSUME NEW w \in Workers, FindCandidates(w) PROVE BInv'
    BY <1>3, StartBooks
  <1>4. ASSUME NEW w \in Workers, WorkerStep(w) PROVE BInv'
    BY <1>4, SearchBooks, RankBooks, ReserveBooks, PublishBooks DEF WorkerStep
  <1>5. ASSUME NEW p \in Processes, EngineStops(p) \/ EngineReturns(p) \/ EngineOther(p) PROVE BInv'
    BY <1>5, ProcessBooks
  <1>6. ASSUME NEW t \in Tokens, RenewFails(t) PROVE BInv'
    BY <1>6, RenewalBooks
  <1>7. ASSUME NEW d \in Drivers, LeaseExpires(d) \/ DriverServiceWrites(d) PROVE BInv'
    BY <1>7, RenewalBooks
  <1>8. CASE UNCHANGED vars
    BY <1>8, SameRides, SameWorkers, SameLeases, LeasesKeep DEF vars
  <1> QED BY <1>1, <1>2, <1>3, <1>4, <1>5, <1>6, <1>7, <1>8 DEF Next

LEMMA LeasesHold == Spec => []BInv
  <1>1. ASSUME Init PROVE BInv
    <2>1. RideTypes /\ LeaseTypes
      BY <1>1, DispatchAssumption DEF Init, RideTypes, LeaseTypes, HotTypeOK, States
    <2>2. WorkTypes
      <3>1. 0 \in 0..MaxRetries /\ <<>> \in Seq(Drivers)
        BY DispatchAssumption, EmptySeq
      <3> QED BY <1>1, <3>1 DEF Init, WorkTypes
    <2>3. Distinct /\ Held /\ \A w \in Workers : Equipped(w) /\ Announces(w)
      BY <1>1 DEF Init, Distinct, Held, HasToken, Equipped, Announces
    <2> QED BY <2>1, <2>2, <2>3 DEF BInv
  <1> QED BY <1>1, StepBooks, InvHolds, PTL DEF Spec

\* Every variable keeps its type; for the rides, the drivers and the candidates
\* that takes the counts of the requests and the freshness of the tokens.
THEOREM DispatchTypes == Spec => []TypeOK
  <1>1. DInv /\ BInv => TypeOK
    BY DEF DInv, Shapes, BInv, RideTypes, WorkTypes, LeaseTypes, TypeOK
  <1> QED BY <1>1, InvHolds, LeasesHold, PTL

\* A lease that is renewed is the lease of one driver, and for the ride that its
\* owner announces, for any number of engines, calls, rides and drivers
\* (engine.go, DispatchForRide).
THEOREM RenewedMeansHeld == Spec => []RenewedLeaseIsHeld
  <1>1. ASSUME BInv PROVE RenewedLeaseIsHeld
    <2>1. ASSUME NEW t \in Tokens, renewer[t] # None
          PROVE Cardinality({d \in Drivers : lease[d] # None /\ lease[d].token = t}) = 1
      <3>1. PICK d \in Drivers : HasToken(d, t)
        BY <1>1, <2>1 DEF BInv, Held
      <3>2. {e \in Drivers : lease[e] # None /\ lease[e].token = t} = {d}
        BY <1>1, <3>1 DEF BInv, Distinct, HasToken
      <3> QED BY <3>2, FS_Singleton, Zenon
    <2>2. \A w \in Workers, d \in Drivers :
             pc[w] = "publish" /\ d = Head(ranked[w]) /\ Renews(w, d) => lease[d].ride = ride[w]
      BY <1>1 DEF BInv, Announces
    <2> QED BY <2>1, <2>2, Zenon DEF RenewedLeaseIsHeld
  <1> QED BY <1>1, LeasesHold, PTL
=============================================================================

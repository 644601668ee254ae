------------------------- MODULE ReservationProofs -------------------------
(* Proofs about Reservation, for any number of drivers, rides and handles. *)
EXTENDS Reservation, TLAPS

-----------------------------------------------------------------------------
(* The scripts.                                                            *)

\* reserveScript answers with one of the three codes of store.Reserve.
LEMMA ReserveCodeType ==
    ASSUME NEW d, NEW lv
    PROVE  ReserveCode(d, lv) \in {"Reserved", "Conflict", "NotAvailable"}
BY DEF ReserveCode

\* The scripts keep the hot state well typed.
LEMMA ScriptsType ==
    ASSUME HotTypeOK, NEW d \in Drivers, NEW lv \in LeaseValues,
           \/ ReserveScript(d, lv)
           \/ ReleaseScript(d, lv, "AVAILABLE")
           \/ Expire(d)
           \/ \E s \in States : SetState(d, s) \/ InitDriver(d, s)
    PROVE  HotTypeOK'
<1> USE DEF HotTypeOK, hotVars, States, LeaseValues
<1>1. CASE ReserveScript(d, lv)
  BY <1>1 DEF ReserveScript
<1>2. CASE ReleaseScript(d, lv, "AVAILABLE")
  BY <1>2 DEF ReleaseScript
<1>3. CASE Expire(d)
  BY <1>3 DEF Expire
<1>4. CASE \E s \in States : SetState(d, s) \/ InitDriver(d, s)
  BY <1>4 DEF SetState, InitDriver
<1> QED BY <1>1, <1>2, <1>3, <1>4

-----------------------------------------------------------------------------
(* Type correctness.                                                       *)

\* The initial state is well typed.
LEMMA TypeInit == Init => TypeOK
BY DEF Init, TypeOK, HotInit, HotTypeOK, MainPcs, LoopPcs, StopReasons

\* A handle with a command in flight has a driver and a ride.
LEMMA BusyHandle ==
    ASSUME TypeOK, HandleInv, NEW h \in Tokens,
           reserveCmds[h] > 0 \/ releaseCmds[h] > 0
    PROVE  drv[h] \in Drivers /\ ride[h] \in Rides /\ LeaseOf(h) \in LeaseValues
BY DEF TypeOK, HandleInv, LeaseOf, LeaseValues

\* Every step keeps the types; a script runs only for a handle that has a driver.
LEMMA TypeStep == TypeOK /\ HandleInv /\ [Next]_vars => TypeOK'
<1> SUFFICES ASSUME TypeOK, HandleInv, [Next]_vars PROVE TypeOK'
  OBVIOUS
<1> USE DEF TypeOK, handleVars, netVars
<1>1. ASSUME NEW h \in Tokens, HandleStep(h) PROVE TypeOK'
  <2>1. ASSUME NEW d \in Drivers, NEW r \in Rides, Reserve(h, d, r) PROVE TypeOK'
    BY <2>1 DEF Reserve, hotVars, HotTypeOK, MainPcs
  <2>2. CASE Release(h) \/ SendRelease(h) \/ CancelCtx(h)
    BY <2>2 DEF Release, SendRelease, CancelCtx, hotVars, HotTypeOK, MainPcs, StopReasons
  <2>3. CASE Tick(h) \/ LoopExit(h)
    BY <2>3 DEF Tick, LoopExit, hotVars, HotTypeOK, LoopPcs
  <2>4. CASE ExecReserve(h)
    <3>1. HotTypeOK'
      BY <2>4, BusyHandle, ScriptsType DEF ExecReserve
    <3>2. main' \in [Tokens -> MainPcs] /\ loop' \in [Tokens -> LoopPcs]
      BY <2>4, ReserveCodeType
         DEF ExecReserve, ReserveReturns, RenewReturns, MainPcs, LoopPcs
    <3>3. reserveCmds' \in [Tokens -> Nat]
      BY <2>4 DEF ExecReserve
    <3>4. UNCHANGED <<stop, drv, ride, releaseCmds, abandoned>>
      BY <2>4 DEF ExecReserve
    <3>5. QED BY <3>1, <3>2, <3>3, <3>4
  <2>5. CASE ExecRelease(h)
    <3>1. HotTypeOK'
      BY <2>5, BusyHandle, ScriptsType DEF ExecRelease
    <3>2. QED BY <2>5, <3>1 DEF ExecRelease, MainPcs
  <2>6. CASE Drop(h) \/ Resend(h)
    BY <2>6 DEF Drop, Resend, LeftBehind, hotVars, HotTypeOK
  <2>7. CASE GiveUp(h) \/ Crash(h)
    BY <2>7 DEF GiveUp, Crash, LeftBehind, hotVars, HotTypeOK, MainPcs, LoopPcs
  <2> QED BY <1>1, <2>1, <2>2, <2>3, <2>4, <2>5, <2>6, <2>7 DEF HandleStep
<1>2. ASSUME NEW d \in Drivers, DriverServiceWrites(d) \/ LeaseExpires(d) PROVE TypeOK'
  BY <1>2 DEF DriverServiceWrites, LeaseExpires, InitDriver, SetState, Expire, HotTypeOK, States
<1>3. CASE UNCHANGED vars
  BY <1>3 DEF vars, hotVars, HotTypeOK
<1> QED BY <1>1, <1>2, <1>3 DEF Next

-----------------------------------------------------------------------------
(* The threads of a handle and its commands.                               *)

\* Every step keeps the two threads of a handle and its commands in step.
LEMMA HandleStepInv == TypeOK /\ HandleInv /\ [Next]_vars => HandleInv'
<1> SUFFICES ASSUME TypeOK, HandleInv, [Next]_vars PROVE HandleInv'
  OBVIOUS
<1> USE DEF TypeOK, HandleInv, handleVars, netVars
<1>1. ASSUME NEW h \in Tokens, HandleStep(h) PROVE HandleInv'
  <2>1. ASSUME NEW d \in Drivers, NEW r \in Rides, Reserve(h, d, r) PROVE HandleInv'
    BY <2>1 DEF Reserve
  <2>2. CASE Release(h)
    BY <2>2 DEF Release
  <2>3. CASE SendRelease(h)
    BY <2>3 DEF SendRelease
  <2>4. CASE CancelCtx(h)
    BY <2>4 DEF CancelCtx
  <2>5. CASE Tick(h)
    BY <2>5, NoneAssumption DEF Tick, MainPcs
  <2>6. CASE LoopExit(h)
    BY <2>6 DEF LoopExit
  <2>7. CASE ExecReserve(h)
    BY <2>7 DEF ExecReserve, ReserveReturns, RenewReturns
  <2>8. CASE ExecRelease(h)
    BY <2>8 DEF ExecRelease
  <2>9. CASE Drop(h)
    BY <2>9 DEF Drop
  <2>10. CASE Resend(h)
    BY <2>10 DEF Resend, LeftBehind
  <2>11. CASE GiveUp(h)
    BY <2>11 DEF GiveUp, LeftBehind
  <2>12. CASE Crash(h)
    BY <2>12 DEF Crash, LeftBehind
  <2> QED BY <1>1, <2>1, <2>2, <2>3, <2>4, <2>5, <2>6, <2>7, <2>8, <2>9, <2>10, <2>11,
             <2>12 DEF HandleStep
<1>2. ASSUME NEW d \in Drivers, DriverServiceWrites(d) \/ LeaseExpires(d) PROVE HandleInv'
  BY <1>2 DEF DriverServiceWrites, LeaseExpires
<1>3. CASE UNCHANGED vars
  BY <1>3 DEF vars
<1> QED BY <1>1, <1>2, <1>3 DEF Next

-----------------------------------------------------------------------------
(* Leases.                                                                 *)

\* The hot state changes in four ways only.
LEMMA HotSteps ==
    ASSUME IInv, [Next]_vars
    PROVE  \/ UNCHANGED hotVars
           \/ \E d \in Drivers : Expire(d)
           \/ \E d \in Drivers : reservedRide' = reservedRide /\ lease' = lease
           \/ \E h \in Tokens : ExecReserve(h)
           \/ \E h \in Tokens : ExecRelease(h)
BY DEF Next, HandleStep, vars, Reserve, Release, SendRelease, CancelCtx, Tick, LoopExit,
       Drop, Resend, GiveUp, Crash, DriverServiceWrites, LeaseExpires, InitDriver, SetState

\* A step of one handle leaves the threads of all other handles alone.
LEMMA OthersStay ==
    ASSUME IInv, NEW h \in Tokens, HandleStep(h), NEW k \in Tokens, k # h
    PROVE  main'[k] = main[k] /\ loop'[k] = loop[k]
<1>1. main \in [Tokens -> MainPcs] /\ loop \in [Tokens -> LoopPcs]
  BY DEF IInv, TypeOK
<1>2. CASE ExecReserve(h)
  <2>1. ReserveReturns(h, ReserveCode(drv[h], LeaseOf(h))) \/ RenewReturns(h)
        \/ UNCHANGED <<main, loop>>
    BY <1>2 DEF ExecReserve
  <2> QED BY <1>1, <2>1 DEF ReserveReturns, RenewReturns
<1>3. CASE ExecRelease(h)
  BY <1>1, <1>3 DEF ExecRelease
<1>4. CASE (\E d \in Drivers, r \in Rides : Reserve(h, d, r)) \/ Release(h) \/ SendRelease(h)
           \/ CancelCtx(h)
  BY <1>1, <1>4 DEF Reserve, Release, SendRelease, CancelCtx
<1>5. CASE Tick(h) \/ LoopExit(h) \/ Drop(h) \/ Resend(h)
  BY <1>1, <1>5 DEF Tick, LoopExit, Drop, Resend, handleVars
<1>6. CASE GiveUp(h) \/ Crash(h)
  BY <1>1, <1>6 DEF GiveUp, Crash
<1> QED BY <1>2, <1>3, <1>4, <1>5, <1>6 DEF HandleStep

\* A thread of a handle moves only in a step of that handle.
LEMMA OwnStep ==
    ASSUME IInv, [Next]_vars, NEW h \in Tokens, main'[h] # main[h] \/ loop'[h] # loop[h]
    PROVE  HandleStep(h)
<1>1. PICK k \in Tokens : HandleStep(k)
  BY DEF Next, vars, handleVars, DriverServiceWrites, LeaseExpires
<1> QED BY <1>1, OthersStay

\* The first step of a handle is Reserve, which starts no loop.
LEMMA FirstStep ==
    ASSUME IInv, [Next]_vars, NEW h \in Tokens, main[h] = "new"
    PROVE  main'[h] \in {"new", "reserving"} /\ loop'[h] = "none"
<1>1. main \in [Tokens -> MainPcs] /\ loop[h] = "none" /\ reserveCmds[h] = 0 /\ releaseCmds[h] = 0
  BY DEF IInv, TypeOK, HandleInv
<1>2. CASE HandleStep(h)
  <2>1. ~ExecReserve(h) /\ ~ExecRelease(h) /\ ~Drop(h)
    BY <1>1 DEF ExecReserve, ExecRelease, Drop
  <2>2. ~Release(h) /\ ~SendRelease(h) /\ ~CancelCtx(h) /\ ~Tick(h) /\ ~LoopExit(h)
    BY <1>1 DEF Release, SendRelease, CancelCtx, Tick, LoopExit
  <2>3. ~Resend(h) /\ ~GiveUp(h) /\ ~Crash(h)
    BY <1>1 DEF Resend, GiveUp, Crash
  <2>4. PICK d \in Drivers, r \in Rides : Reserve(h, d, r)
    BY <1>2, <2>1, <2>2, <2>3 DEF HandleStep
  <2> QED BY <1>1, <2>4 DEF Reserve
<1>3. CASE ~HandleStep(h)
  BY <1>1, <1>3, OwnStep
<1> QED BY <1>2, <1>3

\* drv and ride of a handle are fixed once it is in use.
LEMMA HandlesKeepTheirRide ==
    ASSUME IInv, [Next]_vars, NEW h \in Tokens, main[h] # "new"
    PROVE  drv'[h] = drv[h] /\ ride'[h] = ride[h]
<1>1. ASSUME NEW k \in Tokens, NEW d \in Drivers, NEW r \in Rides, Reserve(k, d, r)
      PROVE  drv'[h] = drv[h] /\ ride'[h] = ride[h]
  BY <1>1 DEF Reserve, IInv, TypeOK
<1>2. ASSUME ~(\E k \in Tokens, d \in Drivers, r \in Rides : Reserve(k, d, r))
      PROVE  UNCHANGED <<drv, ride>>
  BY <1>2 DEF Next, HandleStep, vars, Release, SendRelease, CancelCtx, Tick, LoopExit, ExecReserve,
         ExecRelease, Drop, Resend, GiveUp, Crash, DriverServiceWrites, LeaseExpires, handleVars
<1> QED BY <1>1, <1>2

\* Every step keeps lease key, reserved_ride and handle in agreement.
LEMMA LeaseStep == IInv /\ [Next]_vars => LeaseNamesItsRide'
<1> SUFFICES ASSUME IInv, [Next]_vars, NEW d \in Drivers, lease'[d] # None
             PROVE  /\ drv'[lease'[d].token] = d
                    /\ ride'[lease'[d].token] = lease'[d].ride
                    /\ reservedRide'[d] = lease'[d].ride
  BY DEF LeaseNamesItsRide
<1>1. ASSUME lease'[d] = lease[d], reservedRide'[d] = reservedRide[d]
      PROVE  /\ drv'[lease'[d].token] = d
             /\ ride'[lease'[d].token] = lease'[d].ride
             /\ reservedRide'[d] = lease'[d].ride
  <2>1. lease[d] \in LeaseValues /\ lease[d].token \in Tokens
    BY <1>1 DEF IInv, TypeOK, HotTypeOK, LeaseValues
  <2>2. drv[lease[d].token] = d /\ ride[lease[d].token] = lease[d].ride
        /\ reservedRide[d] = lease[d].ride
    BY <1>1 DEF IInv, LeaseNamesItsRide
  <2>3. main[lease[d].token] # "new"
    BY <2>1, <2>2, NoneAssumption DEF IInv, HandleInv
  <2> QED BY <1>1, <2>1, <2>2, <2>3, HandlesKeepTheirRide
<1>2. ASSUME NEW e \in Drivers, Expire(e) PROVE lease'[d] = lease[d] /\ reservedRide' = reservedRide
  BY <1>2 DEF IInv, TypeOK, HotTypeOK, Expire
<1>3. ASSUME NEW h \in Tokens, ExecReserve(h)
      PROVE  /\ drv'[lease'[d].token] = d
             /\ ride'[lease'[d].token] = lease'[d].ride
             /\ reservedRide'[d] = lease'[d].ride
  <2>1. drv[h] \in Drivers /\ drv' = drv /\ ride' = ride
    BY <1>3, BusyHandle DEF ExecReserve, IInv
  <2>2. CASE lease' = [lease EXCEPT ![drv[h]] = LeaseOf(h)]
             /\ reservedRide' = [reservedRide EXCEPT ![drv[h]] = LeaseOf(h).ride]
    <3>1. CASE d = drv[h]
      BY <2>1, <2>2, <3>1 DEF IInv, TypeOK, HotTypeOK, LeaseOf
    <3>2. CASE d # drv[h]
      BY <1>1, <2>1, <2>2, <3>2 DEF IInv, TypeOK, HotTypeOK
    <3> QED BY <3>1, <3>2
  <2>3. CASE UNCHANGED hotVars
    BY <1>1, <2>3 DEF hotVars
  <2> QED BY <1>3, <2>2, <2>3 DEF ExecReserve, ReserveScript
<1>4. ASSUME NEW h \in Tokens, ExecRelease(h)
      PROVE  lease'[d] = lease[d] /\ reservedRide' = reservedRide
  <2>1. drv[h] \in Drivers
    BY <1>4, BusyHandle DEF ExecRelease, IInv
  <2> QED BY <1>4, <2>1 DEF ExecRelease, ReleaseScript, IInv, TypeOK, HotTypeOK, hotVars
<1> QED BY <1>1, <1>2, <1>3, <1>4, HotSteps DEF hotVars

\* No step gives the driver back to a refused or released handle.
LEMMA ClosedStep == IInv /\ [Next]_vars => ClosedHandleHoldsNothing'
<1> SUFFICES ASSUME IInv, [Next]_vars, NEW g \in Tokens,
                    main'[g] \in {"conflict", "unavailable", "released"}, g \notin abandoned',
                    drv'[g] # None, lease'[drv'[g]] = LeaseOf(g)'
             PROVE  FALSE
  BY DEF ClosedHandleHoldsNothing, Owns
<1> DEFINE Closed == {"conflict", "unavailable", "released"}
<1>1. g \notin abandoned
  BY DEF Next, HandleStep, vars, netVars, Reserve, Release, SendRelease, CancelCtx, Tick,
         LoopExit, ExecReserve, ExecRelease, Drop, Resend, GiveUp, Crash, LeftBehind,
         DriverServiceWrites, LeaseExpires
<1>2. main[g] # "new" /\ drv[g] \in Drivers /\ drv'[g] = drv[g] /\ LeaseOf(g)' = LeaseOf(g)
  <2>1. main[g] # "new"
    BY FirstStep
  <2> QED BY <2>1, HandlesKeepTheirRide DEF IInv, HandleInv, LeaseOf
<1>3. ASSUME main[g] \in Closed PROVE lease[drv[g]] # LeaseOf(g) /\ reserveCmds[g] = 0
  <2>1. drv[g] # None
    BY <1>2, NoneAssumption
  <2>2. lease[drv[g]] # LeaseOf(g)
    BY <1>1, <1>3, <2>1 DEF IInv, ClosedHandleHoldsNothing, Owns
  <2>3. loop[g] # "renewing"
    BY <1>3 DEF IInv, HandleInv
  <2>4. reserveCmds[g] \in Nat /\ ~(reserveCmds[g] > 0)
    BY <1>1, <1>3, <2>3 DEF IInv, TypeOK, HandleInv
  <2>5. reserveCmds[g] = 0
    BY <2>4, SMT
  <2> QED BY <2>2, <2>5
<1>4. CASE \E h \in Tokens : ExecReserve(h)
  <2>1. PICK h \in Tokens : ExecReserve(h)
    BY <1>4
  <2>2. drv[h] \in Drivers
    BY <2>1, BusyHandle DEF ExecReserve, IInv
  <2>3. CASE h # g
    <3>1. main'[g] = main[g]
      BY <2>1, <2>3 DEF ExecReserve, ReserveReturns, RenewReturns, IInv, TypeOK
    <3>2. lease'[drv[g]] = lease[drv[g]] \/ lease'[drv[g]] = LeaseOf(h)
      BY <1>2, <2>1, <2>2 DEF ExecReserve, ReserveScript, hotVars, IInv, TypeOK, HotTypeOK
    <3>3. LeaseOf(h) # LeaseOf(g)
      BY <2>3 DEF LeaseOf
    <3> QED BY <1>2, <1>3, <3>1, <3>2, <3>3
  <2>4. CASE h = g
    <3>1. main[g] \notin Closed
      BY <1>3, <2>1, <2>4 DEF ExecReserve
    <3>2. ReserveReturns(g, ReserveCode(drv[g], LeaseOf(g)))
      BY <2>1, <2>4, <3>1 DEF ExecReserve, RenewReturns
    <3>3. ReserveCode(drv[g], LeaseOf(g)) # "Reserved"
      BY <3>2 DEF ReserveReturns, IInv, TypeOK
    <3>4. lease' = lease /\ lease[drv[g]] # LeaseOf(g)
      BY <2>1, <2>4, <3>3 DEF ExecReserve, ReserveCode, ReserveScript, hotVars
    <3> QED BY <1>2, <3>4
  <2> QED BY <2>3, <2>4
<1>5. CASE \E h \in Tokens : ExecRelease(h)
  <2>1. PICK h \in Tokens : ExecRelease(h)
    BY <1>5
  <2>2. drv[h] \in Drivers /\ LeaseOf(h) \in LeaseValues
    BY <2>1, BusyHandle DEF ExecRelease, IInv
  <2>3. LeaseOf(g) # None
    BY <1>2, NoneAssumption DEF IInv, HandleInv, LeaseOf, LeaseValues
  <2>4. lease'[drv[g]] = lease[drv[g]]
    BY <1>2, <2>1, <2>2, <2>3 DEF ExecRelease, ReleaseScript, hotVars, IInv, TypeOK, HotTypeOK
  <2>5. CASE h # g
    <3>1. main'[g] = main[g]
      BY <2>1, <2>5 DEF ExecRelease, IInv, TypeOK
    <3> QED BY <1>2, <1>3, <2>4, <3>1
  <2>6. CASE h = g
    <3>1. lease[drv[g]] # LeaseOf(g) \/ lease'[drv[g]] = None
      BY <1>2, <2>1, <2>6 DEF ExecRelease, ReleaseScript, IInv, TypeOK, HotTypeOK
    <3> QED BY <1>2, <2>3, <2>4, <3>1
  <2> QED BY <2>5, <2>6
<1>6. CASE ~(\E h \in Tokens : ExecReserve(h) \/ ExecRelease(h))
  <2>1. main[g] \in Closed
    <3>1. main \in [Tokens -> MainPcs]
      BY DEF IInv, TypeOK
    <3>2. CASE HandleStep(g)
      <4>1. CASE (\E d \in Drivers, r \in Rides : Reserve(g, d, r)) \/ Release(g) \/ SendRelease(g)
        BY <3>1, <4>1 DEF Reserve, Release, SendRelease
      <4>2. CASE CancelCtx(g) \/ Tick(g) \/ LoopExit(g) \/ Drop(g) \/ Resend(g)
        BY <4>2 DEF CancelCtx, Tick, LoopExit, Drop, Resend, handleVars
      <4>3. CASE GiveUp(g) \/ Crash(g)
        BY <3>1, <4>3 DEF GiveUp, Crash
      <4> QED BY <1>6, <3>2, <4>1, <4>2, <4>3 DEF HandleStep
    <3> QED BY <3>2, OwnStep
  <2>2. lease'[drv[g]] = lease[drv[g]] \/ lease'[drv[g]] = None
    <3>1. lease \in [Drivers -> LeaseValues \cup {None}]
      BY DEF IInv, TypeOK, HotTypeOK
    <3>2. lease' = lease \/ \E d \in Drivers : Expire(d)
      BY <1>6, HotSteps DEF hotVars
    <3> QED BY <1>2, <3>1, <3>2 DEF Expire
  <2>3. LeaseOf(g) # None
    <3>1. LeaseOf(g) \in LeaseValues
      BY <1>2 DEF IInv, HandleInv, LeaseOf, LeaseValues
    <3> QED BY <3>1, NoneAssumption
  <2> QED BY <1>2, <1>3, <2>1, <2>2, <2>3
<1> QED BY <1>4, <1>5, <1>6

\* The inductive invariant holds for ever.
LEMMA Invariance == Spec => []IInv
<1>1. Init => IInv
  <2> SUFFICES ASSUME Init PROVE IInv
    OBVIOUS
  <2>1. TypeOK
    BY TypeInit
  <2>2. HandleInv
    BY DEF Init, HandleInv
  <2>3. LeaseNamesItsRide /\ ClosedHandleHoldsNothing
    BY DEF Init, HotInit, LeaseNamesItsRide, ClosedHandleHoldsNothing
  <2> QED BY <2>1, <2>2, <2>3 DEF IInv
<1>2. IInv /\ [Next]_vars => IInv'
  BY TypeStep, HandleStepInv, LeaseStep, ClosedStep DEF IInv
<1> QED BY <1>1, <1>2, PTL DEF Spec

\* Every variable of the manager and of the hot store keeps its type.
THEOREM TypeCorrect == Spec => []TypeOK
<1>1. IInv => TypeOK
  BY DEF IInv
<1> QED BY <1>1, Invariance, PTL

\* Threads and commands of a handle stay in step (see HandleInv).
THEOREM HandlesInStep == Spec => []HandleInv
<1>1. IInv => HandleInv
  BY DEF IInv
<1> QED BY <1>1, Invariance, PTL

\* The lease key and reserved_ride always name one and the same reservation.
THEOREM LeaseRideAgreement == Spec => []LeaseNamesItsRide
<1>1. IInv => LeaseNamesItsRide
  BY DEF IInv
<1> QED BY <1>1, Invariance, PTL

\* A refused or released handle holds nothing, if it left no command behind.
THEOREM ClosedHandles == Spec => []ClosedHandleHoldsNothing
<1>1. IInv => ClosedHandleHoldsNothing
  BY DEF IInv
<1> QED BY <1>1, Invariance, PTL

\* A live lease ends by expiry or by the Release of its own handle, and is never
\* replaced: two racers for a driver serialize and a stale holder is harmless.
THEOREM NoTheft == Spec => LeaseEndsOnlyByOwner
<1> DEFINE Step == \A d \in Drivers : lease[d] # None /\ lease'[d] # lease[d] =>
                      /\ lease'[d] = None
                      /\ Expire(d) \/ stop[lease[d].token] = "release"
<1>1. IInv /\ [Next]_vars => Step
  <2> SUFFICES ASSUME IInv, [Next]_vars, NEW d \in Drivers,
                      lease[d] # None, lease'[d] # lease[d]
               PROVE  lease'[d] = None /\ (Expire(d) \/ stop[lease[d].token] = "release")
    OBVIOUS
  <2>1. ASSUME NEW e \in Drivers, Expire(e) PROVE e = d /\ lease'[d] = None
    BY <2>1 DEF Expire, IInv, TypeOK, HotTypeOK
  <2>2. ASSUME NEW h \in Tokens, ExecReserve(h) PROVE FALSE
    <3>1. drv[h] \in Drivers
      BY <2>2, BusyHandle DEF ExecReserve, IInv
    <3> QED BY <2>2, <3>1 DEF ExecReserve, ReserveScript, hotVars, IInv, TypeOK, HotTypeOK
  <2>3. ASSUME NEW h \in Tokens, ExecRelease(h)
        PROVE  lease'[d] = None /\ stop[lease[d].token] = "release"
    <3>1. drv[h] \in Drivers /\ stop[h] = "release"
      BY <2>3, BusyHandle DEF ExecRelease, IInv, HandleInv
    <3>2. lease[d] = LeaseOf(h) /\ lease'[d] = None
      BY <2>3, <3>1 DEF ExecRelease, ReleaseScript, hotVars, IInv, TypeOK, HotTypeOK
    <3> QED BY <3>1, <3>2 DEF LeaseOf
  <2> QED BY <2>1, <2>2, <2>3, HotSteps DEF hotVars
<1>2. IInv /\ [Next]_vars => [Step]_vars
  BY <1>1
<1> QED BY <1>2, Invariance, PTL DEF Spec, LeaseEndsOnlyByOwner

\* An OFFLINE, PAUSED or ON_TRIP driver is never taken.
THEOREM TakesReservable == Spec => OnlyReservableIsTaken
<1> DEFINE Step == \A d \in Drivers : lease[d] = None /\ lease'[d] # None =>
                      Reservable(d) /\ state'[d] = "RESERVED"
<1>1. IInv /\ [Next]_vars => Step
  <2> SUFFICES ASSUME IInv, [Next]_vars, NEW d \in Drivers, lease[d] = None, lease'[d] # None
               PROVE  Reservable(d) /\ state'[d] = "RESERVED"
    OBVIOUS
  <2>1. ASSUME NEW h \in Tokens, ExecReserve(h)
        PROVE  Reservable(d) /\ state'[d] = "RESERVED"
    <3>1. drv[h] \in Drivers
      BY <2>1, BusyHandle DEF ExecReserve, IInv
    <3>2. drv[h] = d
      BY <2>1, <3>1 DEF ExecReserve, ReserveScript, hotVars, IInv, TypeOK, HotTypeOK
    <3> QED BY <2>1, <3>2 DEF ExecReserve, ReserveScript, hotVars, IInv, TypeOK, HotTypeOK
  <2>2. ASSUME NEW e \in Drivers, Expire(e) PROVE FALSE
    BY <2>2 DEF Expire, IInv, TypeOK, HotTypeOK
  <2>3. ASSUME NEW h \in Tokens, ExecRelease(h) PROVE FALSE
    <3>1. drv[h] \in Drivers
      BY <2>3, BusyHandle DEF ExecRelease, IInv
    <3> QED BY <2>3, <3>1 DEF ExecRelease, ReleaseScript, hotVars, IInv, TypeOK, HotTypeOK
  <2> QED BY <2>1, <2>2, <2>3, HotSteps DEF hotVars
<1>2. IInv /\ [Next]_vars => [Step]_vars
  BY <1>1
<1> QED BY <1>2, Invariance, PTL DEF Spec, OnlyReservableIsTaken

-----------------------------------------------------------------------------
(* Prompt renewals: mutual exclusion, and the lock it implements.          *)

\* Prompt renewals only restrict when a lease may expire.
LEMMA PromptIsNext == [PromptNext]_vars => [Next]_vars
BY DEF PromptNext, Next, UnrenewedLeaseExpires

\* A handle starts to renew only when its own reserve command has just
\* succeeded, and then the lease is its own.
LEMMA NewHolder ==
    ASSUME IInv, [Next]_vars, NEW d \in Drivers, NEW g \in Holders(d)', g \notin Holders(d)
    PROVE  /\ ExecReserve(g)
           /\ drv[g] = d /\ drv' = drv /\ ride' = ride
           /\ ReserveCode(d, LeaseOf(g)) = "Reserved"
           /\ lease'[d] = LeaseOf(g)
           /\ loop' = [loop EXCEPT ![g] = "select"]
<1>1. g \in Tokens /\ drv'[g] = d /\ loop'[g] \in {"select", "renewing"}
  BY DEF Holders
<1>2. main[g] # "new"
  BY <1>1, FirstStep
<1>3. drv[g] = d
  BY <1>1, <1>2, HandlesKeepTheirRide
<1>4. loop[g] \notin {"select", "renewing"}
  BY <1>1, <1>3 DEF Holders
<1>5. ExecReserve(g) /\ ReserveReturns(g, ReserveCode(drv[g], LeaseOf(g)))
  <2>1. HandleStep(g) /\ loop \in [Tokens -> LoopPcs]
    BY <1>1, <1>4, OwnStep DEF IInv, TypeOK
  <2>2. ~(\E e \in Drivers, r \in Rides : Reserve(g, e, r)) /\ ~Release(g) /\ ~SendRelease(g)
    BY <1>1, <1>4 DEF Reserve, Release, SendRelease
  <2>3. ~CancelCtx(g) /\ ~Tick(g) /\ ~LoopExit(g) /\ ~ExecRelease(g)
    BY <1>1, <1>4 DEF CancelCtx, Tick, LoopExit, ExecRelease
  <2>4. ~Drop(g) /\ ~Resend(g)
    BY <1>1, <1>4 DEF Drop, Resend, handleVars
  <2>5. ~GiveUp(g) /\ ~Crash(g)
    BY <1>1, <1>4, <2>1 DEF GiveUp, Crash
  <2>6. ExecReserve(g)
    BY <2>1, <2>2, <2>3, <2>4, <2>5 DEF HandleStep
  <2> QED BY <1>1, <1>4, <2>6 DEF ExecReserve, RenewReturns
<1>6. ReserveCode(d, LeaseOf(g)) = "Reserved" /\ loop' = [loop EXCEPT ![g] = "select"]
  BY <1>1, <1>3, <1>4, <1>5 DEF ReserveReturns, IInv, TypeOK
<1>7. lease'[d] = LeaseOf(g)
  BY <1>3, <1>5, <1>6
     DEF ExecReserve, ReserveScript, ReserveCode, hotVars, IInv, TypeOK, HotTypeOK
<1> QED BY <1>3, <1>5, <1>6, <1>7 DEF ExecReserve

\* With prompt renewals no step takes the lease from a handle that renews.
LEMMA HolderStep == IInv /\ HolderOwnsLease /\ [PromptNext]_vars => HolderOwnsLease'
<1> SUFFICES ASSUME IInv, HolderOwnsLease, [PromptNext]_vars, NEW d \in Drivers,
                    NEW g \in Holders(d)'
             PROVE  lease'[d] = LeaseOf(g)'
  BY DEF HolderOwnsLease
<1> [Next]_vars
  BY PromptIsNext
<1>1. CASE g \notin Holders(d)
  BY <1>1, NewHolder DEF LeaseOf
<1>2. CASE g \in Holders(d)
  <2>1. g \in Tokens /\ drv[g] = d /\ loop[g] \in {"select", "renewing"}
        /\ lease[d] = LeaseOf(g)
    BY <1>2 DEF Holders, HolderOwnsLease
  <2>2. main[g] # "new" /\ releaseCmds[g] = 0
    BY <2>1 DEF IInv, TypeOK, HandleInv
  <2>3. LeaseOf(g)' = LeaseOf(g) /\ LeaseOf(g) # None
    <3>1. LeaseOf(g)' = LeaseOf(g)
      BY <2>1, <2>2, HandlesKeepTheirRide DEF LeaseOf
    <3>2. ride[g] \in Rides
      BY <2>1, <2>2 DEF IInv, HandleInv
    <3>3. LeaseOf(g) \in LeaseValues
      BY <2>1, <3>2 DEF LeaseOf, LeaseValues
    <3> QED BY <3>1, <3>3, NoneAssumption
  <2>4. ASSUME NEW h \in Tokens, ExecReserve(h) \/ ExecRelease(h) PROVE lease'[d] = lease[d]
    <3>1. drv[h] \in Drivers /\ lease[d] # None
      BY <2>1, <2>3, <2>4, BusyHandle DEF ExecReserve, ExecRelease, IInv
    <3>2. lease \in [Drivers -> LeaseValues \cup {None}]
      BY DEF IInv, TypeOK, HotTypeOK
    <3>3. CASE ExecReserve(h)
      <4>1. ReserveScript(drv[h], LeaseOf(h))
        BY <3>3 DEF ExecReserve
      <4> QED BY <3>1, <3>2, <4>1 DEF ReserveScript, hotVars
    <3>4. CASE ExecRelease(h)
      <4>1. ReleaseScript(drv[h], LeaseOf(h), "AVAILABLE") /\ h # g
        BY <2>2, <3>4 DEF ExecRelease
      <4>2. LeaseOf(h) # LeaseOf(g)
        BY <4>1 DEF LeaseOf
      <4>3. CASE drv[h] = d
        <5>1. lease[drv[h]] # LeaseOf(h)
          BY <2>1, <4>2, <4>3
        <5> QED BY <4>1, <5>1 DEF ReleaseScript, hotVars
      <4>4. CASE drv[h] # d
        BY <3>1, <3>2, <4>1, <4>4 DEF ReleaseScript, hotVars
      <4> QED BY <4>3, <4>4
    <3> QED BY <2>4, <3>3, <3>4
  <2>5. ~Expire(d)
    <3>1. SUFFICES ASSUME Expire(d) PROVE FALSE
      OBVIOUS
    <3>2. lease'[d] # lease[d]
      BY <2>1, <2>3, <3>1 DEF Expire, IInv, TypeOK, HotTypeOK
    <3>3. ~(\E h \in Tokens : HandleStep(h))
      BY <2>4, <3>2
         DEF HandleStep, Reserve, Release, SendRelease, CancelCtx, Tick, LoopExit, Drop, Resend,
             GiveUp, Crash, hotVars
    <3>4. ~(\E e \in Drivers : DriverServiceWrites(e))
      BY <3>2 DEF DriverServiceWrites, InitDriver, SetState
    <3>5. PICK e \in Drivers : UnrenewedLeaseExpires(e)
      BY <3>2, <3>3, <3>4 DEF PromptNext, vars, hotVars
    <3>6. e = d
      BY <3>2, <3>5 DEF UnrenewedLeaseExpires, LeaseExpires, Expire, IInv, TypeOK, HotTypeOK
    <3> QED BY <2>1, <3>5, <3>6 DEF UnrenewedLeaseExpires, OwnerRenews
  <2>6. ASSUME NEW e \in Drivers, Expire(e) PROVE lease'[d] = lease[d]
    BY <2>5, <2>6 DEF Expire, IInv, TypeOK, HotTypeOK
  <2> QED BY <2>1, <2>3, <2>4, <2>6, HotSteps DEF hotVars
<1> QED BY <1>1, <1>2

\* The strengthening behind mutual exclusion holds for ever.
LEMMA PromptInvariance == PromptSpec => [](IInv /\ HolderOwnsLease)
<1>1. PromptSpec => []IInv
  <2>1. PromptSpec => Spec
    BY PromptIsNext, PTL DEF PromptSpec, Spec
  <2> QED BY <2>1, Invariance, PTL
<1>2. Init => HolderOwnsLease
  BY DEF Init, HolderOwnsLease, Holders
<1> QED BY <1>1, <1>2, HolderStep, PTL DEF PromptSpec

\* No double booking: as long as renewals beat the TTL, no two handles that
\* count on a driver exist, whatever the network, the Driver Service and
\* crashing processes do.
THEOREM NoDoubleBooking == PromptSpec => []MutualExclusion
<1>1. IInv /\ HolderOwnsLease => MutualExclusion
  <2> SUFFICES ASSUME HolderOwnsLease, NEW d \in Drivers,
                      NEW g \in Holders(d), NEW h \in Holders(d)
               PROVE  g = h
    BY DEF MutualExclusion
  <2>1. LeaseOf(g) = LeaseOf(h)
    BY DEF HolderOwnsLease
  <2> QED BY <2>1 DEF LeaseOf
<1> QED BY <1>1, PromptInvariance, PTL

\* A handle that still renews owns the lease.
THEOREM HoldersOwn == PromptSpec => []HolderOwnsLease
BY PromptInvariance, PTL

\* A step moves the renewal goroutine of one handle at most.
LEMMA OneLoopMoves ==
    ASSUME IInv, [Next]_vars, NEW h \in Tokens, loop'[h] # loop[h]
    PROVE  drv' = drv /\ \A k \in Tokens \ {h} : loop'[k] = loop[k]
<1>1. HandleStep(h)
  BY OwnStep
<1>2. drv' = drv
  BY <1>1 DEF HandleStep, Reserve, Release, SendRelease, CancelCtx, Tick, LoopExit, ExecReserve,
         ExecRelease, Drop, Resend, GiveUp, Crash, handleVars
<1> QED BY <1>1, <1>2, OthersStay

\* The reservations implement a lock per driver (DriverLock), a driver being
\* locked by the handles that renew its lease.
THEOREM Refinement == PromptSpec => ImplementsLock
<1> DEFINE held == [d \in Drivers |-> Holders(d)]
<1>1. Init => Lock!Init
  BY DEF Init, Lock!Init, Holders
<1>2. IInv /\ HolderOwnsLease /\ HolderOwnsLease' /\ [Next]_vars => [Lock!Next]_held
  <2> SUFFICES ASSUME IInv, HolderOwnsLease, HolderOwnsLease', [Next]_vars, held' # held
               PROVE  Lock!Next
    OBVIOUS
  <2>1. ASSUME NEW d \in Drivers, NEW g \in Holders(d)', g \notin Holders(d) PROVE Lock!Next
    <3>1. /\ drv[g] = d /\ drv' = drv /\ loop' = [loop EXCEPT ![g] = "select"]
          /\ ReserveCode(d, LeaseOf(g)) = "Reserved"
      BY <2>1, NewHolder
    <3>2. g \in Tokens
      BY DEF Holders
    <3>3. Holders(d) = {}
      <4>1. SUFFICES ASSUME NEW k \in Holders(d) PROVE FALSE
        OBVIOUS
      <4>2. k \in Tokens /\ k # g /\ lease[d] = LeaseOf(k)
        BY <2>1 DEF Holders, HolderOwnsLease
      <4>3. lease[d] # LeaseOf(g)
        BY <4>2 DEF LeaseOf
      <4>4. main[k] # "new"
        BY <4>2 DEF Holders, IInv, HandleInv
      <4>5. lease[d] # None
        <5>1. ride[k] \in Rides
          BY <4>2, <4>4 DEF IInv, HandleInv
        <5>2. LeaseOf(k) \in LeaseValues
          BY <4>2, <5>1 DEF LeaseOf, LeaseValues
        <5> QED BY <4>2, <5>2, NoneAssumption
      <4> QED BY <3>1, <4>3, <4>5 DEF ReserveCode
    <3>4. Holders(d)' = {g}
      BY <3>1, <3>2, <3>3 DEF Holders, IInv, TypeOK
    <3>5. \A e \in Drivers \ {d} : Holders(e)' = Holders(e)
      BY <3>1, <3>2 DEF Holders, IInv, TypeOK
    <3>6. held' = [held EXCEPT ![d] = {g}]
      BY <3>4, <3>5
    <3> QED BY <3>2, <3>3, <3>6 DEF Lock!Next, Lock!Enter
  <2>2. ASSUME \A d \in Drivers : Holders(d)' \subseteq Holders(d) PROVE Lock!Next
    <3>1. PICK d \in Drivers : Holders(d)' # Holders(d)
      OBVIOUS
    <3>2. PICK h \in Holders(d) : h \notin Holders(d)'
      BY <2>2, <3>1
    <3>3. h \in Tokens /\ drv[h] = d /\ main[h] # "new"
      BY DEF Holders, IInv, HandleInv
    <3>4. loop'[h] # loop[h] /\ loop'[h] \notin {"select", "renewing"}
      BY <3>2, <3>3, HandlesKeepTheirRide DEF Holders
    <3>5. drv' = drv /\ \A k \in Tokens \ {h} : loop'[k] = loop[k]
      BY <3>3, <3>4, OneLoopMoves
    <3>6. \A e \in Drivers \ {d} : Holders(e)' = Holders(e)
      BY <3>3, <3>5 DEF Holders
    <3>7. \A k \in Holders(d) : k = h
      <4> SUFFICES ASSUME NEW k \in Holders(d) PROVE k = h
        OBVIOUS
      <4>1. LeaseOf(k) = LeaseOf(h)
        BY DEF HolderOwnsLease
      <4> QED BY <4>1 DEF LeaseOf
    <3>8. Holders(d)' = {}
      BY <2>2, <3>2, <3>7
    <3>9. held' = [held EXCEPT ![d] = {}]
      BY <3>6, <3>8
    <3> QED BY <3>2, <3>9 DEF Lock!Next, Lock!Leave
  <2> QED BY <2>1, <2>2
<1> QED BY <1>1, <1>2, PromptInvariance, PromptIsNext, PTL DEF PromptSpec, ImplementsLock, Lock!Spec
=============================================================================

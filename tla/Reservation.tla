---------------------------- MODULE Reservation ----------------------------
(***************************************************************************)
(* reservation.Manager: acquiring a driver lease, renewing it from a       *)
(* background goroutine and releasing it (internal/reservation/manager.go),*)
(* on top of the hot store, with the Redis client in between.              *)
(*                                                                         *)
(* A handle is one call of Manager.Reserve.  It is named by the random     *)
(* token drawn for it, so h \in Tokens.  Each handle has two threads: the  *)
(* caller (main) and the renewal goroutine (loop).  Every script call is   *)
(* split into sending the command, executing it in Redis, and the reply    *)
(* reaching the caller, because a client that times out gives up on a      *)
(* command which Redis may still execute later.                            *)
(*                                                                         *)
(* A handle per process is assumed, so Crash(h) kills one handle; handles  *)
(* that share a process are the runs in which they crash one after another.*)
(***************************************************************************)
EXTENDS HotStore, Naturals

CONSTANT MaxCopies      \* bound: copies of one handle's command in flight

ASSUME MaxCopiesAssumption == MaxCopies \in Nat \ {0}

VARIABLES main,         \* where the caller of Reserve / Release is
          loop,         \* where renewLoop is
          stop,         \* why rCtx is done: not at all, the caller's ctx, Release
          drv,          \* Reservation.DriverID
          ride,         \* Reservation.RideID
          reserveCmds,  \* copies of the handle's reserve command in flight
          releaseCmds,  \* copies of its release command in flight
          abandoned     \* history: handles whose caller moved on with a copy in flight

handleVars == <<main, loop, stop, drv, ride>>
netVars == <<reserveCmds, releaseCmds, abandoned>>
vars == <<hotVars, handleVars, netVars>>

MainPcs == {"new", "reserving", "owned", "waiting", "releasing", "released",
            "releaseErr", "conflict", "unavailable", "errored", "dead"}
LoopPcs == {"none", "select", "renewing", "done"}
StopReasons == {"no", "ctx", "release"}

TypeOK ==
    /\ HotTypeOK
    /\ main \in [Tokens -> MainPcs]
    /\ loop \in [Tokens -> LoopPcs]
    /\ stop \in [Tokens -> StopReasons]
    /\ drv \in [Tokens -> Drivers \cup {None}]
    /\ ride \in [Tokens -> Rides \cup {None}]
    /\ reserveCmds \in [Tokens -> Nat]
    /\ releaseCmds \in [Tokens -> Nat]
    /\ abandoned \subseteq Tokens

Init ==
    /\ HotInit
    /\ main = [h \in Tokens |-> "new"]
    /\ loop = [h \in Tokens |-> "none"]
    /\ stop = [h \in Tokens |-> "no"]
    /\ drv = [h \in Tokens |-> None]
    /\ ride = [h \in Tokens |-> None]
    /\ reserveCmds = [h \in Tokens |-> 0]
    /\ releaseCmds = [h \in Tokens |-> 0]
    /\ abandoned = {}

\* LeaseValue.String: rideID:token:version.  The version is never compared on
\* its own and the token is fresh for every call, so the pair is as unique.
LeaseOf(h) == [ride |-> ride[h], token |-> h]

\* A caller moves on: is a copy of the handle's reserve command left behind?
LeftBehind(h) ==
    abandoned' = abandoned \cup (IF reserveCmds[h] > 0 THEN {h} ELSE {})

Owns(h) == drv[h] # None /\ lease[drv[h]] = LeaseOf(h)

-----------------------------------------------------------------------------
(* The caller.                                                             *)

\* Manager.Reserve up to the Eval it waits for.
Reserve(h, d, r) ==
    /\ main[h] = "new"
    /\ main' = [main EXCEPT ![h] = "reserving"]
    /\ drv' = [drv EXCEPT ![h] = d]
    /\ ride' = [ride EXCEPT ![h] = r]
    /\ reserveCmds' = [reserveCmds EXCEPT ![h] = @ + 1]
    /\ UNCHANGED <<hotVars, loop, stop, releaseCmds, abandoned>>

\* Manager.Reserve on the script's answer: start renewLoop, or return
\* ErrConflict or ErrNotAvailable.
ReserveReturns(h, code) ==
    /\ main[h] = "reserving"
    /\ main' = [main EXCEPT ![h] = IF code = "Reserved" THEN "owned"
                                   ELSE IF code = "Conflict" THEN "conflict"
                                   ELSE "unavailable"]
    /\ loop' = [loop EXCEPT ![h] = IF code = "Reserved" THEN "select" ELSE @]

\* A defective variant of Release: it does not cancel the loop it waits for.
ReleaseWithoutCancel(h) ==
    /\ main[h] \in {"owned", "released", "releaseErr"}
    /\ main' = [main EXCEPT ![h] = "waiting"]
    /\ UNCHANGED <<hotVars, loop, stop, drv, ride, netVars>>

\* Reservation.Release: cancel rCtx, then wait for the loop to be done.  May be
\* called again after it returned.
Release(h) ==
    /\ main[h] \in {"owned", "released", "releaseErr"}
    /\ main' = [main EXCEPT ![h] = "waiting"]
    /\ stop' = [stop EXCEPT ![h] = "release"]
    /\ UNCHANGED <<hotVars, loop, drv, ride, netVars>>

\* A defective variant: Release does not wait for the loop.
SendReleaseAtOnce(h) ==
    /\ main[h] = "waiting"
    /\ releaseCmds[h] < MaxCopies
    /\ main' = [main EXCEPT ![h] = "releasing"]
    /\ releaseCmds' = [releaseCmds EXCEPT ![h] = @ + 1]
    /\ UNCHANGED <<hotVars, loop, stop, drv, ride, reserveCmds, abandoned>>

\* Release after <-r.done: the compare-and-delete Eval.
SendRelease(h) ==
    /\ main[h] = "waiting"
    /\ loop[h] = "done"
    /\ releaseCmds[h] < MaxCopies
    /\ main' = [main EXCEPT ![h] = "releasing"]
    /\ releaseCmds' = [releaseCmds EXCEPT ![h] = @ + 1]
    /\ UNCHANGED <<hotVars, loop, stop, drv, ride, reserveCmds, abandoned>>

\* The context handed to Reserve ends (a gRPC request returns, a consumer
\* shuts down); rCtx is derived from it.
CancelCtx(h) ==
    /\ stop[h] = "no"
    /\ main[h] \in {"reserving", "owned"}
    /\ stop' = [stop EXCEPT ![h] = "ctx"]
    /\ UNCHANGED <<hotVars, main, loop, drv, ride, netVars>>

-----------------------------------------------------------------------------
(* renewLoop.                                                              *)

Tick(h) ==
    /\ loop[h] = "select"
    /\ stop[h] = "no"
    /\ reserveCmds[h] < MaxCopies
    /\ loop' = [loop EXCEPT ![h] = "renewing"]
    /\ reserveCmds' = [reserveCmds EXCEPT ![h] = @ + 1]
    /\ UNCHANGED <<hotVars, main, stop, drv, ride, releaseCmds, abandoned>>

\* The result of the renewal is discarded: whatever the script answered, the
\* loop goes back to its select.
RenewReturns(h) ==
    /\ loop[h] = "renewing"
    /\ loop' = [loop EXCEPT ![h] = "select"]
    /\ UNCHANGED main

\* case <-ctx.Done().  A tick taken by a cancelled loop fails in the client
\* and ends the loop as well.
LoopExit(h) ==
    /\ loop[h] = "select"
    /\ stop[h] # "no"
    /\ loop' = [loop EXCEPT ![h] = "done"]
    /\ UNCHANGED <<hotVars, main, stop, drv, ride, netVars>>

-----------------------------------------------------------------------------
(* The Redis client and the network.                                       *)

\* Redis executes a reserve command; the reply reaches whoever waits for it,
\* or is lost, or nobody waits any more.
ExecReserve(h) ==
    /\ reserveCmds[h] > 0
    /\ reserveCmds' = [reserveCmds EXCEPT ![h] = @ - 1]
    /\ ReserveScript(drv[h], LeaseOf(h))
    /\ \/ ReserveReturns(h, ReserveCode(drv[h], LeaseOf(h)))
       \/ RenewReturns(h)
       \/ UNCHANGED <<main, loop>>
    /\ UNCHANGED <<stop, drv, ride, releaseCmds, abandoned>>

ExecRelease(h) ==
    /\ releaseCmds[h] > 0
    /\ releaseCmds' = [releaseCmds EXCEPT ![h] = @ - 1]
    /\ ReleaseScript(drv[h], LeaseOf(h), "AVAILABLE")
    /\ \/ /\ main[h] = "releasing"
          /\ main' = [main EXCEPT ![h] = "released"]
       \/ UNCHANGED main
    /\ UNCHANGED <<loop, stop, drv, ride, reserveCmds, abandoned>>

Drop(h) ==
    /\ \/ /\ reserveCmds[h] > 0
          /\ reserveCmds' = [reserveCmds EXCEPT ![h] = @ - 1]
          /\ UNCHANGED releaseCmds
       \/ /\ releaseCmds[h] > 0
          /\ releaseCmds' = [releaseCmds EXCEPT ![h] = @ - 1]
          /\ UNCHANGED reserveCmds
    /\ UNCHANGED <<hotVars, handleVars, abandoned>>

\* The client retries the attempt it is waiting for on another connection.
Resend(h) ==
    /\ \/ /\ main[h] = "reserving" \/ loop[h] = "renewing"
          /\ reserveCmds[h] < MaxCopies
          /\ reserveCmds' = [reserveCmds EXCEPT ![h] = @ + 1]
          /\ LeftBehind(h)
          /\ UNCHANGED releaseCmds
       \/ /\ main[h] = "releasing"
          /\ releaseCmds[h] < MaxCopies
          /\ releaseCmds' = [releaseCmds EXCEPT ![h] = @ + 1]
          /\ UNCHANGED <<reserveCmds, abandoned>>
    /\ UNCHANGED <<hotVars, handleVars>>

\* The client returns an error (timeout, connection lost, retries exhausted):
\* Reserve and Release return it, renewLoop exits.
GiveUp(h) ==
    /\ \/ /\ main[h] = "reserving"
          /\ main' = [main EXCEPT ![h] = "errored"]
          /\ UNCHANGED loop
       \/ /\ main[h] = "releasing"
          /\ main' = [main EXCEPT ![h] = "releaseErr"]
          /\ UNCHANGED loop
       \/ /\ loop[h] = "renewing"
          /\ loop' = [loop EXCEPT ![h] = "done"]
          /\ UNCHANGED main
    /\ LeftBehind(h)
    /\ UNCHANGED <<hotVars, stop, drv, ride, reserveCmds, releaseCmds>>

\* The process of the handle dies.
Crash(h) ==
    /\ main[h] \notin {"new", "dead"}
    /\ main' = [main EXCEPT ![h] = "dead"]
    /\ loop' = [loop EXCEPT ![h] = "done"]
    /\ LeftBehind(h)
    /\ UNCHANGED <<hotVars, stop, drv, ride, reserveCmds, releaseCmds>>

-----------------------------------------------------------------------------
(* The rest of the system, as far as the driver hash is concerned: the     *)
(* Driver Service registers drivers and writes their state.                *)

DriverServiceWrites(d) ==
    /\ \/ \E s \in {"AVAILABLE", "OFFLINE"} : InitDriver(d, s)
       \/ state[d] # Unknown /\ \E s \in States : SetState(d, s)
    /\ UNCHANGED <<handleVars, netVars>>

\* The loop of the lease's owner is alive.
OwnerRenews(d) == \E h \in Tokens : lease[d] = LeaseOf(h) /\ loop[h] \in {"select", "renewing"}

LeaseExpires(d) == Expire(d) /\ UNCHANGED <<handleVars, netVars>>

\* The TTL runs out although nobody is late with a renewal.
UnrenewedLeaseExpires(d) == ~OwnerRenews(d) /\ LeaseExpires(d)

HandleStep(h) ==
    \/ \E d \in Drivers, r \in Rides : Reserve(h, d, r)
    \/ Release(h) \/ SendRelease(h) \/ CancelCtx(h)
    \/ Tick(h) \/ LoopExit(h)
    \/ ExecReserve(h) \/ ExecRelease(h) \/ Drop(h) \/ Resend(h) \/ GiveUp(h)
    \/ Crash(h)

Next ==
    \/ \E h \in Tokens : HandleStep(h)
    \/ \E d \in Drivers : DriverServiceWrites(d) \/ LeaseExpires(d)

Spec == Init /\ [][Next]_vars

\* The renewal goroutine always beats the TTL (LEASE_RENEW = 10s, LEASE_TTL =
\* 30s, no pause of 20s): a lease expires only when nobody renews it.
PromptNext ==
    \/ \E h \in Tokens : HandleStep(h)
    \/ \E d \in Drivers : DriverServiceWrites(d) \/ UnrenewedLeaseExpires(d)

PromptSpec == Init /\ [][PromptNext]_vars

\* The network delivers or loses every command, a client call ends (its
\* timeouts and retries are finite), a goroutine that can run runs, and a lease
\* that nobody renews runs out.
FairSpec ==
    /\ Spec
    /\ \A h \in Tokens :
          /\ WF_vars(ExecReserve(h) \/ ExecRelease(h) \/ Drop(h))
          /\ WF_vars(GiveUp(h))
          /\ WF_vars(LoopExit(h))
          /\ WF_vars(SendRelease(h))
    /\ \A d \in Drivers : WF_vars(UnrenewedLeaseExpires(d))

-----------------------------------------------------------------------------
(* Properties.                                                             *)

\* The lease key of a driver always holds the value of a handle that asked for
\* this very driver, and reserved_ride, which reserveScript writes in another
\* key, names the ride of that lease for as long as the lease lives.
LeaseNamesItsRide ==
    \A d \in Drivers : lease[d] # None =>
        LET h == lease[d].token IN
            /\ drv[h] = d
            /\ ride[h] = lease[d].ride
            /\ reservedRide[d] = lease[d].ride

\* Once Reserve was refused or Release has returned, the handle does not hold
\* the driver, unless a command of it was left behind in the network.  This is
\* what Release waits for r.done for: a renewal that is still running would
\* take the driver again.
ClosedHandleHoldsNothing ==
    \A h \in Tokens :
        main[h] \in {"conflict", "unavailable", "released"} /\ h \notin abandoned => ~Owns(h)

\* A live lease is never replaced.  It goes away when its TTL runs out, or by
\* the release script of a handle whose own Release was called: a stale holder
\* neither overwrites nor deletes a newer lease.
LeaseEndsOnlyByOwner ==
    [][\A d \in Drivers : lease[d] # None /\ lease'[d] # lease[d] =>
          /\ lease'[d] = None
          /\ Expire(d) \/ stop[lease[d].token] = "release"]_vars

\* Only a driver that is AVAILABLE, or RESERVED without a lease, is ever taken,
\* and taking it marks it RESERVED in the same step.
OnlyReservableIsTaken ==
    [][\A d \in Drivers : lease[d] = None /\ lease'[d] # None =>
          Reservable(d) /\ state'[d] = "RESERVED"]_vars

\* What ties the two threads of a handle and its commands together: the loop
\* runs only between a successful Reserve and the Eval of Release, a release
\* command exists only after Release was called, and without an abandoned
\* command at most one reserve command is in flight, for a call that waits.
HandleInv ==
    \A h \in Tokens :
        /\ main[h] = "new" => reserveCmds[h] = 0 /\ releaseCmds[h] = 0 /\ drv[h] = None
        /\ main[h] # "new" => drv[h] \in Drivers /\ ride[h] \in Rides
        /\ main[h] \in {"new", "reserving", "conflict", "unavailable", "errored"} =>
               loop[h] = "none"
        /\ main[h] \in {"releasing", "released", "releaseErr", "dead"} => loop[h] = "done"
        /\ main[h] \in {"waiting", "releasing", "released", "releaseErr"} =>
               stop[h] = "release"
        /\ releaseCmds[h] > 0 => stop[h] = "release" /\ loop[h] = "done"
        /\ h \notin abandoned /\ reserveCmds[h] > 0 =>
               /\ reserveCmds[h] = 1
               /\ main[h] = "reserving" \/ loop[h] = "renewing"

\* The inductive invariant behind the safety properties.
IInv == TypeOK /\ HandleInv /\ LeaseNamesItsRide /\ ClosedHandleHoldsNothing

\* The handles whose renewal goroutine is alive: they count on the driver.
Holders(d) == {h \in Tokens : drv[h] = d /\ loop[h] \in {"select", "renewing"}}

\* With prompt renewals, a handle that still renews owns the lease.
HolderOwnsLease == \A d \in Drivers : \A h \in Holders(d) : lease[d] = LeaseOf(h)

\* With prompt renewals, no two handles hold one driver: no double booking.
MutualExclusion == \A d \in Drivers : \A g, h \in Holders(d) : g = h

\* What the reservations promise to their callers (PromptSpec implements it).
Lock == INSTANCE DriverLock WITH holders <- [d \in Drivers |-> Holders(d)]
ImplementsLock == Lock!Spec

\* A renewal that finds the driver taken by another handle ends the loop
\* (manager.go, comment of renewLoop).
RetakenLeaseEndsLoop ==
    [][\A h \in Tokens :
          /\ loop[h] = "renewing" /\ loop'[h] # "renewing"
          /\ lease[drv[h]] \notin {None, LeaseOf(h)}
          => loop'[h] = "done"]_vars

\* Release always returns: waiting for the loop cannot block it for ever.
ReleaseReturns ==
    \A h \in Tokens :
        main[h] = "waiting" ~> main[h] \in {"released", "releaseErr", "dead"}

\* A handle that crashed, was refused, failed, or stopped renewing leaves the
\* driver free of its lease from some time on.
Quiet(h) == loop[h] = "done" \/ main[h] \in {"conflict", "unavailable", "errored", "dead"}
QuietHandleFreesDriver == \A h \in Tokens : Quiet(h) ~> [](~Owns(h))
=============================================================================

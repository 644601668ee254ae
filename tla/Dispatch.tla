------------------------------ MODULE Dispatch ------------------------------
(***************************************************************************)
(* From a ride request to a reserved driver: ride.Service creates and      *)
(* cancels rides in the hot store and publishes ride-requested; the        *)
(* dispatch engine takes the request from Kafka (a consumer) or from a     *)
(* gRPC call, searches, ranks, reserves and publishes                      *)
(* (internal/ride/service.go, internal/dispatch/engine.go,                 *)
(* internal/dispatchsvc/service.go, cmd/dispatch-engine/main.go).          *)
(*                                                                         *)
(* A worker is the consumer goroutine of an engine process or one gRPC     *)
(* call to it; the processes come and go as in Server.  Every Redis        *)
(* command is a step of its own.  Leases are renewed in time, as in        *)
(* Reservation!PromptSpec, where the renewal itself is modelled: here a    *)
(* lease whose owner renews does not expire.                               *)
(***************************************************************************)
EXTENDS HotStore, Server, Integers, Sequences, FiniteSets, Functions

CONSTANTS Consumers,     \* consumer goroutines of topic ride-requested
          Calls,         \* DispatchForRide and FindCandidates calls, each made once
          Host,          \* the process a worker belongs to
          Dist,          \* DistM of a driver for the pickup
          Rating,        \* rating field of a driver, 0 when it has none
          MaxCandidates, \* Config.MaxCandidates
          MaxRetries,    \* ConsumerConfig.MaxRetries
          MaxCopies,     \* bound: copies of a request the producer's retries can leave
          Written        \* bound: the states the Driver Service writes meanwhile

Workers == Consumers \cup Calls

ASSUME DispatchAssumption ==
    /\ Consumers \cap Calls = {} /\ IsFiniteSet(Workers)
    /\ Dist \in [Drivers -> Nat] /\ Rating \in [Drivers -> 0..5]
    /\ MaxCandidates \in Nat \ {0} /\ MaxRetries \in Nat /\ MaxCopies \in Nat
    /\ Written \in [Drivers -> SUBSET States] /\ Host \in [Workers -> Processes]

\* A fleet is finite, and randomToken never runs out of tokens.
ASSUME TokenAssumption ==
    /\ None \notin Workers /\ IsFiniteSet(Drivers)
    /\ IsFiniteSet(Tokens) => Cardinality(Tokens) > Cardinality(Drivers)

VARIABLES rideHash,    \* ride:{id}: None, or its state and whether SetRide wrote it whole
          requests,    \* copies of the ride's ride-requested message not read yet; -1 before CreateRide
          cancelling,  \* rides a CancelRide has read and not written yet
          pc,          \* where a worker is in DispatchForRide
          ride,        \* the ride it dispatches
          unread,      \* drivers its SearchNearby has not looked at yet
          found,       \* drivers its SearchNearby has found
          ranked,      \* candidates it has not tried yet, the next one first
          attempt,     \* Consumer.process: attempt
          renewer,     \* the worker that renews the lease with this token
          owed         \* history: dispatches of the ride started minus those settled

rideVars == <<rideHash, requests, cancelling>>
workVars == <<pc, ride, unread, found, ranked, attempt>>
vars == <<hotVars, phase, rideVars, workVars, renewer, owed>>

\* The ride states anything in the system writes; validRideTransitions has more.
RideStates == {"REQUESTED", "CANCELLED"}
RideHashes == [state : RideStates, whole : BOOLEAN]

\* Waiting for a request, in DispatchForRide or FindCandidates, or returned.
Places == {"idle", "search", "reserve", "publish", "answer", "done"}

TypeOK ==
    /\ HotTypeOK /\ phase \in [Processes -> Phases]
    /\ rideHash \in [Rides -> RideHashes \cup {None}]
    /\ requests \in [Rides -> -1..MaxCopies] /\ cancelling \subseteq Rides
    /\ pc \in [Workers -> Places]
    /\ ride \in [Workers -> Rides \cup {None}]
    /\ unread \in [Workers -> SUBSET Drivers] /\ found \in [Workers -> SUBSET Drivers]
    /\ ranked \in [Workers -> Seq(Drivers)]
    /\ attempt \in [Workers -> 0..MaxRetries]
    /\ renewer \in [Tokens -> Workers \cup {None}]
    /\ owed \in [Rides -> Int]

\* The drivers are registered and available.
Init ==
    /\ state = [d \in Drivers |-> "AVAILABLE"]
    /\ reservedRide = [d \in Drivers |-> None]
    /\ lease = [d \in Drivers |-> None]
    /\ phase = [p \in Processes |-> "serving"]
    /\ rideHash = [r \in Rides |-> None]
    /\ requests = [r \in Rides |-> -1] /\ cancelling = {}
    /\ pc = [w \in Workers |-> "idle"] /\ ride = [w \in Workers |-> None]
    /\ unread = [w \in Workers |-> {}] /\ found = unread
    /\ ranked = [w \in Workers |-> <<>>] /\ attempt = [w \in Workers |-> 0]
    /\ renewer = [t \in Tokens |-> None]
    /\ owed = [r \in Rides |-> 0]

-----------------------------------------------------------------------------
(* ride.Service.                                                           *)

CanTransition(from, to) == from = to \/ (from = "REQUESTED" /\ to = "CANCELLED")

\* How often a Publish leaves its message in the topic: not at all when it fails,
\* more than once when the writer repeats an attempt whose answer was lost.
Copies == 0..MaxCopies

\* CreateRide: the client gets the ride whether or not the hot state was
\* written and the request was published.
CreateRide(r) ==
    /\ requests[r] = -1
    /\ \E hash \in {None, [state |-> "REQUESTED", whole |-> TRUE]} :
          rideHash' = [rideHash EXCEPT ![r] = hash]
    /\ \E n \in Copies : requests' = [requests EXCEPT ![r] = n]
    /\ UNCHANGED <<hotVars, phase, cancelling, workVars, renewer, owed>>

\* CancelRide up to its check; a ride that is missing or cannot be cancelled is
\* refused without any change.
CancelRide(r) ==
    /\ rideHash[r] # None
    /\ CanTransition(rideHash[r].state, "CANCELLED")
    /\ cancelling' = cancelling \cup {r}
    /\ UNCHANGED <<hotVars, phase, rideHash, requests, workVars, renewer, owed>>

\* The HSET of CancelRide, whose error is ignored.  It creates a hash without
\* coordinates and without TTL when the ride has expired since the check.
CancelWrites(r) ==
    /\ r \in cancelling
    /\ cancelling' = cancelling \ {r}
    /\ \/ rideHash' = [rideHash EXCEPT ![r] =
                          [state |-> "CANCELLED", whole |-> @ # None /\ @.whole]]
       \/ UNCHANGED rideHash
    /\ UNCHANGED <<hotVars, phase, requests, workVars, renewer, owed>>

\* The 30 minutes of SetRide are over.
RideExpires(r) ==
    /\ rideHash[r] # None /\ rideHash[r].whole
    /\ rideHash' = [rideHash EXCEPT ![r] = None]
    /\ UNCHANGED <<hotVars, phase, requests, cancelling, workVars, renewer, owed>>

-----------------------------------------------------------------------------
(* The engine.                                                             *)

\* score, without the request age, which is the same for all candidates.
WDistance == 1
WRating == 50
Score(d) ==
    WDistance * Dist[d] + WRating * (5 - (IF Rating[d] <= 0 THEN 5 ELSE Rating[d]))

\* The orders sort.Slice may produce: it is not stable, so equal scores come
\* in any order.
Ranked(ds) ==
    {s \in Bijection(1..Cardinality(ds), ds) :
       \A i, j \in 1..Len(s) : i < j => Score(s[i]) <= Score(s[j])}

TopRanked(s, max) == SubSeq(s, 1, IF Len(s) < max THEN Len(s) ELSE max)

\* DispatchForRide begins: SearchNearby has all drivers before it.
StartSearch(w) ==
    /\ pc' = [pc EXCEPT ![w] = "search"]
    /\ unread' = [unread EXCEPT ![w] = Drivers]
    /\ found' = [found EXCEPT ![w] = {}]
    /\ ranked' = [ranked EXCEPT ![w] = <<>>]

\* connect.Clients: open from Start until OnShutdown closes them.
ClientsOpen(w) == phase[Host[w]] \in {"serving", "draining"}

\* Consumer.Run: ReadMessage has committed the offset when it returns.  The
\* reader is stopped only when main returns.
ReadMessage(w, r) ==
    /\ w \in Consumers /\ pc[w] = "idle" /\ requests[r] > 0 /\ phase[Host[w]] # "down"
    /\ requests' = [requests EXCEPT ![r] = @ - 1]
    /\ ride' = [ride EXCEPT ![w] = r]
    /\ attempt' = [attempt EXCEPT ![w] = 0]
    /\ owed' = [owed EXCEPT ![r] = @ + 1]
    /\ StartSearch(w)
    /\ UNCHANGED <<hotVars, phase, rideHash, cancelling, renewer>>

\* runDispatch and DispatchByRideID: any ride with a hash, whatever its state.
DispatchByRideID(w, r) ==
    /\ w \in Calls /\ pc[w] = "idle" /\ phase[Host[w]] = "serving" /\ rideHash[r] # None
    /\ ride' = [ride EXCEPT ![w] = r]
    /\ owed' = [owed EXCEPT ![r] = @ + 1]
    /\ StartSearch(w)
    /\ UNCHANGED <<hotVars, phase, rideVars, attempt, renewer>>

\* FindCandidates searches and ranks for no ride.
FindCandidates(w) ==
    /\ w \in Calls /\ pc[w] = "idle" /\ phase[Host[w]] = "serving"
    /\ StartSearch(w)
    /\ UNCHANGED <<hotVars, phase, rideVars, ride, attempt, renewer, owed>>

\* The worker is through with its request: the consumer reads on, the call
\* returns.
Finish(w) ==
    /\ pc' = [pc EXCEPT ![w] = IF w \in Consumers THEN "idle" ELSE "done"]
    /\ ride' = [ride EXCEPT ![w] = None]
    /\ unread' = [unread EXCEPT ![w] = {}]
    /\ found' = [found EXCEPT ![w] = {}]
    /\ ranked' = [ranked EXCEPT ![w] = <<>>]
    /\ attempt' = [attempt EXCEPT ![w] = 0]

Settle(w) == owed' = [r \in Rides |-> owed[r] - IF r = ride[w] THEN 1 ELSE 0]

\* Defective variants: process retries once too often, or never gives up.
FailOnceMore(w) ==
    IF w \in Consumers /\ attempt[w] <= MaxRetries
    THEN /\ attempt' = [attempt EXCEPT ![w] = @ + 1]
         /\ StartSearch(w)
         /\ UNCHANGED <<ride, owed>>
    ELSE Finish(w) /\ Settle(w)

FailForever(w) ==
    IF w \in Consumers
    THEN StartSearch(w) /\ UNCHANGED <<ride, attempt, owed>>
    ELSE Finish(w) /\ Settle(w)

\* DispatchForRide returned an error: process tries again while it has retries
\* left and then moves on; a call returns the error.
Fail(w) ==
    IF w \in Consumers /\ attempt[w] < MaxRetries
    THEN /\ attempt' = [attempt EXCEPT ![w] = @ + 1]
         /\ StartSearch(w)
         /\ UNCHANGED <<ride, owed>>
    ELSE Finish(w) /\ Settle(w)

\* SearchNearby reads one driver: an AVAILABLE one within the radius is a
\* candidate.
SearchNearby(w, d) ==
    /\ pc[w] = "search" /\ d \in unread[w] /\ ClientsOpen(w)
    /\ unread' = [unread EXCEPT ![w] = @ \ {d}]
    /\ \/ state[d] = "AVAILABLE" /\ found' = [found EXCEPT ![w] = @ \cup {d}]
       \/ UNCHANGED found
    /\ UNCHANGED <<hotVars, phase, rideVars, pc, ride, ranked, attempt, renewer, owed>>

\* The search failed ("redis_unavailable") or found nobody ("no_candidates"):
\* neither is an error, so neither is retried.
SearchEndsEmpty(w) ==
    /\ pc[w] = "search"
    /\ unread[w] # {} \/ found[w] = {}
    /\ Finish(w) /\ Settle(w)
    /\ UNCHANGED <<hotVars, phase, rideVars, renewer>>

\* DispatchForRide goes on with the best candidates, FindCandidates answers with
\* as many as it was asked for.
Rank(w) ==
    /\ pc[w] = "search" /\ unread[w] = {} /\ found[w] # {}
    /\ \E s \in Ranked(found[w]), max \in IF ride[w] = None THEN 1..Cardinality(Drivers)
                                                            ELSE {MaxCandidates} :
          ranked' = [ranked EXCEPT ![w] = TopRanked(s, max)]
    /\ pc' = [pc EXCEPT ![w] = IF ride[w] = None THEN "answer" ELSE "reserve"]
    /\ UNCHANGED <<hotVars, phase, rideVars, ride, unread, found, attempt, renewer, owed>>

\* randomToken: a token that is not in use.
Token == CHOOSE t \in Tokens :
             renewer[t] = None /\ \A d \in Drivers : lease[d] # None => lease[d].token # t

\* A defective variant: the loop over the candidates goes on after a success.
WinAndGoOn(w, t) ==
    /\ renewer' = [renewer EXCEPT ![t] = w]
    /\ Settle(w)
    /\ IF Len(ranked[w]) > 1
       THEN ranked' = [ranked EXCEPT ![w] = Tail(@)] /\ UNCHANGED pc
       ELSE pc' = [pc EXCEPT ![w] = "publish"] /\ UNCHANGED ranked
    /\ UNCHANGED <<ride, unread, found, attempt>>

\* The handle's renewLoop starts.
Win(w, t) ==
    /\ renewer' = [renewer EXCEPT ![t] = w]
    /\ pc' = [pc EXCEPT ![w] = "publish"]
    /\ Settle(w)
    /\ UNCHANGED <<ride, unread, found, ranked, attempt>>

\* ErrConflict: on to the next candidate, or give up after the last.
Conflict(w) ==
    /\ IF Len(ranked[w]) > 1
       THEN /\ ranked' = [ranked EXCEPT ![w] = Tail(@)]
            /\ UNCHANGED <<pc, ride, unread, found, attempt, owed>>
       ELSE Fail(w)
    /\ UNCHANGED renewer

\* One turn of the loop over the ranked candidates.  Redis may be unreachable,
\* or its answer may be lost: then the lease may have been taken, but nobody
\* renews it.
Reserve(w) ==
    /\ pc[w] = "reserve"
    /\ LET d == Head(ranked[w])
           lv == [ride |-> ride[w], token |-> Token]
           code == ReserveCode(d, lv)
       IN \/ /\ ClientsOpen(w) /\ ReserveScript(d, lv)
             /\ \/ code = "Reserved" /\ Win(w, lv.token)
                \/ code = "Conflict" /\ Conflict(w)
                \/ code = "NotAvailable" /\ Fail(w) /\ UNCHANGED renewer
          \/ /\ (ClientsOpen(w) /\ ReserveScript(d, lv)) \/ UNCHANGED hotVars
             /\ Fail(w) /\ UNCHANGED renewer
    /\ UNCHANGED <<phase, rideVars>>

\* A defective variant: the lease outlives the call that took it.
PublishKeepsRenewing(w) ==
    /\ pc[w] \in {"publish", "answer"}
    /\ Finish(w)
    /\ UNCHANGED <<hotVars, phase, rideVars, renewer, owed>>

\* publishDispatchCreated, best effort, and the return, or the answer of
\* FindCandidates.  When a call returns its context ends, and with it the
\* renewal; a consumer's context lives on.
Publish(w) ==
    /\ pc[w] \in {"publish", "answer"}
    /\ Finish(w)
    /\ renewer' = [t \in Tokens |-> IF renewer[t] = w /\ w \in Calls THEN None ELSE renewer[t]]
    /\ UNCHANGED <<hotVars, phase, rideVars, owed>>

-----------------------------------------------------------------------------
(* The engine process.                                                     *)

Waiting(w) == pc[w] \in {"idle", "done"}

\* With the process its workers go: requests are abandoned, renewals end.
Abandon(p) ==
    LET gone == {w \in Workers : Host[w] = p}
        busy == {w \in gone : ~Waiting(w)}
    IN /\ pc' = [w \in Workers |-> IF w \in busy THEN IF w \in Consumers THEN "idle" ELSE "done"
                                   ELSE pc[w]]
       /\ ride' = [w \in Workers |-> IF w \in busy THEN None ELSE ride[w]]
       /\ unread' = [w \in Workers |-> IF w \in busy THEN {} ELSE unread[w]]
       /\ found' = [w \in Workers |-> IF w \in busy THEN {} ELSE found[w]]
       /\ ranked' = [w \in Workers |-> IF w \in busy THEN <<>> ELSE ranked[w]]
       /\ attempt' = [w \in Workers |-> IF w \in busy THEN 0 ELSE attempt[w]]
       /\ renewer' = [t \in Tokens |-> IF renewer[t] \in gone THEN None ELSE renewer[t]]
       /\ owed' = [r \in Rides |->
                     owed[r] - Cardinality({w \in busy : ride[w] = r /\ pc[w] # "publish"})]

\* The steps of main: run is server.Run, and the consumer's goroutine ends with
\* the process, not before.
EngineStops(p) ==
    /\ GracefulStop(p, {w \in Calls : Host[w] = p /\ ~Waiting(w)})
    /\ UNCHANGED <<hotVars, rideVars, workVars, renewer, owed>>

EngineReturns(p) ==
    /\ Return(p)
    /\ Abandon(p)
    /\ UNCHANGED <<hotVars, rideVars>>

EngineOther(p) ==
    \/ (Start(p) \/ Shutdown(p)) /\ UNCHANGED <<hotVars, rideVars, workVars, renewer, owed>>
    \/ Crash(p) /\ Abandon(p) /\ UNCHANGED <<hotVars, rideVars>>

-----------------------------------------------------------------------------

\* A renewal fails and ends its loop.
RenewFails(t) ==
    /\ renewer[t] # None
    /\ renewer' = [renewer EXCEPT ![t] = None]
    /\ UNCHANGED <<hotVars, phase, rideVars, workVars, owed>>

LeaseExpires(d) ==
    /\ Expire(d) /\ renewer[lease[d].token] = None
    /\ UNCHANGED <<phase, rideVars, workVars, renewer, owed>>

DriverServiceWrites(d) ==
    /\ \E s \in Written[d] : SetState(d, s)
    /\ UNCHANGED <<phase, rideVars, workVars, renewer, owed>>

WorkerStep(w) ==
    \/ \E d \in Drivers : SearchNearby(w, d)
    \/ SearchEndsEmpty(w) \/ Rank(w) \/ Reserve(w) \/ Publish(w)

Next ==
    \/ \E r \in Rides : CreateRide(r) \/ CancelRide(r) \/ CancelWrites(r) \/ RideExpires(r)
    \/ \E w \in Workers, r \in Rides : ReadMessage(w, r) \/ DispatchByRideID(w, r)
    \/ \E w \in Workers : FindCandidates(w) \/ WorkerStep(w)
    \/ \E p \in Processes : EngineStops(p) \/ EngineReturns(p) \/ EngineOther(p)
    \/ \E t \in Tokens : RenewFails(t)
    \/ \E d \in Drivers : LeaseExpires(d) \/ DriverServiceWrites(d)

Spec == Init /\ [][Next]_vars

\* A goroutine that can run runs, main among them, and a lease nobody renews
\* runs out.
FairSpec ==
    /\ Spec
    /\ \A w \in Workers : WF_vars(WorkerStep(w))
    /\ \A p \in Processes : WF_vars(EngineStops(p) \/ EngineReturns(p))
    /\ \A d \in Drivers : WF_vars(LeaseExpires(d))

-----------------------------------------------------------------------------
(* Properties.                                                             *)

Renews(w, d) == lease[d] # None /\ renewer[lease[d].token] = w
Renewed(d) == lease[d] # None /\ renewer[lease[d].token] # None

\* Every lease that is being renewed is held on exactly one driver, and when a
\* worker about to announce a driver renews that driver's lease, the lease is
\* for the ride it announces: no two workers renew a lease of one driver,
\* whatever other engines, retries, calls and restarts do (engine.go,
\* DispatchForRide).  A worker whose renewal has failed may announce a driver
\* that another ride has by then: it does not look at the handle again.
RenewedLeaseIsHeld ==
    /\ \A t \in Tokens : renewer[t] # None =>
          Cardinality({d \in Drivers : lease[d] # None /\ lease[d].token = t}) = 1
    /\ \A w \in Workers, d \in Drivers :
          pc[w] = "publish" /\ d = Head(ranked[w]) /\ Renews(w, d) => lease[d].ride = ride[w]

Pending(r) == {w \in Workers : ride[w] = r /\ pc[w] \in {"search", "reserve"}}

\* One delivery of a request books at most one driver, and one that ends
\* without a driver has booked none: the retries of process and the loop over
\* the candidates never book a second one.  (A Reserve whose answer was lost
\* books nobody: its lease is not renewed.)
OneDriverPerDelivery ==
    \A r \in Rides : owed[r] = Cardinality(Pending(r))

\* No call runs into closed clients: OnShutdown closes them when the calls that
\* were accepted have returned, and none is accepted after it (server.go, Run).
ClientsOutliveCalls ==
    \A w \in Calls : ~Waiting(w) => ClientsOpen(w)

\* DispatchForRide, with all its retries, ends, and so does a graceful shutdown
\* that waits for the calls without a timeout.
DispatchEnds ==
    /\ \A w \in Workers : []<>(pc[w] \in {"idle", "done"})
    /\ \A p \in Processes : []<>(phase[p] \notin {"draining", "closed"})

\* Only a consumer's process keeps a driver for good: a lease taken by a call
\* that has returned, by an engine that is gone or by a Reserve whose answer was
\* lost is not renewed and goes away.
OnlyConsumersKeepLeases ==
    \A d \in Drivers : []<>(lease[d] = None \/ renewer[lease[d].token] \in Consumers)

\* Duplicate ride-requested messages never give a ride a second driver
\* (docs/architecture.md, N6).
NoDuplicateAssignment ==
    \A r \in Rides : Cardinality({d \in Drivers : Renewed(d) /\ lease[d].ride = r}) <= 1
=============================================================================

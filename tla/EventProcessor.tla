--------------------------- MODULE EventProcessor ---------------------------
(***************************************************************************)
(* cmd/event-processor: the four consumers that write the events to        *)
(* Postgres, with the statements of internal/postgres/repo.go and the      *)
(* constraints of migrations/001_init.sql.                                 *)
(*                                                                         *)
(* The consumers of different topics share nothing the handlers read, so a *)
(* behaviour follows one partition of one topic, chosen in the initial     *)
(* state.  Every statement is a transaction of its own, and its answer can *)
(* be lost after it has taken effect.                                      *)
(***************************************************************************)
EXTENDS Consumer

CONSTANTS Rides, Drivers,
          Window,   \* the 5 s of handleDriverLocation
          MaxTime   \* bound on the clock

VARIABLES rows,        \* rides and drivers: offset of the event that wrote `state', -1: no row
          rideEvents,  \* ride_events: event ids
          dispatches,  \* dispatches: <<ride, driver>>, all in state RESERVED
          history,     \* driver_history: the offsets of the points
          clock,       \* time.Now
          lastHistoryTs, \* of each process, per driver; -1: no entry
          points       \* history: times of the points a process has inserted, per driver

dbVars == <<rows, rideEvents, dispatches, history>>
sampleVars == <<lastHistoryTs, points>>
vars == <<consumerVars, dbVars, clock, sampleVars>>

Missing == -1

\* What the handlers look at of an event; a payload that does not decode is poison.
Events == [kind : {"dispatch-created", "ride-status", "driver-status", "driver-location", "poison"},
           id : Nat, ride : Rides \cup {Nobody}, driver : Drivers \cup {Nobody}]

\* An id names one event, which may be in the log more than once.
ASSUME EventAssumption ==
    /\ Nobody \notin Rides \cup Drivers
    /\ Window \in Nat /\ MaxTime \in Nat
    /\ \A l \in Logs : /\ l \in Seq(Events)
                       /\ \A i, j \in 1..Len(l) : l[i].id = l[j].id => l[i] = l[j]

TypeOK ==
    /\ ConsumerTypeOK /\ \A i \in Offsets : log[i] \in Events
    /\ rows \in [Rides \cup Drivers -> Missing..Len(log)]
    /\ dispatches \subseteq Rides \X Drivers
    /\ history \subseteq Offsets
    /\ rideEvents \subseteq {log[i].id : i \in Offsets}
    /\ clock \in 0..MaxTime
    /\ lastHistoryTs \in [Workers -> [Drivers -> -1..MaxTime]]
    /\ points \in [Workers -> [Drivers -> SUBSET (0..MaxTime)]]

\* InsertRide and InsertDriver are best effort, so a row may be missing.
Init ==
    /\ ConsumerInit
    /\ rows \in [Rides \cup Drivers -> {Missing, 0}]
    /\ \A k \in DOMAIN rows :  \* a row no event names may as well be there
          (\A i \in Offsets : k \notin {log[i].ride, log[i].driver}) => rows[k] = 0
    /\ rideEvents = {} /\ dispatches = {} /\ history = {}
    /\ clock = 0
    /\ lastHistoryTs = [w \in Workers |-> [d \in Drivers |-> -1]]
    /\ points = [w \in Workers |-> [d \in Drivers |-> {}]]

-----------------------------------------------------------------------------
(* Statements.  ok says what the caller is told.                           *)

HasRow(k) == k \in DOMAIN rows /\ rows[k] # Missing

\* A statement that takes effect if legal, in the variable with value v.
Exec(v, effect, legal, ok) == IF ok THEN IF legal THEN {effect} ELSE {}
                              ELSE {v} \cup IF legal THEN {effect} ELSE {}

\* UpdateRideState: '' is no uuid, driver_id references drivers.  An UPDATE of
\* no row is no error.
UpdateRideState(m, i, ok) ==
    /\ rows' \in Exec(rows, IF HasRow(m.ride) THEN [rows EXCEPT ![m.ride] = i] ELSE rows,
                      HasRow(m.driver) \/ (m.driver # Nobody /\ ~HasRow(m.ride)), ok)
    /\ UNCHANGED <<rideEvents, dispatches, history>>

UpdateDriverState(m, i, ok) ==
    /\ rows' \in Exec(rows, IF HasRow(m.driver) THEN [rows EXCEPT ![m.driver] = i] ELSE rows,
                      TRUE, ok)
    /\ UNCHANGED <<rideEvents, dispatches, history>>

\* ON CONFLICT (ride_id, event_id) DO NOTHING; ride_id references rides.
InsertRideEvent(m, ok) ==
    /\ rideEvents' \in Exec(rideEvents, rideEvents \cup {m.id}, HasRow(m.ride), ok)
    /\ UNCHANGED <<rows, dispatches, history>>

\* ON CONFLICT (ride_id, driver_id) DO NOTHING; uq_active_dispatch refuses a
\* second active dispatch of the driver, and nothing ends the first.
InsertDispatch(m, ok) ==
    /\ dispatches' \in
          Exec(dispatches, dispatches \cup {<<m.ride, m.driver>>},
               \/ <<m.ride, m.driver>> \in dispatches
               \/ /\ HasRow(m.ride) /\ HasRow(m.driver)
                  /\ \A p \in dispatches : p[2] # m.driver,
               ok)
    /\ UNCHANGED <<rows, rideEvents, history>>

InsertDriverHistory(m, i, ok) ==
    /\ history' \in Exec(history, history \cup {i}, HasRow(m.driver), ok)
    /\ UNCHANGED <<rows, rideEvents, dispatches>>

-----------------------------------------------------------------------------
(* Handlers.                                                               *)

Busy(w, kind) == cur[w] # 0 /\ msg(w).kind = kind

Return(w, ok) == IF ok THEN Succeed(w) ELSE Retry(w)

handleDispatchCreated(w) ==
    /\ Busy(w, "dispatch-created")
    /\ \E ok \in BOOLEAN : InsertDispatch(msg(w), ok) /\ Return(w, ok)
    /\ UNCHANGED <<clock, sampleVars>>

\* A defective variant: the event is logged before the ride is updated.
RideStatusSwapped(w) ==
    /\ Busy(w, "ride-status")
    /\ \E ok \in BOOLEAN :
          \/ /\ stage[w] = 1 /\ InsertRideEvent(msg(w), ok)
             /\ IF ok THEN NextStage(w) ELSE Retry(w)
          \/ stage[w] = 2 /\ UpdateRideState(msg(w), cur[w], ok) /\ Return(w, ok)
    /\ UNCHANGED <<clock, sampleVars>>

\* Two statements, without a transaction around them.
handleRideStatus(w) ==
    /\ Busy(w, "ride-status")
    /\ \E ok \in BOOLEAN :
          \/ /\ stage[w] = 1 /\ UpdateRideState(msg(w), cur[w], ok)
             /\ IF ok THEN NextStage(w) ELSE Retry(w)
          \/ stage[w] = 2 /\ InsertRideEvent(msg(w), ok) /\ Return(w, ok)
    /\ UNCHANGED <<clock, sampleVars>>

handleDriverStatus(w) ==
    /\ Busy(w, "driver-status")
    /\ \E ok \in BOOLEAN : UpdateDriverState(msg(w), cur[w], ok) /\ Return(w, ok)
    /\ UNCHANGED <<clock, sampleVars>>

Recent(w, d) == lastHistoryTs[w][d] # -1 /\ clock - lastHistoryTs[w][d] < Window

\* A defective variant: lastHistoryTs is not looked at.
SampleAll(w) ==
    /\ Busy(w, "driver-location") /\ stage[w] = 1
    /\ NextStage(w)
    /\ lastHistoryTs' = [lastHistoryTs EXCEPT ![w][msg(w).driver] = clock]
    /\ UNCHANGED <<dbVars, clock, points>>

\* handleDriverLocation up to the unlock: the time is noted before the point is
\* inserted, so a retry within the window is skipped like a second point.
Sample(w) ==
    /\ Busy(w, "driver-location") /\ stage[w] = 1
    /\ LET d == msg(w).driver
       IN IF Recent(w, d)
          THEN Succeed(w) /\ UNCHANGED lastHistoryTs
          ELSE NextStage(w) /\ lastHistoryTs' = [lastHistoryTs EXCEPT ![w][d] = clock]
    /\ UNCHANGED <<dbVars, clock, points>>

\* The rest of it.
InsertPoint(w) ==
    /\ Busy(w, "driver-location") /\ stage[w] = 2
    /\ \E ok \in BOOLEAN : InsertDriverHistory(msg(w), cur[w], ok) /\ Return(w, ok)
    /\ LET d == msg(w).driver
       IN points' = IF HasRow(d)
                    THEN [points EXCEPT ![w][d] = @ \cup {lastHistoryTs[w][d]}] ELSE points
    /\ UNCHANGED <<clock, lastHistoryTs>>

\* A payload that does not decode is dropped.
DropPoison(w) ==
    /\ Busy(w, "poison")
    /\ Succeed(w)
    /\ UNCHANGED <<dbVars, clock, sampleVars>>

\* The process keeps lastHistoryTs in memory only.
ProcessCrash(w) ==
    /\ Crash(w)
    /\ lastHistoryTs' = [lastHistoryTs EXCEPT ![w] = [d \in Drivers |-> -1]]
    /\ points' = [points EXCEPT ![w] = [d \in Drivers |-> {}]]
    /\ UNCHANGED <<dbVars, clock>>

Tick ==
    /\ clock < MaxTime
    /\ \E i \in Offsets : log[i].kind = "driver-location"  \* nobody else reads the clock
    /\ clock' = clock + 1
    /\ UNCHANGED <<consumerVars, dbVars, sampleVars>>

Handle(w) ==
    \/ handleDispatchCreated(w) \/ handleRideStatus(w) \/ handleDriverStatus(w)
    \/ Sample(w) \/ InsertPoint(w) \/ DropPoison(w)

Consume(w) ==
    /\ Assign(w) \/ ReadMessage(w) \/ ReadError(w)
    /\ UNCHANGED <<dbVars, clock, sampleVars>>

Next ==
    \/ \E w \in Workers : Consume(w) \/ Handle(w) \/ ProcessCrash(w)
    \/ Tick

Spec == Init /\ [][Next]_vars

\* The goroutines run, and the group gives an unowned partition to a member.
FairSpec == Spec /\ WF_vars(\E w \in Workers : Consume(w))
                 /\ \A w \in Workers : WF_vars(Handle(w))

-----------------------------------------------------------------------------
(* Properties.                                                             *)

Persisted(i) ==
    LET m == log[i]
    IN \/ m.kind = "dispatch-created" /\ <<m.ride, m.driver>> \in dispatches
       \/ m.kind = "ride-status" /\ m.id \in rideEvents
       \/ m.kind = "driver-status" /\ (HasRow(m.driver) => rows[m.driver] >= i)
       \/ m.kind \in {"driver-location", "poison"}

\* No event disappears without a trace while the partition is never given away
\* under a working consumer: one that was read and is not being processed is in
\* its table, in the dead-letter topic, or was given up in one of the three
\* ways the code has: its offset commit failed inside ReadMessage, the process
\* died after it, or the dead letter could not be published.  Points of
\* driver-location are thinned out by design and poison is dropped.
ReadIsPersisted ==
    ~overlap => \A i \in 1..pos - 1 :
        Persisted(i) \/ i \in dlq \cup lost \/ \E w \in Workers : cur[w] = i

\* What Run promises is at least once; since ReadMessage has committed the
\* offset before the handler runs, it is at most once: however processes crash
\* and the group is rebalanced, an event is given to the handlers twice only
\* after an overlap.
AtMostOneSession == ~overlap => \A i \in Offsets : sessions[i] <= 1

\* ride_events never tells of a state the ride row has not been through: an
\* event is logged only after the ride was updated from it or a later one.
LoggedWasApplied ==
    ~overlap => \A i \in Offsets :
        log[i].kind = "ride-status" /\ log[i].id \in rideEvents =>
            \E j \in Offsets : log[j].id = log[i].id /\ rows[log[i].ride] >= j

\* Without an overlap the durable state of a ride or a driver never goes back
\* to an earlier event: UpdateRideState and UpdateDriverState have no guard
\* against it and rely on the order of the partition.
NoStaleOverwrite ==
    [][~overlap' => \A k \in DOMAIN rows : rows'[k] >= rows[k]]_vars

\* driver_history gets at most one point of a driver per window from a process,
\* although a failed insert is retried and its answer may have been lost.
Downsampled ==
    \A w \in Workers, d \in Drivers : \A s, t \in points[w][d] : s < t => t - s >= Window

\* The partition is drained: every event is read and its processing ends,
\* whatever the statements answer.
Drained == <>[](owner # Nobody /\ pos = Len(log) + 1 /\ \A w \in Workers : cur[w] = 0)
=============================================================================

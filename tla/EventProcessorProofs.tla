------------------------ MODULE EventProcessorProofs ------------------------
(***************************************************************************)
(* For any number of workers, any partition, any number of retries,        *)
(* crashes and rebalances: as long as the partition is never given away    *)
(* under a working consumer, no event is given to the handlers twice, no   *)
(* row goes back to an earlier event, every event that was read leaves a   *)
(* trace, and what was logged was applied before.  The points of           *)
(* driver_history are a window apart in any case.                          *)
(***************************************************************************)
EXTENDS EventProcessor, TLAPS

ProofTypeOK ==
    /\ log \in Logs /\ committed \in Nat \ {0} /\ pos \in Nat \ {0}
    /\ cur \in [Workers -> Nat] /\ overlap \in BOOLEAN
    /\ sessions \in [Offsets -> Nat]
    /\ rows \in [Rides \cup Drivers -> Int]

\* The worker that is busy is the owner, and has just read and committed the
\* event before the position.
OwnerWorks ==
    \A w \in Workers : cur[w] # 0 => owner = w /\ pos = cur[w] + 1 /\ committed = pos

\* What was processed or written comes from before the committed offset, and
\* the owner reads no event from before it.
BeforeCommitted ==
    /\ committed <= pos
    /\ \A i \in Offsets : sessions[i] <= 1 /\ (sessions[i] > 0 => i < committed)
    /\ \A k \in Rides \cup Drivers : rows[k] < committed

IInv == ProofTypeOK /\ (~overlap => OwnerWorks /\ BeforeCommitted)

-----------------------------------------------------------------------------
(* Steps of the consumer, which leave the rows alone.                      *)

LEMMA AssignStep ==
    ASSUME IInv, NEW w \in Workers, Assign(w), rows' = rows
    PROVE  IInv'
  <1>1. /\ committed' = committed /\ pos' = committed /\ UNCHANGED <<log, cur, sessions>>
        /\ overlap' = (overlap \/ \E v \in Workers : cur[v] # 0)
    BY DEF Assign, workVars
  <1>2. ProofTypeOK'
    BY <1>1 DEF IInv, ProofTypeOK, Offsets
  <1>3. ASSUME ~overlap' PROVE OwnerWorks' /\ BeforeCommitted'
    <2>1. ~overlap /\ \A v \in Workers : cur[v] = 0
      BY <1>1, <1>3, Zenon
    <2>2. OwnerWorks'
      BY <2>1, <1>1 DEF OwnerWorks
    <2>3. BeforeCommitted'
      BY <2>1, <1>1 DEF IInv, ProofTypeOK, BeforeCommitted, Offsets
    <2> QED BY <2>2, <2>3
  <1> QED BY <1>2, <1>3 DEF IInv

LEMMA ReadStep ==
    ASSUME IInv, NEW w \in Workers, ReadMessage(w), rows' = rows
    PROVE  IInv'
  <1>1. /\ owner = w /\ cur[w] = 0 /\ pos <= Len(log) /\ owner' = owner
        /\ pos' = pos + 1 /\ committed' = pos + 1 /\ log' = log /\ overlap' = overlap
        /\ cur' = [cur EXCEPT ![w] = pos]
        /\ sessions' = [sessions EXCEPT ![pos] = sessions[pos] + 1]
    BY DEF ReadMessage
  <1>2. Len(log) \in Nat /\ pos \in Nat \ {0} /\ committed \in Nat
    BY ConsumerAssumption DEF IInv, ProofTypeOK
  <1>3. pos \in Offsets /\ Offsets' = Offsets
    BY <1>1, <1>2 DEF Offsets
  <1>4. sessions \in [Offsets -> Nat]
    BY DEF IInv, ProofTypeOK
  <1>5. ProofTypeOK'
    <2>1. sessions' \in [Offsets -> Nat]
      BY <1>1, <1>3, <1>4
    <2>2. cur' \in [Workers -> Nat]
      BY <1>1, <1>2 DEF IInv, ProofTypeOK
    <2> QED BY <2>1, <2>2, <1>1, <1>2, <1>3 DEF IInv, ProofTypeOK
  <1>6. ASSUME ~overlap PROVE OwnerWorks' /\ BeforeCommitted'
    <2>1. \A v \in Workers : cur[v] = 0
      BY <1>1, <1>6 DEF IInv, OwnerWorks
    <2>2. OwnerWorks'
      BY <2>1, <1>1, <1>2 DEF OwnerWorks, IInv, ProofTypeOK
    <2>3. committed <= pos /\ sessions[pos] = 0
      BY <1>2, <1>3, <1>4, <1>6 DEF IInv, BeforeCommitted
    <2>4. ASSUME NEW i \in Offsets
          PROVE  sessions'[i] <= 1 /\ (sessions'[i] > 0 => i < pos + 1)
      <3>1. CASE i = pos
        BY <3>1, <2>3, <1>1, <1>2, <1>3, <1>4
      <3>2. CASE i # pos
        <4>1. sessions'[i] = sessions[i]
          BY <3>2, <1>1, <1>4
        <4>2. i \in Nat
          BY <1>2 DEF Offsets
        <4> QED BY <4>1, <4>2, <2>3, <1>2, <1>6 DEF IInv, BeforeCommitted
      <3> QED BY <3>1, <3>2
    <2>5. \A k \in Rides \cup Drivers : rows[k] < pos + 1
      BY <2>3, <1>2, <1>6 DEF IInv, ProofTypeOK, BeforeCommitted
    <2>6. BeforeCommitted'
      BY <2>4, <2>5, <1>1, <1>2, <1>3 DEF BeforeCommitted
    <2> QED BY <2>2, <2>6
  <1> QED BY <1>1, <1>5, <1>6 DEF IInv

LEMMA ReadErrorStep ==
    ASSUME IInv, NEW w \in Workers, ReadError(w), rows' = rows
    PROVE  IInv'
  <1>1. /\ owner = w /\ cur[w] = 0 /\ pos' = pos + 1
        /\ committed' = committed \/ committed' = pos + 1
        /\ UNCHANGED <<log, overlap, cur, sessions>>
    BY DEF ReadError, workVars
  <1>2. pos \in Nat \ {0} /\ committed \in Nat \ {0}
    BY DEF IInv, ProofTypeOK
  <1>3. ProofTypeOK'
    BY <1>1, <1>2 DEF IInv, ProofTypeOK, Offsets
  <1>4. ASSUME ~overlap PROVE OwnerWorks' /\ BeforeCommitted'
    <2>1. OwnerWorks'
      BY <1>1, <1>4 DEF IInv, OwnerWorks
    <2>2. committed <= pos /\ committed <= committed' /\ committed' <= pos'
      BY <1>1, <1>2, <1>4 DEF IInv, BeforeCommitted
    <2>3. committed' \in Nat
      BY <1>1, <1>2
    <2>4. ASSUME NEW i \in Offsets
          PROVE  sessions[i] <= 1 /\ (sessions[i] > 0 => i < committed')
      <3>1. i \in Int
        BY ConsumerAssumption DEF Offsets, IInv, ProofTypeOK
      <3> QED BY <3>1, <2>2, <2>3, <1>2, <1>4 DEF IInv, BeforeCommitted
    <2>5. \A k \in Rides \cup Drivers : rows[k] < committed'
      BY <2>2, <2>3, <1>2, <1>4 DEF IInv, ProofTypeOK, BeforeCommitted
    <2>6. BeforeCommitted'
      BY <2>2, <2>4, <2>5, <1>1 DEF BeforeCommitted, Offsets
    <2> QED BY <2>1, <2>6
  <1> QED BY <1>1, <1>3, <1>4 DEF IInv

LEMMA CrashStep ==
    ASSUME IInv, NEW w \in Workers, Crash(w), rows' = rows
    PROVE  IInv'
  <1>1. /\ cur' = [cur EXCEPT ![w] = 0]
        /\ owner' = IF owner = w THEN Nobody ELSE owner
        /\ UNCHANGED <<log, committed, pos, overlap, sessions>>
    BY DEF Crash
  <1>2. ProofTypeOK'
    BY <1>1 DEF IInv, ProofTypeOK, Offsets
  <1>3. ASSUME ~overlap PROVE OwnerWorks' /\ BeforeCommitted'
    <2>1. OwnerWorks'
      BY <1>1, <1>3 DEF IInv, ProofTypeOK, OwnerWorks
    <2>2. BeforeCommitted'
      BY <1>1, <1>3 DEF IInv, BeforeCommitted, Offsets
    <2> QED BY <2>1, <2>2
  <1> QED BY <1>1, <1>2, <1>3 DEF IInv

-----------------------------------------------------------------------------
(* Steps of the handlers.                                                  *)

\* What a handler of w does to the consumer: it ends its message, whose offset
\* is committed already, or goes on with it.
Working(w) ==
    /\ cur' = cur \/ cur' = [cur EXCEPT ![w] = 0]
    /\ committed' = committed \/ committed' = cur[w] + 1
    /\ UNCHANGED <<log, owner, pos, sessions, overlap>>

LEMMA ReturnWorks ==
    ASSUME NEW w \in Workers
    PROVE  Succeed(w) \/ Retry(w) \/ NextStage(w) => Working(w)
  <1>1. Succeed(w) => Working(w)
    BY DEF Succeed, CommitMessages, Working
  <1>2. Retry(w) => Working(w)
    BY DEF Retry, CommitMessages, Working, brokerVars, fateVars
  <1>3. NextStage(w) => Working(w)
    BY DEF NextStage, Working, brokerVars, fateVars
  <1> QED BY <1>1, <1>2, <1>3

\* What a handler of w does to the rows: it writes its event to one of them.
Writing(w) ==
    \/ rows' = rows
    \/ \E k \in Rides \cup Drivers : HasRow(k) /\ rows' = [rows EXCEPT ![k] = cur[w]]

LEMMA HandleEffect ==
    ASSUME NEW w \in Workers, Handle(w), DOMAIN rows = Rides \cup Drivers
    PROVE  cur[w] # 0 /\ Working(w) /\ Writing(w)
  <1>1. CASE handleDispatchCreated(w)
    BY <1>1, ReturnWorks DEF handleDispatchCreated, InsertDispatch, Return, Busy, Writing
  <1>2. CASE handleRideStatus(w)
    <2>1. cur[w] # 0
      BY <1>2 DEF handleRideStatus, Busy
    <2>2. Working(w)
      BY <1>2, ReturnWorks DEF handleRideStatus, Return
    <2>3. PICK ok \in BOOLEAN :
              UpdateRideState(msg(w), cur[w], ok) \/ InsertRideEvent(msg(w), ok)
      BY <1>2 DEF handleRideStatus
    <2>4. CASE UpdateRideState(msg(w), cur[w], ok)
      <3>1. rows' = rows \/ (HasRow(msg(w).ride) /\ rows' = [rows EXCEPT ![msg(w).ride] = cur[w]])
        BY <2>4 DEF UpdateRideState, Exec
      <3> QED BY <3>1, <2>1, <2>2 DEF HasRow, Writing
    <2>5. CASE InsertRideEvent(msg(w), ok)
      BY <2>5, <2>1, <2>2 DEF InsertRideEvent, Writing
    <2> QED BY <2>3, <2>4, <2>5
  <1>3. CASE handleDriverStatus(w)
    <2>1. cur[w] # 0
      BY <1>3 DEF handleDriverStatus, Busy
    <2>2. Working(w)
      BY <1>3, ReturnWorks DEF handleDriverStatus, Return
    <2>3. PICK ok \in BOOLEAN : UpdateDriverState(msg(w), cur[w], ok)
      BY <1>3 DEF handleDriverStatus
    <2>4. rows' = rows \/ (HasRow(msg(w).driver) /\ rows' = [rows EXCEPT ![msg(w).driver] = cur[w]])
      BY <2>3 DEF UpdateDriverState, Exec
    <2> QED BY <2>1, <2>2, <2>4 DEF HasRow, Writing
  <1>4. CASE Sample(w)
    BY <1>4, ReturnWorks DEF Sample, Busy, Writing, dbVars
  <1>5. CASE InsertPoint(w)
    BY <1>5, ReturnWorks DEF InsertPoint, InsertDriverHistory, Return, Busy, Writing
  <1>6. CASE DropPoison(w)
    BY <1>6, ReturnWorks DEF DropPoison, Busy, Writing, dbVars
  <1> QED BY <1>1, <1>2, <1>3, <1>4, <1>5, <1>6 DEF Handle

LEMMA HandleStep ==
    ASSUME IInv, NEW w \in Workers, Handle(w)
    PROVE  IInv' /\ (~overlap' => \A k \in DOMAIN rows : rows'[k] >= rows[k])
  <1>1. rows \in [Rides \cup Drivers -> Int] /\ cur[w] \in Nat
    BY DEF IInv, ProofTypeOK
  <1>2. cur[w] # 0 /\ Working(w) /\ Writing(w)
    BY <1>1, HandleEffect
  <1>3. ProofTypeOK'
    <2>1. rows' \in [Rides \cup Drivers -> Int]
      BY <1>1, <1>2 DEF Writing
    <2>2. cur' \in [Workers -> Nat]
      BY <1>2 DEF Working, IInv, ProofTypeOK
    <2>3. committed' \in Nat \ {0}
      BY <1>1, <1>2 DEF Working, IInv, ProofTypeOK
    <2> QED BY <2>1, <2>2, <2>3, <1>2 DEF Working, IInv, ProofTypeOK, Offsets
  <1>4. ASSUME ~overlap
        PROVE  /\ OwnerWorks' /\ BeforeCommitted'
               /\ \A k \in DOMAIN rows : rows'[k] >= rows[k]
    <2>1. OwnerWorks /\ BeforeCommitted
      BY <1>4 DEF IInv
    <2>2. committed = cur[w] + 1
      BY <2>1, <1>2 DEF OwnerWorks
    <2>3. committed' = committed /\ UNCHANGED <<log, owner, pos, sessions>>
      BY <2>2, <1>2 DEF Working
    <2>4. \A v \in Workers : cur'[v] = cur[v] \/ cur'[v] = 0
      BY <1>2 DEF Working, IInv, ProofTypeOK
    <2>5. OwnerWorks'
      BY <2>1, <2>3, <2>4 DEF OwnerWorks
    <2>6. \A k \in Rides \cup Drivers : rows[k] <= cur[w] /\ rows[k] \in Int
      BY <2>1, <2>2, <1>1 DEF BeforeCommitted
    <2>7. \A k \in Rides \cup Drivers : rows'[k] = rows[k] \/ rows'[k] = cur[w]
      BY <1>1, <1>2 DEF Writing
    <2>8. \A k \in Rides \cup Drivers : rows'[k] < committed /\ rows'[k] >= rows[k]
      BY <2>2, <2>6, <2>7, <1>1
    <2>9. BeforeCommitted'
      BY <2>1, <2>3, <2>8 DEF BeforeCommitted, Offsets
    <2> QED BY <2>5, <2>8, <2>9, <1>1
  <1>5. overlap' = overlap
    BY <1>2 DEF Working
  <1> QED BY <1>3, <1>4, <1>5 DEF IInv

-----------------------------------------------------------------------------

LEMMA StepKeeps ==
    IInv /\ [Next]_vars => IInv' /\ [~overlap' => \A k \in DOMAIN rows : rows'[k] >= rows[k]]_vars
  <1> SUFFICES ASSUME IInv, [Next]_vars
               PROVE  IInv' /\ [~overlap' => \A k \in DOMAIN rows : rows'[k] >= rows[k]]_vars
    OBVIOUS
  <1>1. ASSUME rows' = rows PROVE ~overlap' => \A k \in DOMAIN rows : rows'[k] >= rows[k]
    BY <1>1 DEF IInv, ProofTypeOK
  <1>2. ASSUME NEW w \in Workers, Consume(w) PROVE IInv' /\ rows' = rows
    BY <1>2, AssignStep, ReadStep, ReadErrorStep DEF Consume, dbVars
  <1>3. ASSUME NEW w \in Workers, ProcessCrash(w) PROVE IInv' /\ rows' = rows
    BY <1>3, CrashStep DEF ProcessCrash, dbVars
  <1>4. ASSUME UNCHANGED <<consumerVars, dbVars>> PROVE IInv' /\ rows' = rows
    <2>1. /\ UNCHANGED <<log, committed, owner, pos, cur, overlap, sessions>>
          /\ rows' = rows
      BY <1>4 DEF consumerVars, brokerVars, workVars, fateVars, dbVars
    <2> QED BY <2>1 DEF IInv, ProofTypeOK, OwnerWorks, BeforeCommitted, Offsets
  <1>5. CASE Tick
    BY <1>1, <1>4, <1>5 DEF Tick
  <1>6. CASE UNCHANGED vars
    BY <1>4, <1>6 DEF vars
  <1> QED BY <1>1, <1>2, <1>3, <1>5, <1>6, HandleStep DEF Next

LEMMA InitHolds == Init => IInv
  <1> SUFFICES ASSUME Init PROVE IInv
    OBVIOUS
  <1>1. ProofTypeOK
    <2>1. rows \in [Rides \cup Drivers -> Int]
      BY DEF Init, Missing
    <2>2. sessions \in [Offsets -> Nat] /\ cur \in [Workers -> Nat]
      BY DEF Init, ConsumerInit
    <2>3. committed \in Nat \ {0} /\ pos \in Nat \ {0}
      BY DEF Init, ConsumerInit
    <2>4. log \in Logs /\ overlap \in BOOLEAN
      BY Zenon DEF Init, ConsumerInit
    <2> QED BY <2>1, <2>2, <2>3, <2>4 DEF ProofTypeOK
  <1>2. OwnerWorks
    BY DEF Init, ConsumerInit, OwnerWorks
  <1>3. BeforeCommitted
    <2>1. committed = 1 /\ pos = 1 /\ \A i \in Offsets : sessions[i] = 0
      BY DEF Init, ConsumerInit
    <2>2. \A k \in Rides \cup Drivers : rows[k] = -1 \/ rows[k] = 0
      BY DEF Init, Missing
    <2> QED BY <2>1, <2>2 DEF BeforeCommitted
  <1> QED BY <1>1, <1>2, <1>3 DEF IInv

LEMMA InvHolds == Spec => []IInv
  BY InitHolds, StepKeeps, PTL DEF Spec

\* No event is given to the handlers twice, however often processes crash and
\* the idle group is rebalanced, because ReadMessage commits first.
THEOREM AtMostOnce == Spec => []AtMostOneSession
  <1>1. IInv => AtMostOneSession
    BY DEF IInv, BeforeCommitted, AtMostOneSession
  <1> QED BY <1>1, InvHolds, PTL

\* UpdateRideState and UpdateDriverState need no guard of their own against an
\* older event while the partition stays with a working consumer.
THEOREM RowsMoveForward == Spec => NoStaleOverwrite
  BY InvHolds, StepKeeps, PTL DEF NoStaleOverwrite, Spec

-----------------------------------------------------------------------------
(* Types, and the points of driver_history.                                *)

\* A worker that goes on to insert a point has noted the time.
Noted(w) ==
    cur[w] # 0 /\ stage[w] = 2 /\ msg(w).kind = "driver-location" /\ msg(w).driver \in Drivers =>
        lastHistoryTs[w][msg(w).driver] # -1

\* The last point is the one noted, or the noted time is a window later.
Spaced(w, d) ==
    /\ lastHistoryTs[w][d] <= clock
    /\ \A t \in points[w][d] :
          /\ lastHistoryTs[w][d] # -1 /\ t <= lastHistoryTs[w][d]
          /\ t = lastHistoryTs[w][d] \/ lastHistoryTs[w][d] - t >= Window
    /\ \A s, t \in points[w][d] : s < t => t - s >= Window

\* The tables.
Tables ==
    /\ rows \in [Rides \cup Drivers -> Missing..Len(log)]
    /\ dispatches \subseteq Rides \X Drivers
    /\ history \subseteq Offsets
    /\ rideEvents \subseteq {log[i].id : i \in Offsets}

\* The noted times and the points.
SampleTypes ==
    /\ clock \in 0..MaxTime
    /\ lastHistoryTs \in [Workers -> [Drivers -> -1..MaxTime]]
    /\ points \in [Workers -> [Drivers -> SUBSET (0..MaxTime)]]

TInv ==
    /\ TypeOK
    /\ \A w \in Workers : Noted(w)
    /\ \A w \in Workers, d \in Drivers : Spaced(w, d)

LEMMA LogType ==
    ASSUME log \in Logs
    PROVE  /\ Len(log) \in Nat
           /\ \A i \in Offsets : log[i] \in Events
           /\ \A i, j \in Offsets : log[i].id = log[j].id => log[i] = log[j]
  BY EventAssumption DEF Offsets

LEMMA TypeParts ==
    /\ TypeOK => ConsumerTypeOK /\ Tables /\ SampleTypes
    /\ ConsumerTypeOK /\ Tables /\ SampleTypes => TypeOK
  <1>1. TypeOK => ConsumerTypeOK /\ Tables /\ SampleTypes
    BY DEF TypeOK, Tables, SampleTypes
  <1>2. ConsumerTypeOK => \A i \in Offsets : log[i] \in Events
    <2>1. ConsumerTypeOK => log \in Logs
      BY DEF ConsumerTypeOK
    <2> QED BY <2>1, LogType
  <1>3. ConsumerTypeOK /\ Tables /\ SampleTypes => TypeOK
    BY <1>2 DEF TypeOK, Tables, SampleTypes
  <1> QED BY <1>1, <1>3

\* What the types give the proofs below.
LEMMA TypeFacts ==
    ASSUME TInv
    PROVE  /\ ConsumerTypeOK /\ Tables /\ SampleTypes /\ log \in Logs
           /\ Len(log) \in Nat /\ pos \in 1..Len(log) + 1 /\ pos \in Nat
           /\ cur \in [Workers -> Nat] /\ \A w \in Workers : cur[w] # 0 => cur[w] \in Offsets
           /\ \A i \in Offsets : i \in Nat /\ i # 0
           /\ rows \in [Rides \cup Drivers -> Int] /\ DOMAIN rows = Rides \cup Drivers
  <1>1. ConsumerTypeOK /\ Tables /\ SampleTypes
    BY TypeParts DEF TInv
  <1>2. log \in Logs /\ Len(log) \in Nat
    BY <1>1, ConsumerAssumption DEF ConsumerTypeOK
  <1>3. pos \in 1..Len(log) + 1 /\ cur \in [Workers -> 0..Len(log)]
    BY <1>1 DEF ConsumerTypeOK
  <1>4. pos \in Nat /\ cur \in [Workers -> Nat] /\ \A w \in Workers : cur[w] # 0 => cur[w] \in Offsets
    BY <1>2, <1>3 DEF Offsets
  <1>5. \A i \in Offsets : i \in Nat /\ i # 0
    BY <1>2 DEF Offsets
  <1>6. rows \in [Rides \cup Drivers -> Int] /\ DOMAIN rows = Rides \cup Drivers
    BY <1>1, <1>2 DEF Tables, Missing
  <1> QED BY <1>1, <1>2, <1>3, <1>4, <1>5, <1>6

LEMMA SampleFacts ==
    ASSUME TInv
    PROVE  /\ clock \in 0..MaxTime /\ clock \in Nat
           /\ \A w \in Workers, d \in Drivers : lastHistoryTs[w][d] \in Int
  <1>1. SampleTypes
    BY TypeFacts
  <1> QED BY <1>1, EventAssumption DEF SampleTypes

\* Spaced and Noted are about one worker.
LEMMA SpacedFrame ==
    ASSUME NEW w \in Workers, NEW d \in Drivers, Spaced(w, d), TInv, clock' \in Nat, clock <= clock',
           lastHistoryTs'[w][d] = lastHistoryTs[w][d], points'[w][d] = points[w][d]
    PROVE  Spaced(w, d)'
  <1>1. lastHistoryTs[w][d] <= clock'
    BY SampleFacts DEF Spaced
  <1> QED BY <1>1 DEF Spaced

LEMMA NotedFrame ==
    ASSUME NEW w \in Workers, Noted(w), log' = log, lastHistoryTs'[w] = lastHistoryTs[w],
           (cur'[w] = cur[w] /\ stage'[w] = stage[w]) \/ cur'[w] = 0 \/ stage'[w] = 1
    PROVE  Noted(w)'
  <1>1. CASE cur'[w] = 0 \/ stage'[w] = 1
    <2>1. ~(cur'[w] # 0 /\ stage'[w] = 2)
      BY <1>1
    <2> QED BY <2>1 DEF Noted
  <1>2. CASE cur'[w] = cur[w] /\ stage'[w] = stage[w]
    <2>1. msg(w)' = msg(w)
      BY <1>2 DEF msg
    <2> QED BY <1>2, <2>1 DEF Noted
  <1> QED BY <1>1, <1>2

\* Assignment, reading and crashes keep the types of the consumer.
LEMMA ConsumeTypes ==
    ASSUME ConsumerTypeOK, NEW w \in Workers,
           Assign(w) \/ ReadMessage(w) \/ ReadError(w) \/ Crash(w)
    PROVE  ConsumerTypeOK' /\ log' = log
  <1> DEFINE n == Len(log)
  <1>1. n \in Nat /\ MaxRetries \in Nat /\ MaxRebalances \in Nat /\ MaxCrashes \in Nat
    BY ConsumerAssumption DEF ConsumerTypeOK
  <1>2. log' = log /\ Offsets' = Offsets
    BY DEF Assign, ReadMessage, ReadError, Crash, Offsets
  <1>3. CASE Assign(w)
    BY <1>1, <1>2, <1>3 DEF Assign, ConsumerTypeOK, workVars
  <1>4. CASE ReadMessage(w)
    <2>1. pos \in 1..n /\ pos \in Offsets
      BY <1>1, <1>4 DEF ReadMessage, ConsumerTypeOK, Offsets
    <2>2. sessions' \in [Offsets -> Nat]
      BY <1>4, <2>1 DEF ReadMessage, ConsumerTypeOK
    <2>3. /\ cur' \in [Workers -> 0..n] /\ stage' \in [Workers -> 1..2]
          /\ attempt' \in [Workers -> 0..MaxRetries]
      BY <1>1, <1>4, <2>1 DEF ReadMessage, ConsumerTypeOK
    <2>4. pos' \in 1..n + 1 /\ committed' \in 1..n + 1
      BY <1>1, <1>4, <2>1 DEF ReadMessage
    <2> QED BY <1>2, <1>4, <2>2, <2>3, <2>4 DEF ReadMessage, ConsumerTypeOK
  <1>5. CASE ReadError(w)
    <2>1. pos \in 1..n /\ pos \in Offsets
      BY <1>1, <1>5 DEF ReadError, ConsumerTypeOK, Offsets
    <2>2. pos' \in 1..n + 1 /\ committed' \in 1..n + 1
      BY <1>1, <1>5, <2>1 DEF ReadError, ConsumerTypeOK
    <2> QED BY <1>2, <1>5, <2>1, <2>2 DEF ReadError, ConsumerTypeOK, workVars
  <1>6. CASE Crash(w)
    <2>1. {cur[w]} \ {0} \subseteq Offsets
      BY <1>1 DEF ConsumerTypeOK, Offsets
    <2>2. cur' \in [Workers -> 0..n] /\ crashes' \in 0..MaxCrashes
      BY <1>1, <1>6 DEF Crash, ConsumerTypeOK
    <2> QED BY <1>2, <1>6, <2>1, <2>2 DEF Crash, ConsumerTypeOK
  <1> QED BY <1>3, <1>4, <1>5, <1>6

\* So does what happens when a handler returns.
LEMMA ReturnTypes ==
    ASSUME ConsumerTypeOK, NEW w \in Workers, cur[w] # 0,
           Succeed(w) \/ Retry(w) \/ NextStage(w)
    PROVE  ConsumerTypeOK' /\ log' = log
  <1> DEFINE n == Len(log)
  <1>1. n \in Nat /\ MaxRetries \in Nat
    BY ConsumerAssumption DEF ConsumerTypeOK
  <1>2. log' = log /\ Offsets' = Offsets
    BY DEF Succeed, Retry, NextStage, CommitMessages, brokerVars, Offsets
  <1>3. cur[w] \in Offsets /\ cur[w] \in 1..n
    BY <1>1 DEF ConsumerTypeOK, Offsets
  <1>4. ASSUME CommitMessages(w), dlq' \subseteq Offsets, lost' \subseteq Offsets PROVE ConsumerTypeOK'
    <2>1. cur' \in [Workers -> 0..n] /\ committed' \in 1..n + 1
      BY <1>1, <1>3, <1>4 DEF CommitMessages, ConsumerTypeOK
    <2> QED BY <1>2, <1>4, <2>1 DEF CommitMessages, ConsumerTypeOK
  <1>5. CASE Succeed(w)
    BY <1>2, <1>4, <1>5, Zenon DEF Succeed, ConsumerTypeOK
  <1>6. CASE Retry(w)
    <2>1. CASE attempt[w] < MaxRetries
      <3>1. attempt[w] \in 0..MaxRetries
        BY DEF ConsumerTypeOK
      <3>2. /\ attempt' = [attempt EXCEPT ![w] = attempt[w] + 1]
            /\ stage' = [stage EXCEPT ![w] = 1]
            /\ UNCHANGED <<brokerVars, cur, fateVars, crashes>>
        BY <1>1, <1>6, <2>1, <3>1 DEF Retry
      <3>3. attempt[w] + 1 \in 0..MaxRetries
        BY <1>1, <2>1, <3>1
      <3>4. attempt' \in [Workers -> 0..MaxRetries] /\ stage' \in [Workers -> 1..2]
        BY <3>2, <3>3 DEF ConsumerTypeOK
      <3> QED BY <1>2, <3>2, <3>4 DEF ConsumerTypeOK, brokerVars, fateVars
    <2>2. CASE attempt[w] = MaxRetries
      <3>1. CommitMessages(w) /\ dlq' \subseteq Offsets /\ lost' \subseteq Offsets
        BY <1>1, <1>3, <1>6, <2>2 DEF Retry, ConsumerTypeOK
      <3> QED BY <1>2, <1>4, <3>1
    <2> QED BY <1>6, <2>1, <2>2 DEF Retry
  <1>7. CASE NextStage(w)
    <2>1. stage' \in [Workers -> 1..2]
      BY <1>7 DEF NextStage, ConsumerTypeOK
    <2> QED BY <1>2, <1>7, <2>1 DEF NextStage, ConsumerTypeOK, brokerVars, fateVars
  <1> QED BY <1>5, <1>6, <1>7

\* When w goes on, its stage becomes 2; otherwise it is through with its
\* message or at stage 1 again.  The other workers are not concerned.
LEMMA ReturnStage ==
    ASSUME ConsumerTypeOK, NEW w \in Workers, cur[w] # 0
    PROVE  /\ Succeed(w) \/ Retry(w) => cur'[w] = 0 \/ (cur'[w] = cur[w] /\ stage'[w] = 1)
           /\ NextStage(w) => cur' = cur /\ stage'[w] = 2
           /\ Succeed(w) \/ Retry(w) \/ NextStage(w) =>
                 \A v \in Workers \ {w} : cur'[v] = cur[v] /\ stage'[v] = stage[v]
  <1>1. Succeed(w) => cur'[w] = 0 /\ \A v \in Workers \ {w} : cur'[v] = cur[v] /\ stage'[v] = stage[v]
    BY DEF Succeed, CommitMessages, ConsumerTypeOK
  <1>2. Retry(w) => /\ cur'[w] = 0 \/ (cur'[w] = cur[w] /\ stage'[w] = 1)
                    /\ \A v \in Workers \ {w} : cur'[v] = cur[v] /\ stage'[v] = stage[v]
    BY DEF Retry, CommitMessages, ConsumerTypeOK
  <1>3. NextStage(w) => /\ cur' = cur /\ stage'[w] = 2
                        /\ \A v \in Workers \ {w} : cur'[v] = cur[v] /\ stage'[v] = stage[v]
    BY DEF NextStage, ConsumerTypeOK
  <1> QED BY <1>1, <1>2, <1>3

\* Every handler ends in one of the three ways.
LEMMA HandleReturns ==
    ASSUME NEW w \in Workers, Handle(w)
    PROVE  cur[w] # 0 /\ (Succeed(w) \/ Retry(w) \/ NextStage(w))
  BY DEF Handle, handleDispatchCreated, handleRideStatus, handleDriverStatus, Sample, InsertPoint, DropPoison,
         Busy, Return

LEMMA HandleTables ==
    ASSUME TypeOK, NEW w \in Workers, Handle(w)
    PROVE  Tables'
  <1>1. /\ ConsumerTypeOK /\ Tables /\ cur[w] # 0
    BY HandleReturns DEF TypeOK, Tables
  <1>2. log' = log /\ Offsets' = Offsets
    BY <1>1, HandleReturns, ReturnTypes DEF Offsets
  <1>3. cur[w] \in Offsets /\ cur[w] \in Missing..Len(log) /\ msg(w) \in Events
    BY <1>1, LogType DEF ConsumerTypeOK, Offsets, msg, Missing
  <1>4. rows' \in [Rides \cup Drivers -> Missing..Len(log)]
    <2>1. rows \in [Rides \cup Drivers -> Missing..Len(log)]
      BY <1>1 DEF Tables
    <2>2. Writing(w)
      BY <2>1, HandleEffect
    <2> QED BY <2>1, <2>2, <1>3 DEF Writing
  <1>5. dispatches' \subseteq Rides \X Drivers
    <2>1. CASE handleDispatchCreated(w)
      <3>1. PICK ok \in BOOLEAN : InsertDispatch(msg(w), ok)
        BY <2>1 DEF handleDispatchCreated
      <3>2. \/ dispatches' = dispatches
            \/ /\ HasRow(msg(w).ride) /\ HasRow(msg(w).driver)
               /\ dispatches' = dispatches \cup {<<msg(w).ride, msg(w).driver>>}
        BY <3>1 DEF InsertDispatch, Exec
      <3>3. ASSUME HasRow(msg(w).ride), HasRow(msg(w).driver)
            PROVE  msg(w).ride \in Rides /\ msg(w).driver \in Drivers
        BY <1>1, <1>3, <3>3, EventAssumption DEF HasRow, Events, Tables
      <3> QED BY <1>1, <3>2, <3>3 DEF Tables
    <2>2. CASE ~handleDispatchCreated(w)
      BY <1>1, <2>2, Zenon DEF Handle, handleRideStatus, handleDriverStatus, Sample, InsertPoint, DropPoison,
                        UpdateRideState, InsertRideEvent, UpdateDriverState, InsertDriverHistory, dbVars, Tables
    <2> QED BY <2>1, <2>2
  <1>6. history' \subseteq Offsets
    <2>1. history' = history \/ history' = history \cup {cur[w]}
      BY DEF Handle, handleDispatchCreated, handleRideStatus, handleDriverStatus, Sample, InsertPoint, DropPoison,
             InsertDispatch, UpdateRideState, InsertRideEvent, UpdateDriverState, InsertDriverHistory, dbVars, Exec
    <2> QED BY <1>1, <1>3, <2>1 DEF Tables
  <1>7. rideEvents' \subseteq {log[i].id : i \in Offsets}
    <2>1. rideEvents' = rideEvents \/ rideEvents' = rideEvents \cup {log[cur[w]].id}
      BY Zenon DEF Handle, handleDispatchCreated, handleRideStatus, handleDriverStatus, Sample, InsertPoint, DropPoison,
             InsertDispatch, UpdateRideState, InsertRideEvent, UpdateDriverState, InsertDriverHistory, dbVars, Exec,
             msg
    <2> QED BY <1>1, <1>3, <2>1 DEF Tables
  <1> QED BY <1>2, <1>4, <1>5, <1>6, <1>7 DEF Tables

LEMMA NotedAfter ==
    ASSUME ConsumerTypeOK, NEW w \in Workers, Handle(w), Noted(w)',
           \A v \in Workers : Noted(v),
           \A v \in Workers \ {w} : lastHistoryTs'[v] = lastHistoryTs[v]
    PROVE  \A v \in Workers : Noted(v)'
  <1>1. log' = log
    BY HandleReturns, ReturnTypes
  <1>2. \A v \in Workers \ {w} : cur'[v] = cur[v] /\ stage'[v] = stage[v]
    BY HandleReturns, ReturnStage
  <1> QED BY <1>1, <1>2 DEF Noted, msg

LEMMA SampleKeeps ==
    ASSUME TInv, NEW w \in Workers, Sample(w)
    PROVE  /\ SampleTypes'
           /\ \A v \in Workers : Noted(v)'
           /\ \A v \in Workers, d \in Drivers : Spaced(v, d)'
  <1>1. /\ ConsumerTypeOK /\ SampleTypes /\ cur[w] # 0 /\ Handle(w)
        /\ clock' = clock /\ points' = points
    BY Zenon DEF TInv, TypeOK, SampleTypes, Sample, Busy, Handle
  <1> DEFINE e == msg(w).driver
  <1>2. CASE Succeed(w) /\ lastHistoryTs' = lastHistoryTs
    <2>1. SampleTypes' /\ \A v \in Workers, d \in Drivers : Spaced(v, d)'
      BY <1>1, <1>2 DEF TInv, SampleTypes, Spaced
    <2>2. cur'[w] = 0
      BY <1>1, <1>2 DEF Succeed, CommitMessages, ConsumerTypeOK
    <2>3. \A v \in Workers : Noted(v)'
      BY <1>1, <1>2, <2>2, NotedAfter, Zenon DEF Noted, TInv
    <2> QED BY <2>1, <2>3
  <1>3. CASE /\ ~Recent(w, e) /\ NextStage(w)
             /\ lastHistoryTs' = [lastHistoryTs EXCEPT ![w][e] = clock]
    <2>1. \A v \in Workers, d \in Drivers :
             lastHistoryTs'[v][d] = IF v = w /\ d = e THEN clock ELSE lastHistoryTs[v][d]
      BY <1>1, <1>3 DEF SampleTypes
    <2>2. SampleTypes'
      <3>1. clock \in -1..MaxTime
        BY <1>1, EventAssumption DEF SampleTypes
      <3> QED BY <1>1, <1>3, <3>1, Zenon DEF SampleTypes
    <2>3. ASSUME NEW v \in Workers, NEW d \in Drivers PROVE Spaced(v, d)'
      <3>1. Spaced(v, d)
        BY DEF TInv
      <3>2. CASE ~(v = w /\ d = e)
        BY <1>1, <2>1, <3>1, <3>2 DEF Spaced
      <3>3. CASE v = w /\ d = e
        <4>1. lastHistoryTs'[v][d] = clock /\ points'[v][d] = points[v][d]
          BY <1>1, <2>1, <3>3
        <4>2. /\ clock \in Nat /\ lastHistoryTs[v][d] \in Int /\ Window \in Nat
              /\ \A t \in points[v][d] : t \in Nat
          BY <1>1, EventAssumption DEF SampleTypes
        <4>3. lastHistoryTs[v][d] = -1 \/ clock - lastHistoryTs[v][d] >= Window
          BY <1>3, <3>3, <4>2 DEF Recent
        <4>4. \A t \in points[v][d] : t <= clock /\ clock - t >= Window
          BY <3>1, <4>2, <4>3 DEF Spaced
        <4>5. \A t1, t2 \in points[v][d] : t1 < t2 => t2 - t1 >= Window
          BY <3>1 DEF Spaced
        <4>6. clock # -1 /\ clock <= clock
          BY <4>2
        <4> QED BY <1>1, <4>1, <4>4, <4>5, <4>6 DEF Spaced
      <3> QED BY <3>2, <3>3
    <2>4. Noted(w)'
      <3>1. msg(w)' = msg(w)
        BY <1>3 DEF NextStage, brokerVars, msg
      <3> QED BY <1>1, <2>1, <3>1, EventAssumption DEF Noted, SampleTypes
    <2>5. \A v \in Workers : Noted(v)'
      BY <1>1, <1>3, <2>4, NotedAfter DEF TInv, SampleTypes
    <2> QED BY <2>2, <2>3, <2>5
  <1> QED BY <1>2, <1>3 DEF Sample

LEMMA InsertPointKeeps ==
    ASSUME TInv, NEW w \in Workers, InsertPoint(w)
    PROVE  /\ SampleTypes'
           /\ \A v \in Workers : Noted(v)'
           /\ \A v \in Workers, d \in Drivers : Spaced(v, d)'
  <1> DEFINE e == msg(w).driver
  <1>1. /\ ConsumerTypeOK /\ SampleTypes /\ cur[w] # 0 /\ Handle(w)
        /\ clock' = clock /\ lastHistoryTs' = lastHistoryTs
        /\ points' = points \/ (HasRow(e) /\ points' = [points EXCEPT ![w][e] = @ \cup {lastHistoryTs[w][e]}])
    BY Zenon DEF TInv, TypeOK, SampleTypes, InsertPoint, Busy, Handle
  <1>2. Noted(w)'
    <2>1. cur'[w] = 0 \/ (cur'[w] = cur[w] /\ stage'[w] = 1)
      BY <1>1, ReturnStage DEF InsertPoint, Return
    <2> QED BY <2>1 DEF Noted
  <1>3. \A v \in Workers : Noted(v)'
    BY <1>1, <1>2, NotedAfter DEF TInv
  <1>4. CASE points' = points
    <2>1. SampleTypes' /\ \A v \in Workers, d \in Drivers : Spaced(v, d)'
      BY <1>1, <1>4 DEF TInv, SampleTypes, Spaced
    <2> QED BY <1>3, <2>1
  <1>5. CASE HasRow(e) /\ points' = [points EXCEPT ![w][e] = @ \cup {lastHistoryTs[w][e]}]
    <2>1. e \in Drivers
      <3>1. cur[w] \in Offsets /\ msg(w) \in Events
        BY <1>1, TypeFacts, LogType DEF msg
      <3>2. DOMAIN rows = Rides \cup Drivers
        BY TypeFacts
      <3> QED BY <1>5, <3>1, <3>2, EventAssumption DEF HasRow, Events
    <2>2. lastHistoryTs[w][e] # -1
      BY <1>1, <2>1 DEF TInv, Noted, InsertPoint, Busy
    <2>3. lastHistoryTs[w][e] \in 0..MaxTime
      BY <1>1, <2>1, <2>2, EventAssumption DEF SampleTypes
    <2>4. \A v \in Workers, d \in Drivers :
             points'[v][d] = IF v = w /\ d = e THEN points[v][d] \cup {lastHistoryTs[v][d]} ELSE points[v][d]
      BY <1>1, <1>5, Zenon DEF SampleTypes
    <2>5. SampleTypes'
      BY <1>1, <1>5, <2>1, <2>3 DEF SampleTypes
    <2>6. ASSUME NEW v \in Workers, NEW d \in Drivers PROVE Spaced(v, d)'
      <3>1. Spaced(v, d)
        BY DEF TInv
      <3>2. CASE ~(v = w /\ d = e)
        BY <1>1, <2>4, <3>1, <3>2, Zenon DEF Spaced
      <3>3. CASE v = w /\ d = e
        <4>1. points'[v][d] = points[v][d] \cup {lastHistoryTs[v][d]} /\ lastHistoryTs'[v][d] = lastHistoryTs[v][d]
          BY <1>1, <2>4, <3>3, Zenon
        <4>2. /\ clock \in Nat /\ lastHistoryTs[v][d] \in Nat /\ Window \in Nat
              /\ \A t \in points[v][d] : t \in Nat
          BY <1>1, <2>3, <3>3, EventAssumption DEF SampleTypes
        <4> DEFINE h == lastHistoryTs[v][d]
        <4>3. \A t \in points[v][d] : t <= h /\ (t = h \/ h - t >= Window)
          BY <3>1 DEF Spaced
        <4>4. \A t1, t2 \in points[v][d] : t1 < t2 => t2 - t1 >= Window
          BY <3>1 DEF Spaced
        <4>5. lastHistoryTs[v][d] <= clock /\ lastHistoryTs[v][d] # -1
          BY <3>1, <4>2 DEF Spaced
        <4> HIDE DEF h
        <4>6. \A t \in points'[v][d] : t <= h /\ (t = h \/ h - t >= Window)
          BY <4>1, <4>2, <4>3 DEF h
        <4>7. \A t1, t2 \in points'[v][d] : t1 < t2 => t2 - t1 >= Window
          <5> SUFFICES ASSUME NEW t1, NEW t2, t1 \in points[v][d] \cup {h}, t2 \in points[v][d] \cup {h}, t1 < t2
                       PROVE  t2 - t1 >= Window
            BY <4>1 DEF h
          <5>1. CASE t1 = h
            BY <4>2, <4>3, <5>1 DEF h
          <5>2. CASE t1 \in points[v][d] /\ t2 = h
            BY <4>2, <4>3, <5>2 DEF h
          <5>3. CASE t1 \in points[v][d] /\ t2 \in points[v][d]
            BY <4>4, <5>3
          <5> QED BY <5>1, <5>2, <5>3
        <4> QED BY <1>1, <4>1, <4>5, <4>6, <4>7 DEF Spaced, h
      <3> QED BY <3>2, <3>3
    <2> QED BY <1>3, <2>5, <2>6
  <1> QED BY <1>1, <1>4, <1>5

\* The other handlers leave the samples alone.
LEMMA OtherKeeps ==
    ASSUME TInv, NEW w \in Workers, Handle(w), UNCHANGED <<clock, sampleVars>>,
           msg(w).kind # "driver-location"
    PROVE  /\ SampleTypes'
           /\ \A v \in Workers : Noted(v)'
           /\ \A v \in Workers, d \in Drivers : Spaced(v, d)'
  <1>1. ConsumerTypeOK /\ SampleTypes /\ UNCHANGED <<clock, lastHistoryTs, points>>
    BY DEF TInv, TypeOK, SampleTypes, sampleVars
  <1>2. SampleTypes' /\ \A v \in Workers, d \in Drivers : Spaced(v, d)'
    BY <1>1 DEF TInv, SampleTypes, Spaced
  <1>3. Noted(w)'
    <2>1. cur'[w] = 0 \/ cur'[w] = cur[w]
      BY <1>1, HandleReturns, ReturnStage
    <2>2. log' = log
      BY <1>1, HandleReturns, ReturnTypes
    <2> QED BY <2>1, <2>2 DEF Noted, msg
  <1>4. \A v \in Workers : Noted(v)'
    BY <1>1, <1>3, NotedAfter DEF TInv
  <1> QED BY <1>2, <1>4

LEMMA HandleTypes ==
    ASSUME TInv, NEW w \in Workers, Handle(w)
    PROVE  TInv'
  <1>1. ConsumerTypeOK' /\ log' = log
    BY HandleReturns, ReturnTypes DEF TInv, TypeOK
  <1>2. Tables'
    BY HandleTables DEF TInv
  <1>3. \A i \in Offsets' : log'[i] \in Events
    BY <1>1, LogType DEF TInv, TypeOK, ConsumerTypeOK, Offsets
  <1>4. /\ SampleTypes'
        /\ \A v \in Workers : Noted(v)'
        /\ \A v \in Workers, d \in Drivers : Spaced(v, d)'
    <2>1. CASE Sample(w)
      BY <2>1, SampleKeeps
    <2>2. CASE InsertPoint(w)
      BY <2>2, InsertPointKeeps
    <2>3. CASE handleDispatchCreated(w) \/ handleRideStatus(w) \/ handleDriverStatus(w) \/ DropPoison(w)
      <3>1. UNCHANGED <<clock, sampleVars>> /\ msg(w).kind # "driver-location"
        BY <2>3 DEF handleDispatchCreated, handleRideStatus, handleDriverStatus, DropPoison, Busy
      <3> QED BY <3>1, OtherKeeps
    <2> QED BY <2>1, <2>2, <2>3 DEF Handle
  <1> QED BY <1>1, <1>2, <1>3, <1>4 DEF TInv, TypeOK, Tables, SampleTypes

LEMMA ConsumeKeepsTypes ==
    ASSUME TInv, NEW w \in Workers, Consume(w)
    PROVE  TInv'
  <1>1. ConsumerTypeOK' /\ log' = log /\ Offsets' = Offsets
    BY ConsumeTypes DEF TInv, TypeOK, Consume, Offsets
  <1>2. UNCHANGED <<rows, rideEvents, dispatches, history, clock, lastHistoryTs, points>>
    BY DEF Consume, dbVars, sampleVars
  <1>3. TypeOK'
    BY <1>1, <1>2, Zenon DEF TInv, TypeOK
  <1>4. \A v \in Workers, d \in Drivers : Spaced(v, d)'
    <2>1. clock' \in Nat /\ clock <= clock'
      BY <1>2, SampleFacts
    <2> QED BY <1>2, <2>1, SpacedFrame DEF TInv
  <1>5. ASSUME NEW v \in Workers PROVE Noted(v)'
    <2>1. (cur'[v] = cur[v] /\ stage'[v] = stage[v]) \/ stage'[v] = 1
      BY DEF Consume, Assign, ReadMessage, ReadError, workVars, TInv, TypeOK, ConsumerTypeOK
    <2>2. Noted(v)
      BY DEF TInv
    <2> QED BY <1>1, <1>2, <2>1, <2>2, NotedFrame
  <1> QED BY <1>3, <1>4, <1>5 DEF TInv

LEMMA CrashTypes ==
    ASSUME TInv, NEW w \in Workers, ProcessCrash(w)
    PROVE  TInv'
  <1>1. ConsumerTypeOK' /\ log' = log /\ Offsets' = Offsets
    BY ConsumeTypes, Zenon DEF TInv, TypeOK, ProcessCrash, Offsets
  <1>2. /\ UNCHANGED <<rows, rideEvents, dispatches, history, clock>>
        /\ lastHistoryTs' = [lastHistoryTs EXCEPT ![w] = [d \in Drivers |-> -1]]
        /\ points' = [points EXCEPT ![w] = [d \in Drivers |-> {}]]
    BY DEF ProcessCrash, dbVars
  <1>3. SampleTypes
    BY DEF TInv, TypeOK, SampleTypes
  <1>4. SampleTypes'
    <2>1. [d \in Drivers |-> -1] \in [Drivers -> -1..MaxTime]
      <3>1. -1 \in -1..MaxTime
        BY EventAssumption
      <3> QED BY <3>1
    <2>2. [d \in Drivers |-> {}] \in [Drivers -> SUBSET (0..MaxTime)]
      OBVIOUS
    <2> QED BY <1>2, <1>3, <2>1, <2>2 DEF SampleTypes
  <1>5. TypeOK'
    <2>1. Tables'
      BY <1>1, <1>2, TypeFacts DEF Tables
    <2> QED BY <1>1, <1>4, <2>1, TypeParts, PTL
  <1>6. ASSUME NEW v \in Workers, NEW d \in Drivers PROVE Spaced(v, d)'
    <2>1. CASE v # w
      <3>1. lastHistoryTs'[v] = lastHistoryTs[v] /\ points'[v] = points[v] /\ clock' = clock
        BY <1>2, <1>3, <2>1 DEF SampleTypes
      <3>2. clock' \in Nat /\ clock <= clock'
        BY <3>1, SampleFacts
      <3> QED BY <3>1, <3>2, SpacedFrame DEF TInv
    <2>2. CASE v = w
      <3>1. lastHistoryTs'[v][d] = -1 /\ points'[v][d] = {}
        BY <1>2, <1>3, <2>2 DEF SampleTypes
      <3>2. -1 <= clock'
        BY <1>2, SampleFacts
      <3> QED BY <3>1, <3>2 DEF Spaced
    <2> QED BY <2>1, <2>2
  <1>7. ASSUME NEW v \in Workers PROVE Noted(v)'
    <2>1. CASE v # w
      <3>1. lastHistoryTs'[v] = lastHistoryTs[v]
        BY <1>2, <1>3, <2>1 DEF SampleTypes
      <3>2. cur'[v] = cur[v] /\ stage'[v] = stage[v]
        BY <2>1, TypeFacts DEF ProcessCrash, Crash
      <3> QED BY <1>1, <3>1, <3>2, NotedFrame DEF TInv
    <2>2. CASE v = w
      <3>1. cur'[v] = 0
        BY <2>2, TypeFacts DEF ProcessCrash, Crash
      <3> QED BY <3>1 DEF Noted
    <2> QED BY <2>1, <2>2
  <1> QED BY <1>5, <1>6, <1>7 DEF TInv

LEMMA TypesHold == Spec => []TInv
  <1>1. ASSUME Init PROVE TInv
    <2>1. ConsumerTypeOK
      <3>1. log \in Logs /\ Len(log) \in Nat
        BY <1>1, ConsumerAssumption DEF Init, ConsumerInit
      <3>2. /\ 0 \in 0..Len(log) /\ 1 \in 1..2 /\ 0 \in 0..MaxRetries /\ 1 \in 1..Len(log) + 1
            /\ 0 \in 0..MaxRebalances /\ 0 \in 0..MaxCrashes
        BY <3>1, ConsumerAssumption
      <3>3. /\ cur \in [Workers -> 0..Len(log)] /\ stage \in [Workers -> 1..2]
            /\ attempt \in [Workers -> 0..MaxRetries] /\ sessions \in [Offsets -> Nat]
        BY <1>1, <3>2 DEF Init, ConsumerInit
      <3> QED BY <1>1, <3>1, <3>2, <3>3, Zenon DEF Init, ConsumerInit, ConsumerTypeOK
    <2>2. \A i \in Offsets : log[i] \in Events
      BY <2>1, LogType DEF ConsumerTypeOK
    <2>3. rows \in [Rides \cup Drivers -> Missing..Len(log)]
      <3>1. Missing \in Missing..Len(log) /\ 0 \in Missing..Len(log)
        BY <2>1, ConsumerAssumption DEF ConsumerTypeOK, Missing
      <3> QED BY <1>1, <3>1 DEF Init
    <2>4. SampleTypes
      <3>1. -1 \in -1..MaxTime /\ 0 \in 0..MaxTime
        BY EventAssumption
      <3> QED BY <1>1, <3>1 DEF Init, SampleTypes
    <2>5. TypeOK
      BY <1>1, <2>1, <2>2, <2>3, <2>4 DEF Init, TypeOK, SampleTypes
    <2>6. ASSUME NEW w \in Workers PROVE Noted(w) /\ \A d \in Drivers : Spaced(w, d)
      <3>1. cur[w] = 0 /\ clock = 0
        BY <1>1 DEF Init, ConsumerInit
      <3>2. \A d \in Drivers : lastHistoryTs[w][d] = -1 /\ points[w][d] = {}
        BY <1>1 DEF Init
      <3>3. Noted(w)
        BY <3>1 DEF Noted
      <3>4. \A d \in Drivers : Spaced(w, d)
        BY <3>1, <3>2 DEF Spaced
      <3> QED BY <3>3, <3>4
    <2> QED BY <2>5, <2>6 DEF TInv
  <1>2. TInv /\ [Next]_vars => TInv'
    <2> SUFFICES ASSUME TInv, [Next]_vars PROVE TInv'
      OBVIOUS
    <2>1. ASSUME Tick PROVE TInv'
      <3>1. /\ clock' = clock + 1 /\ clock < MaxTime
            /\ UNCHANGED <<log, committed, owner, pos, rebalances, cur, stage, attempt, dlq, lost, sessions,
                           overlap, crashes, rows, rideEvents, dispatches, history, lastHistoryTs, points>>
        BY <2>1 DEF Tick, consumerVars, brokerVars, workVars, fateVars, dbVars, sampleVars
      <3>2. ConsumerTypeOK'
        BY <3>1, TypeFacts DEF ConsumerTypeOK, Offsets
      <3>3. Tables'
        BY <3>1, TypeFacts DEF Tables, Offsets
      <3>4. SampleTypes'
        <4>1. clock' = clock + 1 /\ clock < MaxTime
          BY <3>1
        <4>2. clock \in Nat /\ MaxTime \in Nat
          BY SampleFacts, EventAssumption
        <4>3. clock' \in 0..MaxTime
          BY <4>1, <4>2
        <4> QED BY <3>1, <4>3, TypeFacts DEF SampleTypes
      <3>5. \A w \in Workers : Noted(w)'
        BY <3>1, NotedFrame DEF TInv
      <3>6. \A w \in Workers, d \in Drivers : Spaced(w, d)'
        <4>1. clock' = clock + 1
          BY <3>1
        <4>2. clock' \in Nat /\ clock <= clock'
          BY <4>1, SampleFacts
        <4> QED BY <3>1, <4>2, SpacedFrame DEF TInv
      <3>7. TypeOK'
        BY <3>2, <3>3, <3>4, TypeParts, PTL
      <3> QED BY <3>5, <3>6, <3>7 DEF TInv
    <2>2. ASSUME UNCHANGED vars PROVE TInv'
      <3>1. UNCHANGED <<log, committed, owner, pos, rebalances, cur, stage, attempt, dlq, lost, sessions, overlap,
                        crashes, rows, rideEvents, dispatches, history, clock, lastHistoryTs, points>>
        BY <2>2 DEF vars, consumerVars, brokerVars, workVars, fateVars, dbVars, sampleVars
      <3>2. ConsumerTypeOK' /\ Tables' /\ SampleTypes'
        <4>1. ConsumerTypeOK'
          BY <3>1, TypeFacts DEF ConsumerTypeOK, Offsets
        <4>2. Tables' /\ SampleTypes'
          BY <3>1, TypeFacts DEF Tables, SampleTypes, Offsets
        <4> QED BY <4>1, <4>2
      <3>3. \A w \in Workers : Noted(w)'
        BY <3>1, NotedFrame DEF TInv
      <3>4. \A w \in Workers, d \in Drivers : Spaced(w, d)'
        <4>1. clock' \in Nat /\ clock <= clock'
          BY <3>1, SampleFacts
        <4> QED BY <3>1, <4>1, SpacedFrame DEF TInv
      <3>5. TypeOK'
        BY <3>2, TypeParts, PTL
      <3> QED BY <3>3, <3>4, <3>5 DEF TInv
    <2> QED BY <2>1, <2>2, ConsumeKeepsTypes, HandleTypes, CrashTypes DEF Next
  <1> QED BY <1>1, <1>2, PTL DEF Spec

\* Every variable of the consumer, the tables and the samples has its type: the
\* offsets stay within the log, the retries within MaxRetries, and a dispatch
\* that is inserted names a ride and a driver.
THEOREM ProcessorTypes == Spec => []TypeOK
  BY TypesHold, PTL DEF TInv

\* handleDriverLocation inserts at most one point of a driver per window,
\* although it notes the time before the insert, which may fail and be retried.
THEOREM PointsAreSpaced == Spec => []Downsampled
  <1>1. TInv => Downsampled
    BY DEF TInv, Spaced, Downsampled
  <1> QED BY <1>1, TypesHold, PTL

-----------------------------------------------------------------------------
(* What was read leaves a trace, and what was logged was applied.          *)

\* A ride that is about to be logged was updated.
Applied(w) ==
    cur[w] # 0 /\ stage[w] = 2 /\ msg(w).kind = "ride-status" /\ HasRow(msg(w).ride) =>
        rows[msg(w).ride] >= cur[w]

Logged(i) ==
    log[i].kind = "ride-status" /\ log[i].id \in rideEvents =>
        /\ HasRow(log[i].ride)
        /\ \E j \in Offsets : log[j].id = log[i].id /\ rows[log[i].ride] >= j

PInv ==
    /\ ReadIsPersisted
    /\ ~overlap => /\ \A w \in Workers : Applied(w)
                   /\ \A i \in Offsets : Logged(i)

\* Tables, dead letters and losses only grow; no statement creates a row.
Grows ==
    /\ log' = log /\ (overlap => overlap')
    /\ dispatches \subseteq dispatches' /\ rideEvents \subseteq rideEvents'
    /\ dlq \subseteq dlq' /\ lost \subseteq lost'
    /\ rows' \in [Rides \cup Drivers -> Int]
    /\ \A k : HasRow(k)' <=> HasRow(k)
    /\ ~overlap' => \A k \in Rides \cup Drivers : rows'[k] >= rows[k]

LEMMA SameRowsGrow ==
    ASSUME TInv, rows' = rows
    PROVE  /\ rows' \in [Rides \cup Drivers -> Int]
           /\ \A k : HasRow(k)' <=> HasRow(k)
           /\ \A k \in Rides \cup Drivers : rows'[k] >= rows[k]
  <1>1. rows \in [Rides \cup Drivers -> Int]
    BY TypeFacts
  <1> QED BY <1>1 DEF HasRow

LEMMA HandleGrows ==
    ASSUME TInv, IInv, NEW w \in Workers, Handle(w)
    PROVE  Grows
  <1>1. /\ rows \in [Rides \cup Drivers -> Int] /\ cur[w] \in Nat
        /\ cur[w] # 0 /\ Working(w) /\ Writing(w)
    BY HandleEffect DEF IInv, ProofTypeOK
  <1>2. \A k : HasRow(k)' <=> HasRow(k)
    BY <1>1 DEF Writing, HasRow, Missing
  <1>3. ~overlap' => \A k \in Rides \cup Drivers : rows'[k] >= rows[k]
    BY <1>1, HandleStep
  <1>4. dispatches \subseteq dispatches' /\ rideEvents \subseteq rideEvents'
    BY Zenon DEF Handle, handleDispatchCreated, handleRideStatus, handleDriverStatus, Sample, InsertPoint, DropPoison,
           InsertDispatch, UpdateRideState, InsertRideEvent, UpdateDriverState, InsertDriverHistory, dbVars, Exec
  <1>5. dlq \subseteq dlq' /\ lost \subseteq lost'
    BY HandleReturns DEF Succeed, Retry, NextStage, fateVars
  <1>6. rows' \in [Rides \cup Drivers -> Int]
    BY <1>1 DEF Writing
  <1> QED BY <1>1, <1>2, <1>3, <1>4, <1>5, <1>6 DEF Grows, Working

LEMMA ConsumeGrows ==
    ASSUME TInv, NEW w \in Workers, Consume(w) \/ ProcessCrash(w)
    PROVE  Grows
  <1>1. UNCHANGED <<log, rows, dispatches, rideEvents>>
    BY DEF Consume, ProcessCrash, dbVars, Assign, ReadMessage, ReadError, Crash
  <1>2. dlq \subseteq dlq' /\ lost \subseteq lost'
    BY DEF Consume, ProcessCrash, Assign, ReadMessage, ReadError, Crash
  <1>3. overlap => overlap'
    BY Zenon DEF Consume, ProcessCrash, Assign, ReadMessage, ReadError, Crash
  <1> QED BY <1>1, <1>2, <1>3, SameRowsGrow DEF Grows

LEMMA PersistedStays ==
    ASSUME TInv, Grows, ~overlap', NEW i \in Offsets, Persisted(i)
    PROVE  Persisted(i)'
  <1>1. i \in Int /\ \A k \in Rides \cup Drivers : rows[k] \in Int
    BY TypeFacts
  <1>2. DOMAIN rows = Rides \cup Drivers
    BY TypeFacts
  <1>3. CASE log[i].kind = "driver-status"
    <2>1. PICK k : k = log[i].driver
      OBVIOUS
    <2>2. HasRow(k) => rows[k] >= i
      BY <1>3, <2>1 DEF Persisted
    <2>3. HasRow(k)' => HasRow(k)
      BY DEF Grows
    <2>4. HasRow(k) => rows'[k] >= rows[k] /\ rows[k] \in Int /\ rows'[k] \in Int
      BY <1>1, <1>2 DEF Grows, HasRow
    <2>5. HasRow(k)' => rows'[k] >= i
      BY <1>1, <2>2, <2>3, <2>4
    <2> QED BY <1>3, <2>1, <2>5, Zenon DEF Persisted, Grows
  <1>4. CASE log[i].kind # "driver-status"
    BY <1>4 DEF Persisted, Grows
  <1> QED BY <1>3, <1>4

\* When a handler is through with an event, the event has left its trace.
LEMMA HandleFinishes ==
    ASSUME TInv, NEW w \in Workers, Handle(w), NEW i \in Offsets, i = cur[w]
    PROVE  cur' = cur \/ Persisted(i)' \/ i \in dlq' \cup lost'
  <1>1. Retry(w) \/ NextStage(w) => cur' = cur \/ i \in dlq' \cup lost'
    BY DEF Retry, NextStage
  <1>2. log' = log /\ cur[w] # 0 /\ msg(w) = log[i]
    BY HandleReturns, ReturnTypes DEF TInv, TypeOK, msg
  <1>3. CASE handleDispatchCreated(w)
    <2>1. PICK ok \in BOOLEAN : InsertDispatch(msg(w), ok) /\ Return(w, ok)
      BY <1>3 DEF handleDispatchCreated
    <2>2. ok => Persisted(i)'
      BY <1>2, <1>3, <2>1, Zenon DEF handleDispatchCreated, Busy, InsertDispatch, Exec, Persisted
    <2> QED BY <1>1, <2>1, <2>2 DEF Return
  <1>4. CASE handleRideStatus(w)
    <2>1. PICK ok \in BOOLEAN : \/ IF ok THEN NextStage(w) ELSE Retry(w)
                                \/ InsertRideEvent(msg(w), ok) /\ Return(w, ok)
      BY <1>4 DEF handleRideStatus
    <2>2. InsertRideEvent(msg(w), ok) /\ ok => Persisted(i)'
      BY <1>2, <1>4, Zenon DEF handleRideStatus, Busy, InsertRideEvent, Exec, Persisted
    <2> QED BY <1>1, <2>1, <2>2 DEF Return
  <1>5. CASE handleDriverStatus(w)
    <2>1. PICK ok \in BOOLEAN : UpdateDriverState(msg(w), cur[w], ok) /\ Return(w, ok)
      BY <1>5 DEF handleDriverStatus
    <2>2. ASSUME ok PROVE Persisted(i)'
      <3> DEFINE k == log[i].driver
      <3>1. rows' = IF HasRow(k) THEN [rows EXCEPT ![k] = i] ELSE rows
        BY <1>2, <2>1, <2>2 DEF UpdateDriverState, Exec
      <3>2. HasRow(k)' => rows'[k] >= i
        <4>1. HasRow(k)' <=> k \in DOMAIN rows' /\ rows'[k] # Missing
          BY <1>2 DEF HasRow
        <4>2. i >= i
          BY TypeFacts
        <4>3. CASE HasRow(k)
          BY <3>1, <4>2, <4>3 DEF HasRow
        <4>4. CASE ~HasRow(k)
          BY <3>1, <4>1, <4>4 DEF HasRow
        <4> QED BY <4>3, <4>4
      <3> QED BY <1>2, <1>5, <3>2 DEF handleDriverStatus, Busy, Persisted
    <2> QED BY <1>1, <2>1, <2>2 DEF Return
  <1>6. CASE Sample(w) \/ InsertPoint(w) \/ DropPoison(w)
    BY <1>2, <1>6 DEF Sample, InsertPoint, DropPoison, Busy, Persisted
  <1> QED BY <1>3, <1>4, <1>5, <1>6 DEF Handle

\* What happens to the events being processed, and to the position.
Traced ==
    /\ \A v \in Workers : \A i \in Offsets :
          cur[v] = i => \/ cur'[v] = i
                        \/ Persisted(i)' \/ i \in dlq' \cup lost'
    /\ \/ pos' <= pos
       \/ pos' = pos + 1 /\ (pos \in lost' \/ \E w \in Workers : cur'[w] = pos)

LEMMA Before == \A n \in Nat : \A i \in 1..n - 1 : i \in Nat /\ 1 <= i /\ i < n
  OBVIOUS

LEMMA TracedKeeps ==
    ASSUME TInv, TInv', Grows, ReadIsPersisted, ~overlap' => Traced
    PROVE  ReadIsPersisted'
  <1> SUFFICES ASSUME ~overlap', NEW i, i \in 1..pos' - 1
               PROVE  Persisted(i)' \/ i \in dlq' \cup lost' \/ \E w \in Workers : cur'[w] = i
    BY DEF ReadIsPersisted
  <1>1. /\ pos \in 1..Len(log) + 1 /\ pos' \in 1..Len(log) + 1 /\ Len(log) \in Nat
    BY LogType, Zenon DEF TInv, TypeOK, ConsumerTypeOK, Grows
  <1>2. i \in Offsets /\ i \in Nat /\ i < pos' /\ pos \in Nat /\ pos' \in Nat
    <2>1. pos \in Nat /\ pos' \in Nat /\ pos' <= Len(log) + 1
      BY <1>1
    <2>2. i \in Nat /\ 1 <= i /\ i < pos'
      BY <2>1, Before, Zenon
    <2> QED BY <1>1, <2>1, <2>2 DEF Offsets
  <1>3. CASE i = pos /\ pos' = pos + 1
    <2>1. ~(pos' <= pos)
      BY <1>2, <1>3
    <2> QED BY <1>3, <2>1 DEF Traced
  <1>4. CASE i < pos
    <2>1. Persisted(i) \/ i \in dlq \cup lost \/ \E w \in Workers : cur[w] = i
      BY <1>1, <1>4 DEF ReadIsPersisted, Grows
    <2>2. Persisted(i) => Persisted(i)'
      BY <1>2, PersistedStays
    <2>3. i \in dlq \cup lost => i \in dlq' \cup lost'
      BY DEF Grows
    <2>4. ASSUME NEW w \in Workers, cur[w] = i PROVE cur'[w] = i \/ Persisted(i)' \/ i \in dlq' \cup lost'
      BY <1>2, <2>4 DEF Traced
    <2> QED BY <2>1, <2>2, <2>3, <2>4
  <1>5. pos' <= pos \/ pos' = pos + 1
    BY DEF Traced
  <1> QED BY <1>2, <1>3, <1>4, <1>5

LEMMA HandleTraced ==
    ASSUME TInv, NEW w \in Workers, Handle(w)
    PROVE  Traced
  <1>1. cur[w] # 0 /\ pos' = pos
    BY HandleReturns, ReturnWorks DEF Working
  <1> pos \in Int
    BY TypeFacts
  <1>2. ASSUME NEW v \in Workers, NEW i \in Offsets, cur[v] = i
        PROVE  cur'[v] = i \/ Persisted(i)' \/ i \in dlq' \cup lost'
    <2>1. CASE v = w
      BY <1>2, <2>1, HandleFinishes
    <2>2. CASE v # w
      BY <1>1, <1>2, <2>2, HandleReturns, ReturnStage DEF TInv, TypeOK
    <2> QED BY <2>1, <2>2
  <1> QED BY <1>1, <1>2 DEF Traced

LEMMA ConsumeTraced ==
    ASSUME TInv, IInv, NEW w \in Workers, Consume(w) \/ ProcessCrash(w), ~overlap'
    PROVE  Traced
  <1>1. /\ pos \in Nat /\ committed \in Nat /\ cur \in [Workers -> Nat]
    BY DEF IInv, ProofTypeOK
  <1>2. 0 \notin Offsets
    BY TypeFacts
  <1>3. CASE Assign(w)
    <2>1. ~overlap
      BY <1>3, Zenon DEF Assign
    <2>2. pos' <= pos /\ cur' = cur
      BY <1>1, <1>3, <2>1 DEF Assign, IInv, BeforeCommitted, workVars
    <2> QED BY <2>2 DEF Traced
  <1>4. CASE ReadMessage(w)
    <2>1. /\ pos' = pos + 1 /\ cur'[w] = pos /\ cur[w] = 0
          /\ \A v \in Workers \ {w} : cur'[v] = cur[v]
      BY <1>1, <1>4 DEF ReadMessage
    <2> QED BY <1>2, <2>1 DEF Traced
  <1>5. CASE ReadError(w)
    BY <1>5 DEF ReadError, workVars, Traced
  <1>6. CASE Crash(w)
    <2>1. /\ pos' = pos /\ lost' = lost \cup ({cur[w]} \ {0})
          /\ \A v \in Workers \ {w} : cur'[v] = cur[v]
      BY <1>1, <1>6 DEF Crash
    <2> QED BY <1>1, <1>2, <2>1 DEF Traced
  <1> QED BY <1>3, <1>4, <1>5, <1>6 DEF Consume, ProcessCrash

\* Rows that stay or move forward keep what was applied and what was logged.
LEMMA AppliedStays ==
    ASSUME TInv, Grows, ~overlap', NEW v \in Workers, Applied(v),
           stage'[v] = 1 \/ cur'[v] = 0 \/ (cur'[v] = cur[v] /\ stage'[v] = stage[v])
    PROVE  Applied(v)'
  <1>1. PICK k, c : k = msg(v).ride /\ c = cur[v]
    OBVIOUS
  <1>2. c \in Int /\ rows \in [Rides \cup Drivers -> Int]
    BY <1>1, TypeFacts
  <1>3. HasRow(k)' => HasRow(k) /\ rows'[k] >= rows[k] /\ rows[k] \in Int /\ rows'[k] \in Int
    <2>1. HasRow(k)' => HasRow(k)
      BY DEF Grows
    <2>2. HasRow(k) => k \in Rides \cup Drivers
      BY <1>2 DEF HasRow
    <2> QED BY <1>2, <2>1, <2>2 DEF Grows
  <1>4. CASE cur'[v] = cur[v] /\ stage'[v] = stage[v]
    <2>1. msg(v)' = msg(v)
      BY <1>4 DEF msg, Grows
    <2>2. HasRow(msg(v).ride)' <=> HasRow(k)'
      BY <1>1, <2>1 DEF HasRow
    <2>3. ASSUME cur'[v] # 0, stage'[v] = 2, msg(v)'.kind = "ride-status", HasRow(k)'
          PROVE  rows'[k] >= c
      <3>1. rows[k] >= c
        BY <1>1, <1>3, <1>4, <2>1, <2>3 DEF Applied
      <3> QED BY <1>2, <1>3, <2>3, <3>1
    <2>4. msg(v)'.ride = k /\ cur'[v] = c
      BY <1>1, <1>4, <2>1
    <2> QED BY <2>2, <2>3, <2>4 DEF Applied
  <1>5. CASE stage'[v] = 1 \/ cur'[v] = 0
    <2>1. ~(cur'[v] # 0 /\ stage'[v] = 2)
      BY <1>5
    <2> QED BY <2>1 DEF Applied
  <1> QED BY <1>4, <1>5

LEMMA LoggedStays ==
    ASSUME TInv, Grows, ~overlap', NEW i \in Offsets, Logged(i), rideEvents' = rideEvents
    PROVE  Logged(i)'
  <1>1. PICK k : k = log[i].ride
    OBVIOUS
  <1>2. rows \in [Rides \cup Drivers -> Int] /\ \A j \in Offsets : j \in Int
    <2>1. \A j \in Offsets : j \in Nat
      BY TypeFacts
    <2> QED BY <2>1, TypeFacts
  <1>3. HasRow(k) => /\ HasRow(k)'
                     /\ \A j \in Offsets : rows[k] >= j => rows'[k] >= j
    <2>1. HasRow(k) => k \in Rides \cup Drivers
      BY <1>2 DEF HasRow
    <2>2. HasRow(k) => HasRow(k)'
      BY DEF Grows
    <2>3. HasRow(k) => rows'[k] >= rows[k] /\ rows[k] \in Int /\ rows'[k] \in Int
      BY <1>2, <2>1 DEF Grows
    <2> QED BY <1>2, <2>2, <2>3
  <1>4. log' = log /\ Offsets' = Offsets
    BY DEF Grows, Offsets
  <1>5. HasRow(log[i].ride)' <=> HasRow(k)'
    BY <1>1, <1>4 DEF HasRow
  <1> QED BY <1>1, <1>3, <1>4, <1>5 DEF Logged

LEMMA HandleApplied ==
    ASSUME TInv, IInv, PInv, NEW w \in Workers, Handle(w), ~overlap'
    PROVE  /\ \A v \in Workers : Applied(v)'
           /\ \A i \in Offsets : Logged(i)'
  <1>1. Grows /\ ~overlap /\ ConsumerTypeOK
    BY HandleGrows DEF Grows, TInv, TypeOK
  <1>2. (\A v \in Workers : Applied(v)) /\ (\A i \in Offsets : Logged(i))
    BY <1>1 DEF PInv
  <1>3. cur[w] # 0 /\ cur[w] \in Offsets
    BY <1>1, HandleReturns, LogType DEF ConsumerTypeOK, Offsets
  <1>4. ASSUME NEW v \in Workers, v # w PROVE Applied(v)'
    <2>1. cur'[v] = cur[v] /\ stage'[v] = stage[v]
      BY <1>1, <1>4, HandleReturns, ReturnStage
    <2> QED BY <1>1, <1>2, <2>1, AppliedStays
  <1>5. ASSUME Succeed(w) \/ Retry(w) PROVE Applied(w)'
    <2>1. cur'[w] = 0 \/ stage'[w] = 1
      BY <1>1, <1>3, <1>5, ReturnStage
    <2> QED BY <1>1, <1>2, <2>1, AppliedStays
  <1>6. CASE handleRideStatus(w)
    <2>1. PICK ok \in BOOLEAN :
             \/ UpdateRideState(msg(w), cur[w], ok) /\ (IF ok THEN NextStage(w) ELSE Retry(w))
             \/ stage[w] = 2 /\ InsertRideEvent(msg(w), ok) /\ Return(w, ok)
      BY <1>6 DEF handleRideStatus
    <2>2. CASE UpdateRideState(msg(w), cur[w], ok) /\ (IF ok THEN NextStage(w) ELSE Retry(w))
      <3>1. \A i \in Offsets : Logged(i)'
        BY <1>1, <1>2, <2>2, LoggedStays DEF UpdateRideState
      <3>2. ASSUME ok PROVE Applied(w)'
        <4>1. PICK k, c : k = msg(w).ride /\ c = cur[w]
          OBVIOUS
        <4>2. msg(w)' = msg(w) /\ cur'[w] = c
          BY <2>2, <3>2, <4>1 DEF NextStage, brokerVars, msg
        <4>3. rows' = IF HasRow(k) THEN [rows EXCEPT ![k] = c] ELSE rows
          BY <2>2, <3>2, <4>1 DEF UpdateRideState, Exec
        <4>4. HasRow(k)' => HasRow(k)
          BY <1>1 DEF Grows
        <4>5. HasRow(k)' => rows'[k] = c
          BY <4>3, <4>4 DEF HasRow
        <4>6. c \in Int
          BY <1>1, <1>3, <4>1, LogType DEF ConsumerTypeOK, Offsets
        <4>7. HasRow(msg(w).ride)' <=> HasRow(k)'
          BY <4>1, <4>2 DEF HasRow
        <4>8. msg(w)'.ride = k /\ c >= c
          BY <4>1, <4>2, <4>6
        <4> QED BY <4>2, <4>5, <4>7, <4>8 DEF Applied
      <3> QED BY <1>4, <1>5, <2>2, <3>1, <3>2
    <2>3. CASE stage[w] = 2 /\ InsertRideEvent(msg(w), ok) /\ Return(w, ok)
      <3>1. rows' = rows /\ log' = log /\ Offsets' = Offsets
        BY <1>1, <2>3 DEF InsertRideEvent, Grows, Offsets
      <3>2. \/ rideEvents' = rideEvents
            \/ HasRow(msg(w).ride) /\ rideEvents' = rideEvents \cup {msg(w).id}
        BY <2>3 DEF InsertRideEvent, Exec
      <3>3. ASSUME NEW i \in Offsets, HasRow(msg(w).ride), rideEvents' = rideEvents \cup {msg(w).id}
            PROVE  Logged(i)'
        <4>1. CASE log[i].id = msg(w).id
          <5>1. log[i] = log[cur[w]]
            BY <1>1, <1>3, <4>1, LogType DEF msg, ConsumerTypeOK
          <5>2. rows[msg(w).ride] >= cur[w]
            BY <1>2, <1>3, <1>6, <2>3, <3>3, Zenon DEF Applied, handleRideStatus, Busy
          <5>3. HasRow(log[i].ride)'
            BY <3>1, <3>3, <5>1 DEF HasRow, msg
          <5>4. PICK c \in Offsets : c = cur[w]
            BY <1>3
          <5>5. log'[c].id = log'[i].id /\ rows'[log'[i].ride] >= c
            BY <3>1, <5>1, <5>2, <5>4, Zenon DEF msg
          <5> QED BY <3>1, <5>3, <5>5 DEF Logged
        <4>2. CASE log[i].id # msg(w).id
          <5>1. log'[i].id \in rideEvents' => log[i].id \in rideEvents
            BY <3>1, <3>3, <4>2
          <5>2. HasRow(log[i].ride)' <=> HasRow(log[i].ride)
            BY <3>1 DEF HasRow
          <5> QED BY <1>2, <3>1, <5>1, <5>2, Zenon DEF Logged
        <4> QED BY <4>1, <4>2
      <3>4. \A i \in Offsets : Logged(i)'
        BY <1>1, <1>2, <3>2, <3>3, LoggedStays
      <3> QED BY <1>4, <1>5, <2>3, <3>4 DEF Return
    <2> QED BY <2>1, <2>2, <2>3
  <1>7. CASE ~handleRideStatus(w)
    <2>1. rideEvents' = rideEvents
      BY <1>7, Zenon DEF Handle, handleDispatchCreated, handleDriverStatus, Sample, InsertPoint, DropPoison, InsertDispatch,
                  UpdateDriverState, InsertDriverHistory, dbVars
    <2>2. \A i \in Offsets : Logged(i)'
      BY <1>1, <1>2, <2>1, LoggedStays
    <2>3. (Succeed(w) \/ Retry(w)) \/ (NextStage(w) /\ msg(w).kind = "driver-location")
      BY <1>7 DEF Handle, handleDispatchCreated, handleDriverStatus, Sample, InsertPoint, DropPoison, Return, Busy
    <2>4. NextStage(w) /\ msg(w).kind = "driver-location" => Applied(w)'
      <3>1. NextStage(w) => msg(w)' = msg(w)
        BY DEF NextStage, brokerVars, msg
      <3> QED BY <3>1, Zenon DEF Applied
    <2> QED BY <1>4, <1>5, <2>2, <2>3, <2>4
  <1> QED BY <1>6, <1>7

LEMMA ConsumeApplied ==
    ASSUME TInv, PInv, NEW w \in Workers, Consume(w) \/ ProcessCrash(w), ~overlap'
    PROVE  /\ \A v \in Workers : Applied(v)'
           /\ \A i \in Offsets : Logged(i)'
  <1>1. Grows /\ ~overlap /\ ConsumerTypeOK
    BY ConsumeGrows, Zenon DEF Grows, TInv, TypeOK
  <1>2. (\A v \in Workers : Applied(v)) /\ (\A i \in Offsets : Logged(i))
    BY <1>1 DEF PInv
  <1>3. rideEvents' = rideEvents
    BY DEF Consume, ProcessCrash, dbVars
  <1>4. \A v \in Workers : stage'[v] = 1 \/ cur'[v] = 0 \/ (cur'[v] = cur[v] /\ stage'[v] = stage[v])
    BY <1>1 DEF Consume, ProcessCrash, Assign, ReadMessage, ReadError, Crash, workVars, ConsumerTypeOK
  <1> QED BY <1>1, <1>2, <1>3, <1>4, AppliedStays, LoggedStays

LEMMA TracesHold == Spec => []PInv
  <1>1. ASSUME Init PROVE PInv
    <2>1. ReadIsPersisted
      <3>1. pos = 1
        BY <1>1, Zenon DEF Init, ConsumerInit
      <3>2. 1..pos - 1 = {}
        BY <3>1
      <3> QED BY <3>2 DEF ReadIsPersisted
    <2>2. \A w \in Workers : Applied(w)
      BY <1>1 DEF Init, ConsumerInit, Applied
    <2>3. \A i \in Offsets : Logged(i)
      BY <1>1 DEF Init, Logged
    <2> QED BY <2>1, <2>2, <2>3 DEF PInv
  <1>2. TInv /\ TInv' /\ IInv /\ PInv /\ [Next]_vars => PInv'
    <2> SUFFICES ASSUME TInv, TInv', IInv, PInv, [Next]_vars PROVE PInv'
      OBVIOUS
    <2>1. ASSUME NEW w \in Workers, Handle(w) PROVE PInv'
      <3>1. ReadIsPersisted'
        BY <2>1, HandleGrows, HandleTraced, TracedKeeps DEF PInv
      <3>2. Offsets' = Offsets
        BY <2>1, HandleGrows DEF Grows, Offsets
      <3> QED BY <2>1, <3>1, <3>2, HandleApplied DEF PInv
    <2>2. ASSUME NEW w \in Workers, Consume(w) \/ ProcessCrash(w) PROVE PInv'
      <3>1. ReadIsPersisted'
        BY <2>2, ConsumeGrows, ConsumeTraced, TracedKeeps DEF PInv
      <3>2. Offsets' = Offsets
        BY <2>2, ConsumeGrows DEF Grows, Offsets
      <3> QED BY <2>2, <3>1, <3>2, ConsumeApplied DEF PInv
    <2>3. ASSUME UNCHANGED <<consumerVars, dbVars>> PROVE PInv'
      <3>1. UNCHANGED <<log, pos, cur, stage, dlq, lost, overlap, rows, rideEvents, dispatches>>
        BY <2>3 DEF consumerVars, brokerVars, workVars, fateVars, dbVars
      <3>2. ReadIsPersisted'
        BY <3>1, Zenon DEF PInv, ReadIsPersisted, Persisted, HasRow
      <3>3. \A w \in Workers : Applied(w)' <=> Applied(w)
        BY <3>1, Zenon DEF Applied, HasRow, msg
      <3>4. Offsets' = Offsets /\ \A i \in Offsets : Logged(i)' <=> Logged(i)
        BY <3>1 DEF Logged, HasRow, Offsets
      <3> QED BY <3>1, <3>2, <3>3, <3>4 DEF PInv
    <2> QED BY <2>1, <2>2, <2>3, Zenon DEF Next, Tick, vars
  <1> QED BY <1>1, <1>2, TypesHold, InvHolds, PTL DEF Spec

\* What Run and process promise of an event that was read: it is in its table,
\* in the dead-letter topic, or given up in one of the ways `lost' records.
THEOREM ReadLeavesTrace == Spec => []ReadIsPersisted
  BY TracesHold, PTL DEF PInv

\* handleRideStatus logs an event only after the ride was updated from it or a
\* later one, although the two statements are no transaction.
THEOREM LoggedAfterApplied == Spec => []LoggedWasApplied
  <1>1. PInv => LoggedWasApplied
    BY DEF PInv, Logged, LoggedWasApplied
  <1> QED BY <1>1, TracesHold, PTL
=============================================================================

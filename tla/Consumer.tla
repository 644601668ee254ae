------------------------------ MODULE Consumer ------------------------------
(***************************************************************************)
(* internal/kafka/kafka.go: Consumer.Run and Consumer.process on one       *)
(* partition of one topic, with the members of one consumer group.  What   *)
(* the handler does is left to the module that extends this one: it calls  *)
(* Succeed or Retry when the handler returns.                              *)
(*                                                                         *)
(* kafka.Reader is external.  As Run uses it, ReadMessage of a reader with *)
(* a GroupID fetches the next message, commits its offset and only then    *)
(* returns it; when the commit fails the message is not returned, and the  *)
(* reader's position has moved on.                                         *)
(***************************************************************************)
EXTENDS Integers, Sequences, FiniteSets

CONSTANTS Workers,     \* consumer goroutines of the group, one per process
          Logs,        \* the partitions considered: sequences of messages
          MaxRetries,  \* ConsumerConfig.MaxRetries
          MaxRebalances, MaxCrashes,  \* bounds
          Nobody       \* no worker; no message

ASSUME ConsumerAssumption ==
    /\ Nobody \notin Workers
    /\ MaxRetries \in Nat /\ MaxRebalances \in Nat /\ MaxCrashes \in Nat
    /\ \A l \in Logs : Len(l) \in Nat

VARIABLES log,        \* the partition
          committed,  \* the next offset of the group, kept by the broker
          owner,      \* the member the partition is assigned to
          pos,        \* the owner's position in the partition
          cur,        \* the offset a worker processes, or 0
          stage,      \* the next step of its handler
          attempt,    \* process: attempt
          dlq,        \* offsets published to dead-letter
          lost,       \* history: offsets given up without a dead letter
          sessions,   \* history: how often the offset was given to process
          overlap,    \* history: was the partition given to a worker while
                      \* another one was still processing?
          rebalances, crashes

brokerVars == <<log, committed, owner, pos, rebalances>>
workVars == <<cur, stage, attempt>>
fateVars == <<dlq, lost, sessions, overlap>>
consumerVars == <<brokerVars, workVars, fateVars, crashes>>

Offsets == 1..Len(log)
msg(w) == log[cur[w]]

ConsumerTypeOK ==
    /\ log \in Logs
    /\ committed \in 1..Len(log) + 1 /\ pos \in 1..Len(log) + 1
    /\ owner \in Workers \cup {Nobody}
    /\ cur \in [Workers -> 0..Len(log)] /\ stage \in [Workers -> 1..2]
    /\ attempt \in [Workers -> 0..MaxRetries]
    /\ dlq \subseteq Offsets /\ lost \subseteq Offsets
    /\ sessions \in [Offsets -> Nat] /\ overlap \in BOOLEAN
    /\ rebalances \in 0..MaxRebalances /\ crashes \in 0..MaxCrashes

\* A new group starts at the first message (StartOffset is not set).
ConsumerInit ==
    /\ log \in Logs
    /\ committed = 1 /\ pos = 1 /\ owner = Nobody
    /\ cur = [w \in Workers |-> 0] /\ stage = [w \in Workers |-> 1]
    /\ attempt = [w \in Workers |-> 0]
    /\ dlq = {} /\ lost = {} /\ sessions = [i \in Offsets |-> 0]
    /\ overlap = FALSE /\ rebalances = 0 /\ crashes = 0

\* The group assigns the partition to w, whose reader starts at the committed
\* offset.  The previous owner, if it is alive, finishes its message.
Assign(w) ==
    /\ owner # w
    /\ owner = Nobody \/ rebalances < MaxRebalances
    /\ rebalances' = IF owner = Nobody THEN rebalances ELSE rebalances + 1
    /\ owner' = w /\ pos' = committed
    /\ overlap' = (overlap \/ \E v \in Workers : cur[v] # 0)
    /\ UNCHANGED <<log, committed, workVars, dlq, lost, sessions, crashes>>

\* A defective variant: only process commits the offset.
ReadWithoutCommit(w) ==
    /\ owner = w /\ cur[w] = 0 /\ pos <= Len(log)
    /\ pos' = pos + 1
    /\ cur' = [cur EXCEPT ![w] = pos]
    /\ stage' = [stage EXCEPT ![w] = 1] /\ attempt' = [attempt EXCEPT ![w] = 0]
    /\ sessions' = [sessions EXCEPT ![pos] = @ + 1]
    /\ UNCHANGED <<log, committed, owner, rebalances, dlq, lost, overlap, crashes>>

\* Run: ReadMessage commits and returns the message, and process starts.
ReadMessage(w) ==
    /\ owner = w /\ cur[w] = 0 /\ pos <= Len(log)
    /\ pos' = pos + 1 /\ committed' = pos + 1
    /\ cur' = [cur EXCEPT ![w] = pos]
    /\ stage' = [stage EXCEPT ![w] = 1] /\ attempt' = [attempt EXCEPT ![w] = 0]
    /\ sessions' = [sessions EXCEPT ![pos] = @ + 1]
    /\ UNCHANGED <<log, owner, rebalances, dlq, lost, overlap, crashes>>

\* Run: the commit inside ReadMessage fails, at the broker or on the way back;
\* the error is logged and the next message is read.
ReadError(w) ==
    /\ owner = w /\ cur[w] = 0 /\ pos <= Len(log)
    /\ pos' = pos + 1 /\ committed' \in {committed, pos + 1}
    /\ lost' = lost \cup {pos}
    /\ UNCHANGED <<log, owner, rebalances, workVars, dlq, sessions, overlap, crashes>>

\* CommitMessages of the message w is through with, whose error is ignored.
\* The broker takes any offset, so that of a previous owner too.
CommitMessages(w) ==
    /\ committed' \in {committed, cur[w] + 1}
    /\ cur' = [cur EXCEPT ![w] = 0]
    /\ UNCHANGED <<log, owner, pos, rebalances, stage, attempt, sessions, overlap, crashes>>

\* The handler returned nil.
Succeed(w) == CommitMessages(w) /\ UNCHANGED <<dlq, lost>>

\* Defective variants: the dead letter is forgotten, retries do not end, or
\* there is one too many.
RetryThenForget(w) ==
    \/ /\ attempt[w] < MaxRetries
       /\ attempt' = [attempt EXCEPT ![w] = @ + 1]
       /\ stage' = [stage EXCEPT ![w] = 1]
       /\ UNCHANGED <<brokerVars, cur, fateVars, crashes>>
    \/ /\ attempt[w] = MaxRetries
       /\ UNCHANGED <<dlq, lost>>
       /\ CommitMessages(w)

RetryForever(w) ==
    /\ stage' = [stage EXCEPT ![w] = 1]
    /\ UNCHANGED <<brokerVars, cur, attempt, fateVars, crashes>>

RetryOnceMore(w) ==
    /\ attempt' = [attempt EXCEPT ![w] = @ + 1]
    /\ stage' = [stage EXCEPT ![w] = 1]
    /\ UNCHANGED <<brokerVars, cur, fateVars, crashes>>

\* The handler returned an error: try again, or publish a dead letter, which
\* may fail and is then only logged, and commit.
Retry(w) ==
    \/ /\ attempt[w] < MaxRetries
       /\ attempt' = [attempt EXCEPT ![w] = @ + 1]
       /\ stage' = [stage EXCEPT ![w] = 1]
       /\ UNCHANGED <<brokerVars, cur, fateVars, crashes>>
    \/ /\ attempt[w] = MaxRetries
       /\ \/ dlq' = dlq \cup {cur[w]} /\ UNCHANGED lost
          \/ lost' = lost \cup {cur[w]} /\ UNCHANGED dlq
       /\ CommitMessages(w)

\* The handler goes on to its second statement.
NextStage(w) ==
    /\ stage' = [stage EXCEPT ![w] = 2]
    /\ UNCHANGED <<brokerVars, cur, attempt, fateVars, crashes>>

\* The process of w dies and is started again; the broker notices.
Crash(w) ==
    /\ crashes < MaxCrashes /\ (owner = w \/ cur[w] # 0)
    /\ crashes' = crashes + 1
    /\ owner' = IF owner = w THEN Nobody ELSE owner
    /\ cur' = [cur EXCEPT ![w] = 0]
    /\ lost' = lost \cup ({cur[w]} \ {0})
    /\ UNCHANGED <<log, committed, pos, rebalances, stage, attempt, dlq, sessions, overlap>>
=============================================================================

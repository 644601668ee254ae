-------------------------------- MODULE Hub ---------------------------------
(***************************************************************************)
(* internal/gateway/hub.go: the hub goroutine, and the readPump and        *)
(* writePump goroutines of every WebSocket client.  Messages are numbered  *)
(* in the order Broadcast accepts them.  The register and unregister       *)
(* channels are unbuffered, so a send on them is a step with the hub.      *)
(***************************************************************************)
EXTENDS Integers, Sequences

CONSTANTS Clients,       \* connections, each used once
          User,          \* the user of a connection
          Types,         \* event types
          SubChoices,    \* bound: the subscriptions SetSubs is called with
          BroadcastCap,  \* capacity of the broadcast channel
          SendCap,       \* capacity of a client's send channel
          MaxMessages    \* bound on the messages Broadcast accepts

Users == {User[c] : c \in Clients}

ASSUME HubAssumption ==
    /\ BroadcastCap \in Nat \ {0} /\ SendCap \in Nat \ {0} /\ MaxMessages \in Nat
    /\ SubChoices \subseteq SUBSET Types

VARIABLES clients,    \* Hub.clients
          subs,       \* Hub.subs
          broadcast,  \* the broadcast channel
          accepted,   \* how many messages Broadcast has accepted
          conn,       \* "none", "open", "gone" (the peer), "closed" (by us)
          send,       \* the send channels
          closed,     \* clients whose send channel is closed
          reader,     \* readPump: "none", "run", "unregister", "done"
          writer,     \* writePump: "none", "run", "done"
          last        \* history: number of the last message written to the peer

hubVars == <<clients, subs, broadcast, accepted, conn, send, closed, reader, writer, last>>

Messages == [type : Types, n : 1..MaxMessages]

HubTypeOK ==
    /\ clients \subseteq Clients /\ closed \subseteq Clients
    /\ DOMAIN subs \subseteq Users /\ \A u \in DOMAIN subs : subs[u] \subseteq Types
    /\ broadcast \in Seq(Messages) /\ Len(broadcast) <= BroadcastCap
    /\ accepted \in 0..MaxMessages
    /\ conn \in [Clients -> {"none", "open", "gone", "closed"}]
    /\ send \in [Clients -> Seq(Messages)] /\ \A c \in Clients : Len(send[c]) <= SendCap
    /\ reader \in [Clients -> {"none", "run", "unregister", "done"}]
    /\ writer \in [Clients -> {"none", "run", "done"}]
    /\ last \in [Clients -> 0..MaxMessages]

HubInit ==
    /\ clients = {} /\ closed = {} /\ subs = <<>>
    /\ broadcast = <<>> /\ accepted = 0
    /\ conn = [c \in Clients |-> "none"] /\ send = [c \in Clients |-> <<>>]
    /\ reader = [c \in Clients |-> "none"] /\ writer = [c \in Clients |-> "none"]
    /\ last = [c \in Clients |-> 0]

-----------------------------------------------------------------------------
(* Callers of the hub.                                                     *)

\* ServeWS up to `h.register <- c'.
ServeWS(c) ==
    /\ conn[c] = "none"
    /\ conn' = [conn EXCEPT ![c] = "open"]
    /\ UNCHANGED <<clients, subs, broadcast, accepted, send, closed, reader, writer, last>>

SetSubs(u, types) ==
    /\ subs' = [v \in DOMAIN subs \cup {u} |-> IF v = u THEN types ELSE subs[v]]
    /\ UNCHANGED <<clients, broadcast, accepted, conn, send, closed, reader, writer, last>>

\* A message that finds the queue full is dropped.
Broadcast(type) ==
    /\ Len(broadcast) < BroadcastCap /\ accepted < MaxMessages
    /\ accepted' = accepted + 1
    /\ broadcast' = Append(broadcast, [type |-> type, n |-> accepted + 1])
    /\ UNCHANGED <<clients, subs, conn, send, closed, reader, writer, last>>

-----------------------------------------------------------------------------
(* Run: the three cases of its select.                                     *)

Registering(c) == conn[c] # "none" /\ reader[c] = "none"

\* A defective variant: a connection that is dead by now is not taken.
RegisterOpenOnly(c) ==
    /\ Registering(c) /\ conn[c] = "open"
    /\ clients' = clients \cup {c}
    /\ reader' = [reader EXCEPT ![c] = "run"]
    /\ writer' = [writer EXCEPT ![c] = "run"]
    /\ UNCHANGED <<subs, broadcast, accepted, conn, send, closed, last>>

\* The hub takes c from the register channel, and ServeWS starts the pumps.
HubRegister(c) ==
    /\ Registering(c)
    /\ clients' = clients \cup {c}
    /\ reader' = [reader EXCEPT ![c] = "run"]
    /\ writer' = [writer EXCEPT ![c] = "run"]
    /\ UNCHANGED <<subs, broadcast, accepted, conn, send, closed, last>>

\* A defective variant: the client stays in the map.
UnregisterKeepsClient(c) ==
    /\ reader[c] = "unregister"
    /\ closed' = closed \cup ({c} \cap clients)
    /\ reader' = [reader EXCEPT ![c] = "done"]
    /\ conn' = [conn EXCEPT ![c] = "closed"]
    /\ UNCHANGED <<clients, subs, broadcast, accepted, send, writer, last>>

\* The hub takes c from the unregister channel; readPump closes the connection
\* and returns.
HubUnregister(c) ==
    /\ reader[c] = "unregister"
    /\ clients' = clients \ {c}
    /\ closed' = closed \cup ({c} \cap clients)
    /\ reader' = [reader EXCEPT ![c] = "done"]
    /\ conn' = [conn EXCEPT ![c] = "closed"]
    /\ UNCHANGED <<subs, broadcast, accepted, send, writer, last>>

subscribed(u, type) ==
    u \in DOMAIN subs => subs[u] = {} \/ type \in subs[u]

\* Defective variants of the fan-out: the message stays in the queue, and the
\* capacity is not respected.
HubFanOutAgain ==
    /\ broadcast # <<>>
    /\ LET m == Head(broadcast)
       IN send' = [c \in Clients |->
                     IF c \in clients /\ subscribed(User[c], m.type) /\ Len(send[c]) < SendCap
                     THEN Append(send[c], m) ELSE send[c]]
    /\ UNCHANGED <<clients, subs, broadcast, accepted, conn, closed, reader, writer, last>>

HubFanOutUnbounded ==
    /\ broadcast # <<>>
    /\ LET m == Head(broadcast)
       IN send' = [c \in Clients |->
                     IF c \in clients /\ subscribed(User[c], m.type)
                     THEN Append(send[c], m) ELSE send[c]]
    /\ broadcast' = Tail(broadcast)
    /\ UNCHANGED <<clients, subs, accepted, conn, closed, reader, writer, last>>

\* The hub takes a message and offers it to the clients; one whose channel is
\* full does not get it.
HubFanOut ==
    /\ broadcast # <<>>
    /\ LET m == Head(broadcast)
       IN send' = [c \in Clients |->
                     IF c \in clients /\ subscribed(User[c], m.type) /\ Len(send[c]) < SendCap
                     THEN Append(send[c], m) ELSE send[c]]
    /\ broadcast' = Tail(broadcast)
    /\ UNCHANGED <<clients, subs, accepted, conn, closed, reader, writer, last>>

-----------------------------------------------------------------------------
(* The pumps.                                                              *)

\* The peer closes, vanishes or stops answering pings for 60 s.
PeerGone(c) ==
    /\ conn[c] = "open"
    /\ conn' = [conn EXCEPT ![c] = "gone"]
    /\ UNCHANGED <<clients, subs, broadcast, accepted, send, closed, reader, writer, last>>

\* ReadMessage fails and the loop ends.
readPump(c) ==
    /\ reader[c] = "run" /\ conn[c] # "open"
    /\ reader' = [reader EXCEPT ![c] = "unregister"]
    /\ UNCHANGED <<clients, subs, broadcast, accepted, conn, send, closed, writer, last>>

\* writePump takes a message and writes it; the write may fail, and fails on a
\* connection we closed.  A pump that returns closes the connection.
WriteMessage(c) ==
    /\ writer[c] = "run" /\ send[c] # <<>>
    /\ send' = [send EXCEPT ![c] = Tail(@)]
    /\ \/ /\ conn[c] # "closed"
          /\ last' = [last EXCEPT ![c] = Head(send[c]).n]
          /\ UNCHANGED <<conn, writer>>
       \/ /\ conn' = [conn EXCEPT ![c] = "closed"]
          /\ writer' = [writer EXCEPT ![c] = "done"]
          /\ UNCHANGED last
    /\ UNCHANGED <<clients, subs, broadcast, accepted, closed, reader>>

\* A ping fails.
PingFails(c) ==
    /\ writer[c] = "run"
    /\ conn' = [conn EXCEPT ![c] = "closed"]
    /\ writer' = [writer EXCEPT ![c] = "done"]
    /\ UNCHANGED <<clients, subs, broadcast, accepted, send, closed, reader, last>>

\* A defective variant: writePump does not notice the closed channel.
WriteCloseMissed(c) == FALSE /\ UNCHANGED hubVars

\* The channel is closed and empty: writePump says goodbye and returns.
WriteClose(c) ==
    /\ writer[c] = "run" /\ send[c] = <<>> /\ c \in closed
    /\ conn' = [conn EXCEPT ![c] = "closed"]
    /\ writer' = [writer EXCEPT ![c] = "done"]
    /\ UNCHANGED <<clients, subs, broadcast, accepted, send, closed, reader, last>>

HubNext ==
    \/ \E type \in Types : Broadcast(type)
    \/ \E u \in Users, types \in SubChoices : SetSubs(u, types)
    \/ HubFanOut
    \/ \E c \in Clients : \/ ServeWS(c) \/ HubRegister(c) \/ HubUnregister(c)
                          \/ PeerGone(c) \/ readPump(c)
                          \/ WriteMessage(c) \/ WriteClose(c) \/ PingFails(c)

HubSpec == HubInit /\ [][HubNext]_hubVars

-----------------------------------------------------------------------------

\* The hub never sends on a closed channel, which would panic, and closes no
\* channel twice: the clients it knows are those whose readPump has not been
\* taken off, and their channels are open.
NoSendOnClosed ==
    \A c \in Clients :
        /\ c \in clients <=> reader[c] \in {"run", "unregister"}
        /\ c \in closed <=> reader[c] = "done"

Ascending(s) == \A i, j \in 1..Len(s) : i < j => s[i].n < s[j].n

\* A client sees the messages in the order Broadcast accepted them, each at
\* most once, whatever is dropped on the way: what was written comes before
\* what waits in the send channel, and that before the broadcast channel.
InOrder ==
    /\ Ascending(broadcast)
    /\ \A c \in Clients :
        /\ Ascending(send[c])
        /\ \A i \in 1..Len(send[c]) :
            /\ last[c] < send[c][i].n
            /\ \A j \in 1..Len(broadcast) : send[c][i].n < broadcast[j].n

\* A connection that has come to an end is cleaned up: the hub forgets the
\* client and both of its goroutines return.
Cleanup ==
    \A c \in Clients : []<>(conn[c] \in {"gone", "closed"} =>
        c \notin clients /\ reader[c] = "done" /\ writer[c] = "done")
=============================================================================

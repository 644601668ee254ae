----------------------------- MODULE HubProofs ------------------------------
(***************************************************************************)
(* The hub, for any number of clients, any channel capacities and any      *)
(* number of messages: it never sends on a closed channel, no channel      *)
(* holds more than its capacity, and every client sees the messages in     *)
(* order.                                                                  *)
(***************************************************************************)
EXTENDS Hub, TLAPS

\* The part of the state NoSendOnClosed is about.
RegTypeOK == reader \in [Clients -> {"none", "run", "unregister", "done"}]

RegIInv == RegTypeOK /\ NoSendOnClosed

\* Every action but two leaves the map, the closed channels and the readers
\* alone.
LEMMA RegFrame ==
    ASSUME RegIInv, UNCHANGED <<clients, closed, reader>>
    PROVE  RegIInv'
  BY DEF RegIInv, RegTypeOK, NoSendOnClosed

LEMMA RegStep == RegIInv /\ [HubNext]_hubVars => RegIInv'
  <1> SUFFICES ASSUME RegIInv, [HubNext]_hubVars PROVE RegIInv'
    OBVIOUS
  <1>1. ASSUME NEW c \in Clients, HubRegister(c) PROVE RegIInv'
    <2>1. RegTypeOK'
      BY <1>1 DEF HubRegister, RegIInv, RegTypeOK
    <2>2. \A x \in Clients : x # c => /\ reader'[x] = reader[x]
                                      /\ x \in clients' <=> x \in clients
      BY <1>1 DEF HubRegister, RegIInv, RegTypeOK
    <2>3. reader[c] = "none" /\ reader'[c] = "run" /\ c \in clients' /\ closed' = closed
      BY <1>1 DEF HubRegister, Registering, RegIInv, RegTypeOK
    <2> QED BY <2>1, <2>2, <2>3 DEF RegIInv, NoSendOnClosed
  <1>2. ASSUME NEW c \in Clients, HubUnregister(c) PROVE RegIInv'
    <2>1. RegTypeOK'
      BY <1>2 DEF HubUnregister, RegIInv, RegTypeOK
    <2>2. reader[c] = "unregister" /\ c \in clients
      BY <1>2 DEF HubUnregister, RegIInv, NoSendOnClosed
    <2>3. \A x \in Clients : x # c => /\ reader'[x] = reader[x]
                                      /\ x \in clients' <=> x \in clients
                                      /\ x \in closed' <=> x \in closed
      BY <1>2 DEF HubUnregister, RegIInv, RegTypeOK
    <2>4. reader'[c] = "done" /\ c \notin clients' /\ c \in closed'
      BY <1>2, <2>2 DEF HubUnregister, RegIInv, RegTypeOK
    <2> QED BY <2>1, <2>3, <2>4 DEF RegIInv, NoSendOnClosed
  <1>3. ASSUME NEW c \in Clients, readPump(c) PROVE RegIInv'
    <2>1. RegTypeOK'
      BY <1>3 DEF readPump, RegIInv, RegTypeOK
    <2>2. \A x \in Clients : x # c => reader'[x] = reader[x]
      BY <1>3 DEF readPump, RegIInv, RegTypeOK
    <2>3. reader[c] = "run" /\ reader'[c] = "unregister" /\ UNCHANGED <<clients, closed>>
      BY <1>3 DEF readPump, RegIInv, RegTypeOK
    <2> QED BY <2>1, <2>2, <2>3 DEF RegIInv, NoSendOnClosed
  <1>4. ASSUME NEW type \in Types, Broadcast(type) PROVE RegIInv'
    BY <1>4, RegFrame DEF Broadcast
  <1>5. ASSUME NEW u \in Users, NEW types \in SubChoices, SetSubs(u, types) PROVE RegIInv'
    BY <1>5, RegFrame DEF SetSubs
  <1>6. CASE HubFanOut
    BY <1>6, RegFrame DEF HubFanOut
  <1>7. ASSUME NEW c \in Clients, ServeWS(c) \/ PeerGone(c) \/ PingFails(c) PROVE RegIInv'
    BY <1>7, RegFrame DEF ServeWS, PeerGone, PingFails
  <1>8. ASSUME NEW c \in Clients, WriteMessage(c) \/ WriteClose(c) PROVE RegIInv'
    BY <1>8, RegFrame DEF WriteMessage, WriteClose
  <1>9. CASE UNCHANGED hubVars
    BY <1>9, RegFrame DEF hubVars
  <1> QED BY <1>1, <1>2, <1>3, <1>4, <1>5, <1>6, <1>7, <1>8, <1>9 DEF HubNext

\* For any number of clients the hub sends on open channels only and closes
\* each channel once.
THEOREM HubNeverPanics == HubSpec => []NoSendOnClosed
  <1>1. HubInit => RegIInv
    BY DEF HubInit, RegIInv, RegTypeOK, NoSendOnClosed
  <1>2. RegIInv => NoSendOnClosed
    BY DEF RegIInv
  <1> QED BY <1>1, <1>2, RegStep, PTL DEF HubSpec

-----------------------------------------------------------------------------
(* Order.                                                                  *)

\* Messages without the bound on their number.
Msgs == [type : Types, n : Nat]

LEMMA MsgNumber ==
    ASSUME NEW s \in Seq(Msgs), NEW i \in 1..Len(s)
    PROVE  s[i].n \in Nat
  <1>1. s[i] \in Msgs
    OBVIOUS
  <1> QED BY <1>1 DEF Msgs

OrderTypeOK ==
    /\ broadcast \in Seq(Msgs) /\ accepted \in Nat
    /\ send \in [Clients -> Seq(Msgs)] /\ last \in [Clients -> Nat]

\* What makes InOrder inductive: the queue holds only accepted messages, all
\* newer than what any client has been sent.
QueueIsNew ==
    \A j \in 1..Len(broadcast) :
        /\ broadcast[j].n <= accepted
        /\ \A c \in Clients : last[c] < broadcast[j].n

\* Nothing in a send channel, and nothing written, is newer than accepted.
SentIsAccepted ==
    \A c \in Clients :
        /\ last[c] <= accepted
        /\ \A i \in 1..Len(send[c]) : send[c][i].n <= accepted

OrderIInv == OrderTypeOK /\ InOrder /\ QueueIsNew /\ SentIsAccepted

LEMMA OrderFrame ==
    ASSUME OrderIInv, UNCHANGED <<broadcast, accepted, send, last>>
    PROVE  OrderIInv'
  BY DEF OrderIInv, OrderTypeOK, InOrder, Ascending, QueueIsNew, SentIsAccepted

\* Accepting a message appends the newest one.
LEMMA OrderBroadcast ==
    ASSUME OrderIInv, NEW type \in Types, Broadcast(type)
    PROVE  OrderIInv'
  <1> DEFINE m == [type |-> type, n |-> accepted + 1]
             k == Len(broadcast)
  <1>1. /\ broadcast' = Append(broadcast, m) /\ accepted' = accepted + 1
        /\ send' = send /\ last' = last
    BY DEF Broadcast
  <1>2. accepted \in Nat /\ broadcast \in Seq(Msgs) /\ m \in Msgs /\ k \in Nat
    BY DEF OrderIInv, OrderTypeOK, Msgs
  <1>3. /\ Len(broadcast') = k + 1
        /\ \A j \in 1..k : broadcast'[j] = broadcast[j]
        /\ broadcast'[k + 1] = m
        /\ broadcast' \in Seq(Msgs)
    BY <1>1, <1>2
  <1>4. \A j \in 1..k + 1 : j \in 1..k \/ j = k + 1
    BY <1>2
  <1>5. m.n = accepted + 1
    OBVIOUS
  <1> HIDE DEF m, k
  <1>6. \A j \in 1..k : broadcast[j].n \in Nat /\ broadcast[j].n <= accepted
    BY <1>2, MsgNumber DEF OrderIInv, QueueIsNew, k
  <1>7. OrderTypeOK'
    BY <1>1, <1>2, <1>3 DEF OrderIInv, OrderTypeOK
  <1>8. Ascending(broadcast')
    <2> SUFFICES ASSUME NEW i \in 1..k + 1, NEW j \in 1..k + 1, i < j
                 PROVE  broadcast'[i].n < broadcast'[j].n
      BY <1>3 DEF Ascending
    <2>1. i \in 1..k
      BY <1>2, <1>4
    <2>2. CASE j \in 1..k
      BY <2>1, <2>2, <1>3 DEF OrderIInv, InOrder, Ascending, k
    <2>3. CASE j = k + 1
      BY <2>1, <2>3, <1>2, <1>3, <1>5, <1>6
    <2> QED BY <2>2, <2>3, <1>4
  <1>9. ASSUME NEW c \in Clients, NEW i \in 1..Len(send[c]), NEW j \in 1..k + 1
        PROVE  send[c][i].n < broadcast'[j].n
    <2>1. send[c][i].n \in Nat /\ send[c][i].n <= accepted
      BY MsgNumber DEF OrderIInv, OrderTypeOK, SentIsAccepted
    <2>2. CASE j \in 1..k
      BY <2>2, <1>3 DEF OrderIInv, InOrder, k
    <2>3. CASE j = k + 1
      BY <2>1, <2>3, <1>2, <1>3, <1>5
    <2> QED BY <2>2, <2>3, <1>4
  <1>10. InOrder'
    BY <1>1, <1>3, <1>8, <1>9 DEF OrderIInv, InOrder
  <1>11. ASSUME NEW j \in 1..k + 1
         PROVE  /\ broadcast'[j].n <= accepted + 1
                /\ \A c \in Clients : last[c] < broadcast'[j].n
    <2>1. \A c \in Clients : last[c] \in Nat /\ last[c] <= accepted
      BY DEF OrderIInv, OrderTypeOK, SentIsAccepted
    <2>2. CASE j \in 1..k
      <3>1. broadcast'[j].n <= accepted + 1
        BY <2>2, <1>2, <1>3, <1>6
      <3>2. \A c \in Clients : last[c] < broadcast'[j].n
        BY <2>2, <1>3 DEF OrderIInv, QueueIsNew, k
      <3> QED BY <3>1, <3>2
    <2>3. CASE j = k + 1
      BY <2>1, <2>3, <1>2, <1>3, <1>5
    <2> QED BY <2>2, <2>3, <1>4
  <1>12. QueueIsNew'
    BY <1>1, <1>3, <1>11 DEF QueueIsNew
  <1>13. SentIsAccepted'
    <2>1. ASSUME NEW c \in Clients PROVE last[c] <= accepted + 1
      BY <1>2 DEF OrderIInv, OrderTypeOK, SentIsAccepted
    <2>2. ASSUME NEW c \in Clients, NEW i \in 1..Len(send[c])
          PROVE  send[c][i].n <= accepted + 1
      BY <1>2, MsgNumber DEF OrderIInv, OrderTypeOK, SentIsAccepted
    <2> QED BY <1>1, <2>1, <2>2 DEF SentIsAccepted
  <1> QED BY <1>7, <1>10, <1>12, <1>13 DEF OrderIInv

\* The fan-out moves the oldest message of the queue to the ends of channels.
LEMMA OrderFanOut ==
    ASSUME OrderIInv, HubFanOut
    PROVE  OrderIInv'
  <1> DEFINE m == Head(broadcast)
             k == Len(broadcast)
  <1>1. /\ broadcast # <<>> /\ broadcast' = Tail(broadcast)
        /\ accepted' = accepted /\ last' = last
        /\ send' = [c \in Clients |->
                      IF c \in clients /\ subscribed(User[c], m.type) /\ Len(send[c]) < SendCap
                      THEN Append(send[c], m) ELSE send[c]]
    BY DEF HubFanOut
  <1>2. broadcast \in Seq(Msgs) /\ k \in Nat /\ accepted \in Nat
    BY DEF OrderIInv, OrderTypeOK
  <1>3. /\ k >= 1 /\ m = broadcast[1] /\ m \in Msgs
        /\ broadcast' \in Seq(Msgs) /\ Len(broadcast') = k - 1
        /\ \A j \in 1..k - 1 : broadcast'[j] = broadcast[j + 1]
    BY <1>1, <1>2
  <1>4. \A c \in Clients : send'[c] = send[c] \/ send'[c] = Append(send[c], m)
    BY <1>1
  <1>5. DOMAIN send' = Clients /\ send' = [c \in Clients |-> send'[c]]
    BY <1>1
  <1> HIDE DEF m, k
  <1>6. \A c \in Clients : send[c] \in Seq(Msgs) /\ last[c] \in Nat
    BY DEF OrderIInv, OrderTypeOK
  <1>7. \A j \in 1..k - 1 : j \in 1..k /\ j + 1 \in 1..k /\ 1 < j + 1
    BY <1>2
  <1>8. /\ m.n \in Nat /\ m.n <= accepted /\ \A c \in Clients : last[c] < m.n
        /\ \A j \in 1..k - 1 : m.n < broadcast'[j].n
    <2>1. 1 \in 1..k
      BY <1>2, <1>3
    <2>2. m.n \in Nat /\ m.n <= accepted /\ \A c \in Clients : last[c] < m.n
      BY <2>1, <1>3 DEF OrderIInv, QueueIsNew, Msgs, k
    <2>3. \A j \in 1..k - 1 : broadcast[1].n < broadcast[j + 1].n
      BY <2>1, <1>7 DEF OrderIInv, InOrder, Ascending, k
    <2> QED BY <2>2, <2>3, <1>3
  <1>9. OrderTypeOK'
    <2>1. \A s \in Seq(Msgs) : Append(s, m) \in Seq(Msgs)
      BY <1>3
    <2>2. \A c \in Clients : send'[c] \in Seq(Msgs)
      BY <2>1, <1>4, <1>6
    <2> QED BY <2>2, <1>1, <1>3, <1>5 DEF OrderIInv, OrderTypeOK
  <1>10. Ascending(broadcast')
    <2> SUFFICES ASSUME NEW i \in 1..k - 1, NEW j \in 1..k - 1, i < j
                 PROVE  broadcast[i + 1].n < broadcast[j + 1].n
      BY <1>3 DEF Ascending
    <2>1. i + 1 < j + 1
      OBVIOUS
    <2> QED BY <2>1, <1>7 DEF OrderIInv, InOrder, Ascending, k
  <1>11. ASSUME NEW c \in Clients
         PROVE  /\ Ascending(send'[c])
                /\ \A i \in 1..Len(send'[c]) :
                     /\ last[c] < send'[c][i].n
                     /\ send'[c][i].n <= accepted
                     /\ \A j \in 1..k - 1 : send'[c][i].n < broadcast'[j].n
    <2>1. /\ Ascending(send[c])
          /\ \A i \in 1..Len(send[c]) :
                 /\ last[c] < send[c][i].n /\ send[c][i].n <= accepted
                 /\ send[c][i].n < m.n
                 /\ \A j \in 1..k - 1 : send[c][i].n < broadcast'[j].n
      <3>1. 1 \in 1..k
        BY <1>2, <1>3
      <3>2. \A i \in 1..Len(send[c]), j \in 1..k : send[c][i].n < broadcast[j].n
        BY DEF OrderIInv, InOrder, k
      <3>3. Ascending(send[c]) /\ \A i \in 1..Len(send[c]) : last[c] < send[c][i].n
        BY DEF OrderIInv, InOrder
      <3>4. \A i \in 1..Len(send[c]) : send[c][i].n <= accepted
        BY DEF OrderIInv, SentIsAccepted
      <3> QED BY <3>1, <3>2, <3>3, <3>4, <1>3, <1>7
    <2>2. CASE send'[c] = send[c]
      BY <2>1, <2>2
    <2>3. CASE send'[c] = Append(send[c], m)
      <3> DEFINE s == send[c]
                 l == Len(s)
      <3>1. s \in Seq(Msgs) /\ l \in Nat
        BY <1>6
      <3>2. /\ Len(send'[c]) = l + 1 /\ send'[c][l + 1] = m
            /\ \A i \in 1..l : send'[c][i] = s[i]
        BY <2>3, <3>1, <1>3
      <3>3. \A i \in 1..l + 1 : i \in 1..l \/ i = l + 1
        BY <3>1
      <3>4. ASSUME NEW i \in 1..l + 1
            PROVE  /\ last[c] < send'[c][i].n /\ send'[c][i].n <= accepted
                   /\ \A j \in 1..k - 1 : send'[c][i].n < broadcast'[j].n
        BY <3>2, <3>3, <2>1, <1>8
      <3>5. ASSUME NEW i \in 1..l + 1, NEW j \in 1..l + 1, i < j
            PROVE  send'[c][i].n < send'[c][j].n
        <4>1. i \in 1..l
          BY <3>1, <3>3, <3>5
        <4>2. CASE j \in 1..l
          BY <4>1, <4>2, <3>2, <3>5, <2>1 DEF Ascending
        <4>3. CASE j = l + 1
          BY <4>1, <4>3, <3>2, <2>1
        <4> QED BY <4>2, <4>3, <3>3
      <3>6. Ascending(send'[c])
        BY <3>2, <3>5 DEF Ascending
      <3> QED BY <3>2, <3>4, <3>6
    <2> QED BY <2>2, <2>3, <1>4
  <1>12. InOrder'
    <2>1. last' = last
      BY <1>1
    <2>2. Len(broadcast') = k - 1
      BY <1>3
    <2> QED BY <2>1, <2>2, <1>10, <1>11 DEF InOrder
  <1>13. QueueIsNew'
    BY <1>1, <1>3, <1>7 DEF OrderIInv, QueueIsNew, k
  <1>14. SentIsAccepted'
    BY <1>1, <1>11 DEF OrderIInv, SentIsAccepted
  <1> QED BY <1>9, <1>12, <1>13, <1>14 DEF OrderIInv

\* writePump takes the oldest message of a channel.
LEMMA OrderWrite ==
    ASSUME OrderIInv, NEW c \in Clients, WriteMessage(c)
    PROVE  OrderIInv'
  <1> DEFINE s == send[c]
             l == Len(s)
  <1>1. /\ s # <<>> /\ send' = [send EXCEPT ![c] = Tail(s)]
        /\ broadcast' = broadcast /\ accepted' = accepted
        /\ last' = last \/ last' = [last EXCEPT ![c] = Head(s).n]
    BY DEF WriteMessage
  <1>2. s \in Seq(Msgs) /\ l \in Nat /\ accepted \in Nat
    BY DEF OrderIInv, OrderTypeOK
  <1>3. /\ l >= 1 /\ Head(s) = s[1] /\ Head(s) \in Msgs /\ Tail(s) \in Seq(Msgs)
        /\ Len(Tail(s)) = l - 1 /\ \A i \in 1..l - 1 : Tail(s)[i] = s[i + 1]
    BY <1>1, <1>2
  <1>4. send'[c] = Tail(s) /\ \A x \in Clients : x # c => send'[x] = send[x]
    BY <1>1 DEF OrderIInv, OrderTypeOK
  <1>5. /\ \A x \in Clients : x # c => last'[x] = last[x]
        /\ last'[c] = last[c] \/ last'[c] = s[1].n
    BY <1>1, <1>3 DEF OrderIInv, OrderTypeOK
  <1>6. OrderTypeOK'
    <2>1. Head(s).n \in Nat
      BY <1>3 DEF Msgs
    <2>2. last' \in [Clients -> Nat]
      BY <2>1, <1>1 DEF OrderIInv, OrderTypeOK
    <2>3. send' \in [Clients -> Seq(Msgs)]
      BY <1>1, <1>3 DEF OrderIInv, OrderTypeOK
    <2> QED BY <2>2, <2>3, <1>1 DEF OrderIInv, OrderTypeOK
  <1>7. \A i \in 1..l - 1 : i + 1 \in 1..l /\ 1 < i + 1
    BY <1>2
  <1>8. 1 \in 1..l
    BY <1>2, <1>3
  <1>9. /\ Ascending(s)
        /\ \A i \in 1..l : last[c] < s[i].n /\ s[i].n <= accepted
        /\ \A i \in 1..l, j \in 1..Len(broadcast) : s[i].n < broadcast[j].n
    BY DEF OrderIInv, InOrder, SentIsAccepted
  <1>10. \A i \in 1..l - 1 : s[1].n < s[i + 1].n
    BY <1>7, <1>8, <1>9 DEF Ascending
  <1>11. Ascending(Tail(s))
    <2> SUFFICES ASSUME NEW i \in 1..l - 1, NEW j \in 1..l - 1, i < j
                 PROVE  s[i + 1].n < s[j + 1].n
      BY <1>3 DEF Ascending
    <2>1. i + 1 < j + 1
      OBVIOUS
    <2> QED BY <2>1, <1>7, <1>9 DEF Ascending
  <1>12. ASSUME NEW i \in 1..l - 1
         PROVE  /\ last'[c] < send'[c][i].n /\ send'[c][i].n <= accepted
                /\ \A j \in 1..Len(broadcast) : send'[c][i].n < broadcast[j].n
    BY <1>3, <1>4, <1>5, <1>7, <1>9, <1>10
  <1> HIDE DEF s, l
  <1>13. InOrder'
    <2>1. Ascending(send'[c]) /\ Len(send'[c]) = l - 1
      BY <1>3, <1>4, <1>11
    <2>2. ASSUME NEW x \in Clients
          PROVE  /\ Ascending(send'[x])
                 /\ \A i \in 1..Len(send'[x]) :
                      /\ last'[x] < send'[x][i].n
                      /\ \A j \in 1..Len(broadcast) : send'[x][i].n < broadcast[j].n
      <3>1. CASE x = c
        BY <3>1, <2>1, <1>12
      <3>2. CASE x # c
        BY <3>2, <1>4, <1>5 DEF OrderIInv, InOrder
      <3> QED BY <3>1, <3>2
    <2>3. Ascending(broadcast)
      BY DEF OrderIInv, InOrder
    <2> QED BY <2>2, <2>3, <1>1 DEF InOrder
  <1>14. QueueIsNew'
    <2>1. ASSUME NEW j \in 1..Len(broadcast), NEW x \in Clients
          PROVE  last'[x] < broadcast[j].n
      BY <1>5, <1>8, <1>9 DEF OrderIInv, QueueIsNew
    <2>2. \A j \in 1..Len(broadcast) : broadcast[j].n <= accepted
      BY DEF OrderIInv, QueueIsNew
    <2> QED BY <2>1, <2>2, <1>1 DEF QueueIsNew
  <1>15. SentIsAccepted'
    <2>1. ASSUME NEW x \in Clients PROVE last'[x] <= accepted
      BY <1>5, <1>8, <1>9 DEF OrderIInv, SentIsAccepted
    <2>2. ASSUME NEW x \in Clients, NEW i \in 1..Len(send'[x])
          PROVE  send'[x][i].n <= accepted
      <3>1. CASE x = c
        BY <3>1, <1>3, <1>4, <1>12
      <3>2. CASE x # c
        BY <3>2, <1>4 DEF OrderIInv, SentIsAccepted
      <3> QED BY <3>1, <3>2
    <2> QED BY <2>1, <2>2, <1>1 DEF SentIsAccepted
  <1> QED BY <1>6, <1>13, <1>14, <1>15 DEF OrderIInv

LEMMA OrderStep == OrderIInv /\ [HubNext]_hubVars => OrderIInv'
  <1> SUFFICES ASSUME OrderIInv, [HubNext]_hubVars PROVE OrderIInv'
    OBVIOUS
  <1>1. ASSUME NEW u \in Users, NEW types \in SubChoices, SetSubs(u, types) PROVE OrderIInv'
    BY <1>1, OrderFrame DEF SetSubs
  <1>2. ASSUME NEW c \in Clients, ServeWS(c) \/ PeerGone(c) \/ PingFails(c) \/ WriteClose(c)
        PROVE  OrderIInv'
    BY <1>2, OrderFrame DEF ServeWS, PeerGone, PingFails, WriteClose
  <1>3. ASSUME NEW c \in Clients, HubRegister(c) \/ HubUnregister(c) \/ readPump(c)
        PROVE  OrderIInv'
    BY <1>3, OrderFrame DEF HubRegister, HubUnregister, readPump
  <1>4. CASE UNCHANGED hubVars
    BY <1>4, OrderFrame DEF hubVars
  <1> QED BY <1>1, <1>2, <1>3, <1>4, OrderBroadcast, OrderFanOut, OrderWrite DEF HubNext

\* For any number of clients, capacities and messages: every client is written
\* the messages in the order Broadcast accepted them, each at most once.
THEOREM HubKeepsOrder == HubSpec => []InOrder
  <1>1. HubInit => OrderIInv
    BY DEF HubInit, OrderIInv, OrderTypeOK, InOrder, Ascending, QueueIsNew, SentIsAccepted
  <1>2. OrderIInv => InOrder
    BY DEF OrderIInv
  <1> QED BY <1>1, <1>2, OrderStep, PTL DEF HubSpec

-----------------------------------------------------------------------------
(* Types and capacities.                                                   *)

PlaceTypes ==
    /\ clients \subseteq Clients /\ closed \subseteq Clients
    /\ DOMAIN subs \subseteq Users /\ \A u \in DOMAIN subs : subs[u] \subseteq Types
    /\ conn \in [Clients -> {"none", "open", "gone", "closed"}]
    /\ reader \in [Clients -> {"none", "run", "unregister", "done"}]
    /\ writer \in [Clients -> {"none", "run", "done"}]

\* A channel with no more messages than it has room for.
Channel(s, cap) == s \in Seq(Messages) /\ Len(s) <= cap

QueueTypes ==
    /\ Channel(broadcast, BroadcastCap) /\ accepted \in 0..MaxMessages
    /\ send \in [Clients -> Seq(Messages)] /\ \A c \in Clients : Channel(send[c], SendCap)
    /\ last \in [Clients -> 0..MaxMessages]

LEMMA ChannelAppend ==
    ASSUME NEW s, NEW cap \in Nat, Channel(s, cap), Len(s) < cap, NEW m \in Messages
    PROVE  Channel(Append(s, m), cap)
  <1>1. s \in Seq(Messages) /\ Len(s) \in Nat
    BY DEF Channel
  <1>2. Append(s, m) \in Seq(Messages) /\ Len(Append(s, m)) = Len(s) + 1
    BY <1>1
  <1> QED BY <1>1, <1>2 DEF Channel

LEMMA ChannelTail ==
    ASSUME NEW s, NEW cap \in Nat, Channel(s, cap), s # <<>>
    PROVE  Channel(Tail(s), cap) /\ Head(s) \in Messages
  <1>1. s \in Seq(Messages) /\ Len(s) \in Nat /\ Len(s) <= cap
    BY DEF Channel
  <1>2. Head(s) \in Messages /\ Tail(s) \in Seq(Messages) /\ Len(Tail(s)) = Len(s) - 1
    BY <1>1
  <1> QED BY <1>1, <1>2 DEF Channel

LEMMA PlaceStep == ASSUME PlaceTypes, [HubNext]_hubVars PROVE PlaceTypes'
  <1>1. ASSUME NEW u \in Users, NEW types \in SubChoices, SetSubs(u, types) PROVE PlaceTypes'
    <2>1. DOMAIN subs' \subseteq Users /\ \A v \in DOMAIN subs' : subs'[v] \subseteq Types
      BY <1>1, HubAssumption DEF SetSubs, PlaceTypes
    <2> QED BY <1>1, <2>1 DEF SetSubs, PlaceTypes
  <1>2. ASSUME NEW c \in Clients, ServeWS(c) \/ PeerGone(c) \/ PingFails(c) \/ WriteClose(c)
        PROVE  PlaceTypes'
    BY <1>2 DEF ServeWS, PeerGone, PingFails, WriteClose, PlaceTypes
  <1>3. ASSUME NEW c \in Clients, HubRegister(c) \/ HubUnregister(c) \/ readPump(c)
        PROVE  PlaceTypes'
    BY <1>3 DEF HubRegister, HubUnregister, readPump, PlaceTypes
  <1>4. ASSUME NEW c \in Clients, WriteMessage(c) PROVE PlaceTypes'
    BY <1>4 DEF WriteMessage, PlaceTypes
  <1>5. CASE UNCHANGED <<clients, closed, subs, conn, reader, writer>>
    BY <1>5 DEF PlaceTypes
  <1>6. ASSUME NEW type \in Types, Broadcast(type) PROVE PlaceTypes'
    BY <1>5, <1>6 DEF Broadcast
  <1>7. CASE HubFanOut \/ UNCHANGED hubVars
    BY <1>5, <1>7 DEF HubFanOut, hubVars
  <1> QED BY <1>1, <1>2, <1>3, <1>4, <1>6, <1>7 DEF HubNext

LEMMA QueueStep == ASSUME QueueTypes, [HubNext]_hubVars PROVE QueueTypes'
  <1>1. CASE UNCHANGED <<broadcast, accepted, send, last>>
    BY <1>1 DEF QueueTypes
  <1>2. ASSUME NEW type \in Types, Broadcast(type) PROVE QueueTypes'
    <2>1. accepted' = accepted + 1 /\ accepted + 1 \in 1..MaxMessages /\ accepted' \in 0..MaxMessages
      BY <1>2, HubAssumption DEF Broadcast, QueueTypes
    <2>2. [type |-> type, n |-> accepted + 1] \in Messages
      BY <2>1 DEF Messages
    <2>3. Channel(broadcast, BroadcastCap) /\ Len(broadcast) < BroadcastCap /\ BroadcastCap \in Nat
      BY <1>2, HubAssumption DEF QueueTypes, Broadcast
    <2>4. broadcast' = Append(broadcast, [type |-> type, n |-> accepted + 1])
      BY <1>2 DEF Broadcast
    <2>5. Channel(broadcast', BroadcastCap)
      BY <2>2, <2>3, <2>4, ChannelAppend
    <2> QED BY <1>2, <2>1, <2>5 DEF Broadcast, QueueTypes
  <1>3. CASE HubFanOut
    <2> DEFINE m == Head(broadcast)
    <2>1. broadcast # <<>> /\ broadcast' = Tail(broadcast) /\ UNCHANGED <<accepted, last>>
      BY <1>3 DEF HubFanOut
    <2>2. BroadcastCap \in Nat /\ SendCap \in Nat
      BY HubAssumption
    <2>3. Channel(broadcast', BroadcastCap) /\ m \in Messages
      BY <2>1, <2>2, ChannelTail DEF QueueTypes
    <2>4. send' = [c \in Clients |->
                     IF c \in clients /\ subscribed(User[c], m.type) /\ Len(send[c]) < SendCap
                     THEN Append(send[c], m) ELSE send[c]]
      BY <1>3 DEF HubFanOut
    <2>5. DOMAIN send' = Clients /\ send' = [c \in Clients |-> send'[c]]
      BY <2>4
    <2>6. ASSUME NEW c \in Clients PROVE Channel(send'[c], SendCap)
      <3>1. Channel(send[c], SendCap)
        BY DEF QueueTypes
      <3>2. send'[c] = send[c] \/ (Len(send[c]) < SendCap /\ send'[c] = Append(send[c], m))
        BY <2>4
      <3> HIDE DEF m
      <3> QED BY <2>2, <2>3, <3>1, <3>2, ChannelAppend
    <2>7. send' \in [Clients -> Seq(Messages)]
      BY <2>5, <2>6 DEF Channel
    <2> QED BY <2>1, <2>3, <2>6, <2>7 DEF QueueTypes
  <1>4. ASSUME NEW c \in Clients, WriteMessage(c) PROVE QueueTypes'
    <2>1. send[c] # <<>> /\ send' = [send EXCEPT ![c] = Tail(send[c])] /\ UNCHANGED <<broadcast, accepted>>
      BY <1>4 DEF WriteMessage
    <2>2. Channel(send[c], SendCap) /\ SendCap \in Nat
      BY HubAssumption DEF QueueTypes
    <2>3. Channel(Tail(send[c]), SendCap) /\ Head(send[c]) \in Messages
      BY <2>1, <2>2, ChannelTail
    <2>4. send' \in [Clients -> Seq(Messages)] /\ \A x \in Clients : Channel(send'[x], SendCap)
      BY <2>1, <2>3 DEF QueueTypes, Channel
    <2>5. Head(send[c]).n \in 0..MaxMessages
      BY <2>3, HubAssumption DEF Messages
    <2>6. last' = last \/ last' = [last EXCEPT ![c] = Head(send[c]).n]
      BY <1>4 DEF WriteMessage
    <2>7. last' \in [Clients -> 0..MaxMessages]
      BY <2>5, <2>6 DEF QueueTypes
    <2> QED BY <2>1, <2>4, <2>7 DEF QueueTypes
  <1>5. ASSUME NEW u \in Users, NEW types \in SubChoices, SetSubs(u, types) PROVE QueueTypes'
    BY <1>1, <1>5 DEF SetSubs
  <1>6. ASSUME NEW c \in Clients, ServeWS(c) \/ PeerGone(c) \/ PingFails(c) \/ WriteClose(c)
        PROVE  QueueTypes'
    BY <1>1, <1>6 DEF ServeWS, PeerGone, PingFails, WriteClose
  <1>7. ASSUME NEW c \in Clients, HubRegister(c) \/ HubUnregister(c) \/ readPump(c)
        PROVE  QueueTypes'
    BY <1>1, <1>7 DEF HubRegister, HubUnregister, readPump
  <1>8. CASE UNCHANGED hubVars
    BY <1>1, <1>8 DEF hubVars
  <1> QED BY <1>2, <1>3, <1>4, <1>5, <1>6, <1>7, <1>8 DEF HubNext

\* The state keeps its shape, and no channel ever holds more than its capacity:
\* what finds one full is dropped, so nothing blocks (hub.go, Broadcast and Run).
THEOREM HubTypes == HubSpec => []HubTypeOK
  <1>1. HubInit => PlaceTypes /\ QueueTypes
    <2> SUFFICES ASSUME HubInit PROVE PlaceTypes /\ QueueTypes
      OBVIOUS
    <2>1. PlaceTypes
      BY DEF HubInit, PlaceTypes
    <2>2. <<>> \in Seq(Messages) /\ Len(<<>>) = 0
      OBVIOUS
    <2>3. \A cap \in Nat : Channel(<<>>, cap)
      BY <2>2 DEF Channel
    <2>4. QueueTypes
      BY <2>2, <2>3, HubAssumption DEF HubInit, QueueTypes
    <2> QED BY <2>1, <2>4
  <1>2. PlaceTypes /\ QueueTypes => HubTypeOK
    BY DEF PlaceTypes, QueueTypes, Channel, HubTypeOK
  <1> QED BY <1>1, <1>2, PlaceStep, QueueStep, PTL DEF HubSpec
=============================================================================

-------------------------- MODULE ClientServerProofs --------------------------
(* Orders: from the client's connection through the queue and a            *)
(* LeaderThread's hands into a log, for any number of clients, servers and *)
(* LeaderThreads.                                                          *)
EXTENDS ClientServer, TLAPS

Early == {"start", "identify", "redirect", "identify_leader"}
PCs == Early \cup {"order", "await", "done"}
HandlerPlaces == {"none", "greet", "check", "get_ip", "get_port", "serve", "wait"}

Numbers == 0..NumRequests - 1

\* The types of the state that orders go through.
OrderTypes ==
    /\ running \subseteq Server
    /\ erq \in [Server -> Seq(Orders)]
    /\ hand \in [Server -> [LeaderThread -> Orders \cup {Idle}]]
    /\ meta_lock \in [Server -> LeaderThread \cup {Free}]
    /\ smr_log \in [Server -> Seq(Orders)]
    /\ fulfilled \subseteq Orders
    /\ pc \in [Client -> PCs]
    /\ next \in [Client -> Nat]
    /\ contact = [c \in Client |-> contact[c]]
    /\ handler \in [Client -> HandlerPlaces]
    /\ to_server \in [Client -> Seq(Numbers)]

\* A request is once in a queue until its promise is set, ...
QueuedOnce ==
    \A s, t \in Server : \A i \in 1..Len(erq[s]), j \in 1..Len(erq[t]) :
        erq[s][i] = erq[t][j] => s = t /\ i = j
QueuedIsOpen ==
    \A s \in Server : \A i \in 1..Len(erq[s]) : erq[s][i] \notin fulfilled

\* ... from then on with one LeaderThread, ...
HandFulfilled ==
    \A s \in Server, t \in LeaderThread : hand[s][t] # Idle => hand[s][t] \in fulfilled
HandOnce ==
    \A s, u \in Server : \A t, v \in LeaderThread :
        hand[s][t] # Idle /\ hand[s][t] = hand[u][v] => s = u /\ t = v

\* ... until that thread has meta_lock and it is once in a log.
LoggedFulfilled ==
    \A s \in Server : \A i \in 1..Len(smr_log[s]) : smr_log[s][i] \in fulfilled
LoggedOnce ==
    \A s, t \in Server : \A i \in 1..Len(smr_log[s]), j \in 1..Len(smr_log[t]) :
        smr_log[s][i] = smr_log[t][j] => s = t /\ i = j
HandNotLogged ==
    \A s, u \in Server : \A t \in LeaderThread : \A i \in 1..Len(smr_log[u]) :
        hand[s][t] = smr_log[u][i] => meta_lock[s] = t
HolderLogged ==
    \A s \in Server, t \in LeaderThread :
        meta_lock[s] = t =>
            hand[s][t] # Idle /\ \E i \in 1..Len(smr_log[s]) : smr_log[s][i] = hand[s][t]
FulfilledSomewhere ==
    \A o \in fulfilled :
        \/ \E s \in Server, t \in LeaderThread : hand[s][t] = o
        \/ \E s \in Server : \E i \in 1..Len(smr_log[s]) : smr_log[s][i] = o

OrderInv ==
    /\ QueuedOnce /\ QueuedIsOpen /\ HandFulfilled /\ HandOnce
    /\ LoggedFulfilled /\ LoggedOnce /\ HandNotLogged /\ HolderLogged /\ FulfilledSomewhere

\* A client sends no order before it is connected to the server it will stay with, and
\* its order numbers go up.
ConnectsFirst(c) ==
    pc[c] \in Early => next[c] = 0 /\ to_server[c] = <<>> /\ handler[c] # "wait"
Below(c, n) ==
    /\ pc[c] \notin Early
    /\ pc[c] = "order" => n < next[c]
    /\ pc[c] = "await" => n <= next[c]
PlacedBelow(c) == \A o \in PlacedOrders : o.client = c => Below(c, o.order_num)
SentBelow(c) == \A k \in 1..Len(to_server[c]) : Below(c, to_server[c][k])
SentInOrder(c) ==
    \A k, l \in 1..Len(to_server[c]) : k < l => to_server[c][k] < to_server[c][l]

Request(c, k) == [client |-> c, order_num |-> to_server[c][k]]

\* Of the requests the handler has not answered, only the one it waits for is placed.
SentNotPlaced(c) ==
    \A k \in 1..Len(to_server[c]) :
        Request(c, k) \in PlacedOrders => handler[c] = "wait" /\ k = 1
PlacedAt(o, s) ==
    s \in Server /\ (o \in fulfilled \/ \E i \in 1..Len(erq[s]) : erq[s][i] = o)
WaitsForHead(c) ==
    handler[c] = "wait" =>
        c \in Updater /\ to_server[c] # <<>> /\ PlacedAt(Request(c, 1), contact[c])

ClientOK(c) ==
    /\ ConnectsFirst(c) /\ PlacedBelow(c) /\ SentBelow(c) /\ SentInOrder(c)
    /\ c \in Updater => SentNotPlaced(c)
    /\ WaitsForHead(c)

Inv == OrderTypes /\ OrderInv /\ \A c \in Client : ClientOK(c)

-----------------------------------------------------------------------------
(* Sequences of numbers. *)

LEMMA ElementsAreNat ==
  ASSUME NEW q \in Seq(Numbers), NEW k \in 1..Len(q)
  PROVE  q[k] \in Nat
<1>1. q[k] \in Numbers
  OBVIOUS
<1> QED
  BY <1>1, BoundAssumption DEF Numbers

LEMMA IdleIsNoOrder == Idle \notin Orders
<1>1. Orders \subseteq [client : Updater, order_num : Nat]
  <2>1. 0..NumRequests - 1 \subseteq Nat
    BY BoundAssumption
  <2> QED
    BY <2>1 DEF Orders
<1> QED
  BY <1>1, ThreadAssumption

LEMMA AppendIs ==
  ASSUME NEW S, NEW q \in Seq(S), NEW e \in S
  PROVE  /\ Append(q, e) \in Seq(S)
         /\ Len(q) \in Nat
         /\ Len(Append(q, e)) = Len(q) + 1
         /\ Append(q, e)[Len(q) + 1] = e
         /\ \A k \in 1..Len(q) : Append(q, e)[k] = q[k]
  OBVIOUS

LEMMA TailIs ==
  ASSUME NEW S, NEW q \in Seq(S), q # <<>>
  PROVE  /\ Tail(q) \in Seq(S)
         /\ Len(q) \in Nat /\ 1 \in 1..Len(q)
         /\ Len(Tail(q)) = Len(q) - 1
         /\ Head(q) = q[1] /\ Head(q) \in S
         /\ \A k \in 1..Len(q) - 1 : Tail(q)[k] = q[k + 1]
  OBVIOUS

-----------------------------------------------------------------------------
(* The invariant holds at the start. *)

LEMMA InitInv == Init => Inv
<1> SUFFICES ASSUME Init PROVE Inv
  OBVIOUS
<1>1. OrderTypes
  BY BoundAssumption
     DEF Init, OrderTypes, PCs, Early, HandlerPlaces, Numbers, Orders, Client
<1>2. OrderInv
  BY ThreadAssumption
     DEF Init, OrderInv, QueuedOnce, QueuedIsOpen, HandFulfilled, HandOnce, LoggedFulfilled,
         LoggedOnce, HandNotLogged, HolderLogged, FulfilledSomewhere
<1>3. PlacedOrders = {}
  BY DEF Init, PlacedOrders
<1>4. \A c \in Client : ClientOK(c)
  BY <1>3
     DEF Init, ClientOK, ConnectsFirst, PlacedBelow, SentBelow, SentInOrder, SentNotPlaced,
         WaitsForHead, Client, Below, Early
<1> QED
  BY <1>1, <1>2, <1>4 DEF Inv

-----------------------------------------------------------------------------
(* Steps that move no order. *)

orderVars == <<erq, hand, meta_lock, smr_log, fulfilled>>

LEMMA OrderInvStays ==
  ASSUME OrderInv, UNCHANGED orderVars
  PROVE  OrderInv'
  BY DEF OrderInv, orderVars, QueuedOnce, QueuedIsOpen, HandFulfilled, HandOnce,
         LoggedFulfilled, LoggedOnce, HandNotLogged, HolderLogged, FulfilledSomewhere

LEMMA PlacedStays ==
  ASSUME UNCHANGED <<erq, fulfilled>>
  PROVE  PlacedOrders' = PlacedOrders
  BY DEF PlacedOrders

\* What a client's invariant is about.
ClientUnchanged(c) ==
    /\ pc'[c] = pc[c] /\ next'[c] = next[c] /\ contact'[c] = contact[c]
    /\ handler'[c] = handler[c] /\ to_server'[c] = to_server[c]

\* Orders may have become fulfilled, none was placed.
NothingPlaced ==
    /\ PlacedOrders' = PlacedOrders
    /\ \A o \in Orders : \A s \in Server : PlacedAt(o, s) => PlacedAt(o, s)'

LEMMA UnchangedPlacesNothing ==
  ASSUME UNCHANGED <<erq, fulfilled>>
  PROVE  NothingPlaced
  BY PlacedStays DEF NothingPlaced, PlacedAt

LEMMA ClientStays ==
  ASSUME NEW c \in Client, OrderTypes, ClientOK(c), ClientUnchanged(c), NothingPlaced
  PROVE  ClientOK(c)'
<1>1. ConnectsFirst(c)' /\ PlacedBelow(c)' /\ SentBelow(c)' /\ SentInOrder(c)'
  BY DEF ClientOK, ClientUnchanged, NothingPlaced, ConnectsFirst, PlacedBelow, SentBelow,
         SentInOrder, Below
<1>2. ASSUME c \in Updater
      PROVE  SentNotPlaced(c)'
  BY <1>2 DEF ClientOK, ClientUnchanged, NothingPlaced, SentNotPlaced, Request
<1>3. WaitsForHead(c)'
  <2> SUFFICES ASSUME handler'[c] = "wait"
               PROVE  /\ c \in Updater /\ to_server'[c] # <<>>
                      /\ PlacedAt(Request(c, 1), contact[c])'
    BY DEF WaitsForHead
  <2>1. c \in Updater /\ to_server[c] # <<>> /\ PlacedAt(Request(c, 1), contact[c])
    BY DEF ClientOK, ClientUnchanged, WaitsForHead
  <2>2. to_server[c] \in Seq(Numbers)
    BY DEF OrderTypes
  <2>3. Request(c, 1) \in Orders
    <3>1. 1 \in 1..Len(to_server[c])
      BY <2>1, <2>2
    <3>2. to_server[c][1] \in Numbers
      BY <3>1, <2>2
    <3> QED
      BY <2>1, <3>2 DEF Request, Orders, Numbers
  <2>4. contact[c] \in Server
    BY <2>1 DEF PlacedAt
  <2>5. PlacedAt(Request(c, 1), contact[c])'
        <=> contact'[c] \in Server
            /\ (Request(c, 1)' \in fulfilled'
                \/ \E i \in 1..Len(erq'[contact'[c]]) : erq'[contact'[c]][i] = Request(c, 1)')
    BY DEF PlacedAt
  <2>6. Request(c, 1)' = Request(c, 1)
    BY DEF Request, ClientUnchanged
  <2> QED
    BY <2>1, <2>3, <2>4, <2>5, <2>6 DEF NothingPlaced, ClientUnchanged, PlacedAt
<1> QED
  BY <1>1, <1>2, <1>3 DEF ClientOK

-----------------------------------------------------------------------------
(* Steps of a client. *)

\* A client that has sent nothing yet has placed nothing, wherever it goes next.
LEMMA EarlyClient ==
  ASSUME NEW c \in Client, OrderTypes, ClientOK(c), pc[c] \in Early, NothingPlaced,
         to_server'[c] = <<>>, handler'[c] # "wait", next'[c] = 0
  PROVE  ClientOK(c)'
<1>1. \A o \in PlacedOrders' : o.client # c
  BY DEF ClientOK, PlacedBelow, Below, NothingPlaced
<1>2. ConnectsFirst(c)' /\ PlacedBelow(c)' /\ SentBelow(c)' /\ SentInOrder(c)'
  BY <1>1 DEF ConnectsFirst, PlacedBelow, SentBelow, SentInOrder
<1>3. SentNotPlaced(c)' /\ WaitsForHead(c)'
  BY DEF SentNotPlaced, WaitsForHead
<1> QED
  BY <1>2, <1>3 DEF ClientOK

LEMMA ClientThreadKeeps ==
  ASSUME NEW c \in Client, Inv, ClientThread(c)
  PROVE  \A d \in Client : ClientOK(d)'
<1> USE DEF Inv
<1>1. NothingPlaced
  <2>1. UNCHANGED threadVars
    BY DEF ClientThread, Connect, RecvIsLeader, RecvLeaderInfo, RecvIsLeaderAgain, SendRequest,
           RecvAnswer, AllSent, ServerWentDown
  <2> QED
    BY <2>1, UnchangedPlacesNothing DEF threadVars
<1>2. ASSUME NEW d \in Client, d # c
      PROVE  ClientOK(d)'
  <2>1. ClientUnchanged(d)
    BY <1>2 DEF ClientThread, Connect, RecvIsLeader, RecvLeaderInfo, RecvIsLeaderAgain,
                SendRequest, RecvAnswer, AllSent, ServerWentDown, OpenConnection,
                clientVars, connVars, OrderTypes, ClientUnchanged
  <2> QED
    BY <1>1, <2>1, ClientStays
<1> SUFFICES ClientOK(c)'
  BY <1>2
<1>3. CASE \E s \in Server : Connect(c, s)
  <2>1. /\ pc[c] \in Early /\ next'[c] = next[c]
        /\ to_server'[c] = <<>> /\ handler'[c] # "wait"
    BY <1>3 DEF Connect, OpenConnection, Early, OrderTypes
  <2> QED
    BY <1>1, <2>1, EarlyClient DEF ClientOK, ConnectsFirst
<1>4. CASE RecvIsLeader(c) \/ RecvIsLeaderAgain(c)
  <2>1. /\ pc[c] \in Early /\ next'[c] = next[c]
        /\ to_server'[c] = to_server[c] /\ handler'[c] = handler[c]
    BY <1>4 DEF RecvIsLeader, RecvIsLeaderAgain, Early
  <2> QED
    BY <1>1, <2>1, EarlyClient DEF ClientOK, ConnectsFirst
<1>5. CASE RecvLeaderInfo(c)
  <2>1. /\ pc[c] \in Early /\ next'[c] = next[c]
        /\ to_server'[c] \in {<<>>, to_server[c]} /\ handler'[c] \in {"greet", "none", handler[c]}
    BY <1>5 DEF RecvLeaderInfo, OpenConnection, Early, OrderTypes
  <2> QED
    BY <1>1, <2>1, EarlyClient DEF ClientOK, ConnectsFirst
<1>6. CASE SendRequest(c)
  <2> DEFINE n == Len(to_server[c])
  <2>1. /\ pc[c] = "order" /\ pc'[c] = "await" /\ next'[c] = next[c] /\ next[c] \in Nat
        /\ to_server[c] \in Seq(Numbers) /\ next[c] \in Numbers
        /\ to_server'[c] = Append(to_server[c], next[c])
        /\ handler'[c] = handler[c] /\ contact'[c] = contact[c]
    BY <1>6, BoundAssumption DEF SendRequest, OrderTypes, Numbers
  <2>2. /\ n \in Nat /\ Len(to_server'[c]) = n + 1
        /\ to_server'[c][n + 1] = next[c]
        /\ \A k \in 1..n : to_server'[c][k] = to_server[c][k]
        /\ \A k \in 1..n : to_server[c][k] \in Nat
    BY <2>1, AppendIs, ElementsAreNat
  <2>3. \A k \in 1..n : to_server[c][k] < next[c]
    BY <2>1 DEF ClientOK, SentBelow, Below
  <2>4. ConnectsFirst(c)' /\ PlacedBelow(c)'
    <3>1. \A o \in PlacedOrders : o.client = c => o.order_num < next[c] /\ o.order_num \in Nat
      BY <2>1 DEF ClientOK, PlacedBelow, Below, PlacedOrders, Orders
    <3> QED
      BY <1>1, <2>1, <3>1 DEF NothingPlaced, ConnectsFirst, PlacedBelow, Below, Early
  <2>5. SentBelow(c)'
    BY <2>1, <2>2, <2>3 DEF SentBelow, Below, Early
  <2>6. SentInOrder(c)'
    BY <2>1, <2>2, <2>3 DEF ClientOK, SentInOrder
  <2>7. ASSUME c \in Updater
        PROVE  SentNotPlaced(c)'
    <3> SUFFICES ASSUME NEW k \in 1..n + 1, Request(c, k)' \in PlacedOrders
                 PROVE  handler[c] = "wait" /\ k = 1
      BY <1>1, <2>1, <2>2 DEF SentNotPlaced, NothingPlaced
    <3>1. k # n + 1
      BY <2>1, <2>2 DEF Request, ClientOK, PlacedBelow, Below
    <3>2. k \in 1..n /\ Request(c, k)' = Request(c, k)
      BY <2>2, <3>1 DEF Request
    <3> QED
      BY <2>7, <3>2 DEF ClientOK, SentNotPlaced
  <2>8. WaitsForHead(c)'
    <3> SUFFICES ASSUME handler[c] = "wait"
                 PROVE  WaitsForHead(c)'
      BY <2>1 DEF WaitsForHead
    <3>1. c \in Updater /\ to_server[c] # <<>> /\ PlacedAt(Request(c, 1), contact[c])
      BY DEF ClientOK, WaitsForHead
    <3>2. 1 \in 1..n
      BY <2>1, <3>1
    <3>3. Request(c, 1)' = Request(c, 1) /\ to_server'[c] # <<>>
      BY <2>2, <3>2 DEF Request
    <3>4. PlacedAt(Request(c, 1), contact[c])'
      BY <1>6, <2>1, <3>1, <3>3 DEF PlacedAt, SendRequest, threadVars
    <3> QED
      BY <3>1, <3>3, <3>4 DEF WaitsForHead
  <2> QED
    BY <2>4, <2>5, <2>6, <2>7, <2>8 DEF ClientOK
<1>7. CASE RecvAnswer(c) \/ AllSent(c) \/ ServerWentDown(c)
  <2>1. /\ to_server'[c] = to_server[c] /\ handler'[c] = handler[c] /\ contact'[c] = contact[c]
        /\ \/ pc[c] = "await" /\ pc'[c] = "order" /\ next'[c] = next[c] + 1
           \/ pc'[c] = "done" /\ next'[c] = next[c]
    BY <1>7 DEF RecvAnswer, AllSent, ServerWentDown, clientVars, connVars, OrderTypes
  <2>2. next[c] \in Nat /\ to_server[c] \in Seq(Numbers)
    BY DEF OrderTypes
  <2>3. \A k : Request(c, k)' = Request(c, k)
    BY <2>1 DEF Request
  <2>4. ConnectsFirst(c)' /\ SentInOrder(c)'
    BY <2>1 DEF ClientOK, ConnectsFirst, SentInOrder, Early
  <2>5. ASSUME NEW n \in Nat, Below(c, n)
        PROVE  Below(c, n)'
    BY <2>1, <2>2, <2>5 DEF Below, Early
  <2>6. PlacedBelow(c)'
    BY <1>1, <2>5 DEF NothingPlaced, ClientOK, PlacedBelow, PlacedOrders, Orders
  <2>7. SentBelow(c)'
    <3> SUFFICES ASSUME NEW k \in 1..Len(to_server[c])
                 PROVE  Below(c, to_server[c][k])'
      BY <2>1 DEF SentBelow
    <3>1. to_server[c][k] \in Nat
      BY <2>2, ElementsAreNat
    <3>2. Below(c, to_server[c][k])
      BY DEF ClientOK, SentBelow
    <3> QED
      BY <2>1, <2>2, <3>1, <3>2 DEF Below, Early
  <2>8. (c \in Updater => SentNotPlaced(c)') /\ WaitsForHead(c)'
    <3>1. c \in Updater => SentNotPlaced(c)'
      BY <1>1, <2>1, <2>3 DEF ClientOK, SentNotPlaced, NothingPlaced
    <3>2. UNCHANGED <<erq, fulfilled>>
      BY <1>7 DEF RecvAnswer, AllSent, ServerWentDown, threadVars
    <3>3. WaitsForHead(c)'
      BY <2>1, <3>2 DEF ClientOK, WaitsForHead, PlacedAt, Request
    <3> QED
      BY <3>1, <3>3
  <2> QED
    BY <2>4, <2>6, <2>7, <2>8 DEF ClientOK
<1> QED
  BY <1>3, <1>4, <1>5, <1>6, <1>7 DEF ClientThread

-----------------------------------------------------------------------------
(* Steps of a CustomerHandler. *)

\* Looking for the leader, and the end of a connection.
Enquiry(c) ==
    SendIsLeader(c) \/ CheckLeader(c) \/ GetLeaderIp(c) \/ GetLeaderPort(c) \/ EndOfRequests(c)

LEMMA EnquiryKeeps ==
  ASSUME NEW c \in Client, Inv, Enquiry(c)
  PROVE  \A d \in Client : ClientOK(d)'
<1> USE DEF Inv
<1>1. /\ UNCHANGED <<erq, fulfilled, pc, next, contact, to_server>>
      /\ handler[c] # "wait" /\ handler'[c] # "wait"
      /\ \A d \in Client : d # c => handler'[d] = handler[d]
  BY DEF Enquiry, SendIsLeader, CheckLeader, GetLeaderIp, GetLeaderPort, EndOfRequests, At,
         MoveTo, threadVars, clientVars, OrderTypes
<1>2. NothingPlaced
  BY <1>1, UnchangedPlacesNothing
<1>3. ASSUME NEW d \in Client, d # c
      PROVE  ClientOK(d)'
  BY <1>1, <1>2, <1>3, ClientStays DEF ClientUnchanged
<1>4. ConnectsFirst(c)' /\ PlacedBelow(c)' /\ SentBelow(c)' /\ SentInOrder(c)'
  BY <1>1, <1>2 DEF ClientOK, NothingPlaced, ConnectsFirst, PlacedBelow, SentBelow,
                    SentInOrder, Below
<1>5. (c \in Updater => SentNotPlaced(c)') /\ WaitsForHead(c)'
  BY <1>1, <1>2 DEF ClientOK, NothingPlaced, SentNotPlaced, WaitsForHead, Request
<1> QED
  BY <1>3, <1>4, <1>5 DEF ClientOK

\* The handler answered its first request and takes it off.
LEMMA AnswerKeeps ==
  ASSUME NEW c \in Client, Inv, ReturnRecord(c) \/ ShipLaptop(c)
  PROVE  \A d \in Client : ClientOK(d)'
<1> USE DEF Inv
<1> DEFINE q == to_server[c]
<1>1. /\ UNCHANGED <<erq, fulfilled, pc, next, contact>>
      /\ to_server[c] \in Seq(Numbers) /\ to_server[c] # <<>>
      /\ to_server'[c] = Tail(to_server[c]) /\ handler'[c] # "wait"
      /\ \A d \in Client : d # c => handler'[d] = handler[d] /\ to_server'[d] = to_server[d]
  <2>1. CASE ReturnRecord(c)
    BY <2>1 DEF ReturnRecord, At, threadVars, clientVars, OrderTypes
  <2>2. CASE ShipLaptop(c)
    <3>1. to_server[c] # <<>>
      BY <2>2 DEF ShipLaptop, At, ClientOK, WaitsForHead
    <3> QED
      BY <2>2, <3>1 DEF ShipLaptop, At, MoveTo, threadVars, clientVars, OrderTypes
  <2> QED
    BY <2>1, <2>2
<1>2. NothingPlaced
  BY <1>1, UnchangedPlacesNothing
<1>3. ASSUME NEW d \in Client, d # c
      PROVE  ClientOK(d)'
  BY <1>1, <1>2, <1>3, ClientStays DEF ClientUnchanged
<1>4. /\ Len(q) \in Nat /\ 1 \in 1..Len(q)
      /\ Len(to_server'[c]) = Len(q) - 1
      /\ \A k \in 1..Len(q) - 1 : to_server'[c][k] = q[k + 1]
  BY <1>1, TailIs
<1>5. ConnectsFirst(c)' /\ PlacedBelow(c)'
  <2>1. pc[c] \notin Early
    BY <1>1 DEF ClientOK, ConnectsFirst
  <2> QED
    BY <2>1, <1>1, <1>2 DEF ClientOK, NothingPlaced, ConnectsFirst, PlacedBelow, Below
<1>6. SentBelow(c)'
  BY <1>1, <1>4 DEF ClientOK, SentBelow, Below
<1>7. SentInOrder(c)'
  <2> SUFFICES ASSUME NEW k \in 1..Len(q) - 1, NEW l \in 1..Len(q) - 1, k < l
               PROVE  to_server'[c][k] < to_server'[c][l]
    BY <1>4 DEF SentInOrder
  <2>1. k + 1 \in 1..Len(q) /\ l + 1 \in 1..Len(q) /\ k + 1 < l + 1
    BY <1>4
  <2>2. q[k + 1] < q[l + 1]
    BY <2>1 DEF ClientOK, SentInOrder
  <2> QED
    BY <1>4, <2>2
<1>8. ASSUME c \in Updater
      PROVE  SentNotPlaced(c)'
  <2> SUFFICES ASSUME NEW k \in 1..Len(q) - 1
               PROVE  Request(c, k)' \notin PlacedOrders
    BY <1>2, <1>4 DEF SentNotPlaced, NothingPlaced
  <2>1. Request(c, k)' = Request(c, k + 1)
    BY <1>4 DEF Request
  <2>2. k + 1 \in 1..Len(q) /\ k + 1 # 1
    BY <1>4
  <2> QED
    BY <1>8, <2>1, <2>2 DEF ClientOK, SentNotPlaced
<1>9. WaitsForHead(c)'
  BY <1>1 DEF WaitsForHead
<1> QED
  BY <1>3, <1>5, <1>6, <1>7, <1>8, <1>9 DEF ClientOK

\* What CreateLaptop puts into the queue.
LEMMA CreateLaptopPlaces ==
  ASSUME NEW c \in Client, Inv, CreateLaptop(c)
  PROVE  /\ c \in Updater /\ contact[c] \in Server
         /\ to_server[c] # <<>> /\ 1 \in 1..Len(to_server[c])
         /\ erq' = [erq EXCEPT ![contact[c]] = Append(@, Request(c, 1))]
         /\ Request(c, 1) \in Orders
         /\ Request(c, 1) \notin PlacedOrders
         /\ PlacedOrders' = PlacedOrders \cup {Request(c, 1)}
         /\ \A o \in Orders : \A s \in Server : PlacedAt(o, s) => PlacedAt(o, s)'
         /\ PlacedAt(Request(c, 1), contact[c])'
<1> USE DEF Inv
<1> DEFINE s == contact[c]
<1> DEFINE o == Request(c, 1)
<1>1. /\ c \in Updater /\ s \in Server /\ to_server[c] # <<>> /\ handler[c] = "serve"
      /\ to_server[c] \in Seq(Numbers) /\ fulfilled' = fulfilled
      /\ erq' = [erq EXCEPT ![s] =
                   Append(@, [client |-> c, order_num |-> Head(to_server[c])])]
  BY DEF CreateLaptop, At, OrderTypes
<1>2. 1 \in 1..Len(to_server[c]) /\ Head(to_server[c]) = to_server[c][1]
      /\ to_server[c][1] \in Numbers
  BY <1>1, TailIs
<1>3. erq' = [erq EXCEPT ![s] = Append(@, o)]
  BY <1>1, <1>2 DEF Request
<1>4. o \in Orders
  BY <1>1, <1>2 DEF Request, Orders, Numbers
<1>5. o \notin PlacedOrders
  BY <1>1, <1>2 DEF ClientOK, SentNotPlaced
<1> HIDE DEF o, s
<1>6. /\ erq'[s] = Append(erq[s], o)
      /\ \A t \in Server : t # s => erq'[t] = erq[t]
      /\ erq[s] \in Seq(Orders)
  BY <1>1, <1>3 DEF OrderTypes
<1>7. /\ Len(erq[s]) \in Nat /\ Len(erq'[s]) = Len(erq[s]) + 1
      /\ erq'[s][Len(erq[s]) + 1] = o
      /\ \A i \in 1..Len(erq[s]) : erq'[s][i] = erq[s][i]
  BY <1>4, <1>6, AppendIs
<1>8. ASSUME NEW p \in Orders, NEW t \in Server
      PROVE  (\E i \in 1..Len(erq'[t]) : erq'[t][i] = p)
             <=> (t = s /\ p = o) \/ \E i \in 1..Len(erq[t]) : erq[t][i] = p
  <2>1. CASE t # s
    BY <1>6, <2>1
  <2>2. CASE t = s
    <3>1. ASSUME NEW i \in 1..Len(erq'[t])
          PROVE  i \in 1..Len(erq[t]) \/ erq'[t][i] = o
      BY <1>7, <2>2
    <3>2. 1..Len(erq[t]) \subseteq 1..Len(erq'[t]) /\ Len(erq[s]) + 1 \in 1..Len(erq'[s])
      BY <1>7, <2>2
    <3> QED
      BY <1>7, <2>2, <3>1, <3>2
  <2> QED
    BY <2>1, <2>2
<1>9. PlacedOrders' = PlacedOrders \cup {o}
  BY <1>1, <1>4, <1>8 DEF PlacedOrders
<1>10. \A p \in Orders : \A t \in Server : PlacedAt(p, t) => PlacedAt(p, t)'
  BY <1>1, <1>8 DEF PlacedAt
<1>11. o' = o /\ s' = s
  BY DEF CreateLaptop, clientVars, Request, o, s
<1>12. PlacedAt(o, s)'
  <2>1. \E i \in 1..Len(erq'[s]) : erq'[s][i] = o
    BY <1>1, <1>4, <1>8
  <2> QED
    BY <1>1, <1>11, <2>1 DEF PlacedAt
<1> QED
  BY <1>1, <1>2, <1>3, <1>4, <1>5, <1>9, <1>10, <1>12 DEF o, s

LEMMA CreateLaptopKeeps ==
  ASSUME NEW c \in Client, Inv, CreateLaptop(c)
  PROVE  (\A d \in Client : ClientOK(d)') /\ OrderInv'
<1> USE DEF Inv
<1> DEFINE s == contact[c]
<1> DEFINE o == Request(c, 1)
<1>1. /\ UNCHANGED <<pc, next, contact, to_server, hand, meta_lock, smr_log, fulfilled>>
      /\ handler[c] = "serve" /\ handler'[c] = "wait"
      /\ \A d \in Client : d # c => handler'[d] = handler[d]
      /\ \A d, k : Request(d, k)' = Request(d, k)
  BY DEF CreateLaptop, At, MoveTo, clientVars, OrderTypes, Request
<1>2. /\ c \in Updater /\ s \in Server /\ to_server[c] # <<>> /\ 1 \in 1..Len(to_server[c])
      /\ erq' = [erq EXCEPT ![s] = Append(@, o)]
      /\ o \in Orders /\ o \notin PlacedOrders
      /\ PlacedOrders' = PlacedOrders \cup {o}
      /\ \A p \in Orders : \A t \in Server : PlacedAt(p, t) => PlacedAt(p, t)'
      /\ PlacedAt(o, s)'
  BY CreateLaptopPlaces
<1>3. \A d \in Client : ConnectsFirst(d)' /\ SentBelow(d)' /\ SentInOrder(d)'
  BY <1>1, <1>2 DEF ClientOK, ConnectsFirst, SentBelow, SentInOrder, Below
<1>4. ASSUME NEW d \in Client
      PROVE  PlacedBelow(d)'
  <2> SUFFICES ASSUME NEW p \in PlacedOrders', p.client = d
               PROVE  Below(d, p.order_num)
    BY <1>1 DEF PlacedBelow, Below
  <2>1. CASE p = o
    BY <1>2, <2>1 DEF ClientOK, SentBelow, Request
  <2>2. CASE p # o
    BY <1>2, <2>2 DEF ClientOK, PlacedBelow
  <2> QED
    BY <2>1, <2>2
<1>5. ASSUME NEW d \in Updater
      PROVE  SentNotPlaced(d)'
  <2>0. d \in Client
    BY DEF Client
  <2> SUFFICES ASSUME NEW k \in 1..Len(to_server[d]), Request(d, k) \in PlacedOrders \cup {o}
               PROVE  handler'[d] = "wait" /\ k = 1
    BY <1>1, <1>2 DEF SentNotPlaced
  <2>1. CASE Request(d, k) = o
    <3>1. d = c /\ to_server[c][k] = to_server[c][1]
      BY <2>1 DEF Request
    <3>2. ~(1 < k)
      <4> SUFFICES ASSUME 1 < k PROVE FALSE
        OBVIOUS
      <4>1. to_server[c][1] < to_server[c][k]
        BY <1>2, <3>1 DEF ClientOK, SentInOrder
      <4>2. to_server[c][1] \in Nat
        BY <1>2, ElementsAreNat DEF OrderTypes
      <4> QED
        BY <3>1, <4>1, <4>2
    <3> QED
      BY <1>1, <3>1, <3>2
  <2>2. CASE Request(d, k) # o
    <3>1. handler[d] = "wait" /\ k = 1
      BY <2>0, <2>2 DEF ClientOK, SentNotPlaced
    <3> QED
      BY <1>1, <2>0, <3>1
  <2> QED
    BY <2>1, <2>2
<1>6. ASSUME NEW d \in Client
      PROVE  WaitsForHead(d)'
  <2>1. CASE d = c
    BY <1>1, <1>2, <2>1 DEF WaitsForHead
  <2>2. CASE d # c
    <3> SUFFICES ASSUME handler[d] = "wait"
                 PROVE  WaitsForHead(d)'
      BY <1>1, <2>2 DEF WaitsForHead
    <3>1. d \in Updater /\ to_server[d] # <<>> /\ PlacedAt(Request(d, 1), contact[d])
      BY DEF ClientOK, WaitsForHead
    <3>2. to_server[d] \in Seq(Numbers)
      BY DEF OrderTypes
    <3>3. 1 \in 1..Len(to_server[d]) /\ to_server[d][1] \in Numbers
      BY <3>1, <3>2
    <3>4. Request(d, 1) \in Orders /\ contact[d] \in Server
      BY <3>1, <3>3 DEF Request, Orders, Numbers, PlacedAt
    <3>5. PlacedAt(Request(d, 1), contact[d])'
      <4> DEFINE r == Request(d, 1)
      <4> DEFINE u == contact[d]
      <4>1. r' = r /\ u' = u
        BY <1>1
      <4>2. PlacedAt(r, u)'
            <=> u' \in Server
                /\ (r' \in fulfilled' \/ \E i \in 1..Len(erq'[u']) : erq'[u'][i] = r')
        BY DEF PlacedAt
      <4>3. u \in Server
            /\ (r \in fulfilled' \/ \E i \in 1..Len(erq'[u]) : erq'[u][i] = r)
        BY <1>2, <3>1, <3>4 DEF PlacedAt
      <4> QED
        BY <4>1, <4>2, <4>3
    <3> QED
      BY <1>1, <3>1, <3>5 DEF WaitsForHead
  <2> QED
    BY <2>1, <2>2
<1>7. \A d \in Client : ClientOK(d)'
  BY <1>3, <1>4, <1>5, <1>6 DEF ClientOK
<1>8. OrderInv'
  <2> HIDE DEF o, s
  <2>1. /\ erq'[s] = Append(erq[s], o) /\ erq[s] \in Seq(Orders)
        /\ \A t \in Server : t # s => erq'[t] = erq[t]
    BY <1>2 DEF OrderTypes
  <2>2. /\ Len(erq[s]) \in Nat /\ Len(erq'[s]) = Len(erq[s]) + 1
        /\ erq'[s][Len(erq[s]) + 1] = o
        /\ \A i \in 1..Len(erq[s]) : erq'[s][i] = erq[s][i]
    BY <1>2, <2>1, AppendIs
  <2>3. /\ o \notin fulfilled
        /\ \A t \in Server : \A i \in 1..Len(erq[t]) : erq[t][i] # o
    BY <1>2 DEF PlacedOrders
  <2>4. ASSUME NEW t \in Server, NEW i \in 1..Len(erq'[t])
        PROVE  \/ t = s /\ i = Len(erq[s]) + 1 /\ erq'[t][i] = o
               \/ i \in 1..Len(erq[t]) /\ erq'[t][i] = erq[t][i]
    BY <2>1, <2>2
  <2>5. QueuedOnce'
    BY <2>2, <2>3, <2>4 DEF OrderInv, QueuedOnce
  <2>6. QueuedIsOpen'
    BY <1>1, <2>3, <2>4 DEF OrderInv, QueuedIsOpen
  <2> QED
    BY <1>1, <2>5, <2>6
       DEF OrderInv, HandFulfilled, HandOnce, LoggedFulfilled, LoggedOnce, HandNotLogged,
           HolderLogged, FulfilledSomewhere
<1> QED
  BY <1>7, <1>8

-----------------------------------------------------------------------------
(* Steps of a LeaderThread. *)

\* The order at the head of the queue leaves it and is confirmed.
LEMMA TakeRequestMoves ==
  ASSUME NEW s \in Server, NEW t \in LeaderThread, Inv, TakeRequest(s, t)
  PROVE  /\ Head(erq[s]) \in Orders /\ Head(erq[s]) \in PlacedOrders
         /\ Head(erq[s]) \notin fulfilled
         /\ NothingPlaced
         /\ \A u \in Server : \A i \in 1..Len(erq'[u]) :
              /\ erq'[u][i] # Head(erq[s])
              /\ erq'[u][i] = erq[u][IF u = s THEN i + 1 ELSE i]
              /\ (IF u = s THEN i + 1 ELSE i) \in 1..Len(erq[u])
<1> USE DEF Inv
<1> DEFINE o == Head(erq[s])
<1>1. /\ erq' = [erq EXCEPT ![s] = Tail(@)] /\ erq[s] # <<>> /\ erq[s] \in Seq(Orders)
      /\ fulfilled' = fulfilled \cup {o}
  BY DEF TakeRequest, OrderTypes
<1>2. /\ Len(erq[s]) \in Nat /\ 1 \in 1..Len(erq[s]) /\ Len(Tail(erq[s])) = Len(erq[s]) - 1
      /\ o = erq[s][1] /\ o \in Orders
      /\ \A k \in 1..Len(erq[s]) - 1 : Tail(erq[s])[k] = erq[s][k + 1]
  BY <1>1, TailIs
<1>3. o \notin fulfilled
  BY <1>2 DEF OrderInv, QueuedIsOpen
<1>4. o \in PlacedOrders
  BY <1>2 DEF PlacedOrders
<1>5. /\ erq'[s] = Tail(erq[s])
      /\ \A u \in Server : u # s => erq'[u] = erq[u]
  BY <1>1 DEF OrderTypes
<1> HIDE DEF o
<1>6. ASSUME NEW u \in Server, NEW i \in 1..Len(erq'[u])
      PROVE  /\ erq'[u][i] = erq[u][IF u = s THEN i + 1 ELSE i]
             /\ (IF u = s THEN i + 1 ELSE i) \in 1..Len(erq[u])
  <2>1. CASE u = s
    <3>1. i \in 1..Len(erq[s]) - 1
      BY <1>2, <1>5, <2>1
    <3>2. erq'[u][i] = erq[s][i + 1]
      BY <1>2, <1>5, <2>1, <3>1
    <3>3. i + 1 \in 1..Len(erq[s])
      BY <1>2, <3>1
    <3> QED
      BY <2>1, <3>2, <3>3
  <2>2. CASE u # s
    BY <1>5, <2>2
  <2> QED
    BY <2>1, <2>2
<1>7. ASSUME NEW u \in Server, NEW i \in 1..Len(erq'[u])
      PROVE  erq'[u][i] # o
  <2> DEFINE k == IF u = s THEN i + 1 ELSE i
  <2>1. k \in 1..Len(erq[u]) /\ erq'[u][i] = erq[u][k]
    BY <1>6
  <2>2. ~(u = s /\ k = 1)
    BY <1>2, <1>5
  <2> HIDE DEF k
  <2> QED
    BY <1>2, <2>1, <2>2 DEF OrderInv, QueuedOnce
<1>8. ASSUME NEW u \in Server, NEW i \in 1..Len(erq[u])
      PROVE  erq[u][i] = o \/ \E k \in 1..Len(erq'[u]) : erq'[u][k] = erq[u][i]
  <2>1. CASE u # s
    BY <1>5, <2>1
  <2>2. CASE u = s /\ i = 1
    BY <1>2, <2>2
  <2>3. CASE u = s /\ i # 1
    <3>1. i - 1 \in 1..Len(erq[s]) - 1 /\ (i - 1) + 1 = i
      BY <1>2, <2>3
    <3>2. i - 1 \in 1..Len(erq'[u]) /\ erq'[u][i - 1] = erq[u][i]
      BY <1>2, <1>5, <2>3, <3>1
    <3> QED
      BY <3>2
  <2> QED
    BY <2>1, <2>2, <2>3
<1>9. PlacedOrders' = PlacedOrders
  <2>1. ASSUME NEW p \in Orders
        PROVE  (p \in fulfilled' \/ \E u \in Server : \E i \in 1..Len(erq'[u]) : erq'[u][i] = p)
               <=> (p \in fulfilled \/ \E u \in Server : \E i \in 1..Len(erq[u]) : erq[u][i] = p)
    <3>1. CASE p = o
      BY <1>1, <1>2, <3>1 DEF o
    <3>2. CASE p # o
      <4>1. p \in fulfilled' <=> p \in fulfilled
        BY <1>1, <3>2 DEF o
      <4>2. (\E u \in Server : \E i \in 1..Len(erq'[u]) : erq'[u][i] = p)
            => \E u \in Server : \E i \in 1..Len(erq[u]) : erq[u][i] = p
        BY <1>6
      <4>3. (\E u \in Server : \E i \in 1..Len(erq[u]) : erq[u][i] = p)
            => \E u \in Server : \E i \in 1..Len(erq'[u]) : erq'[u][i] = p
        BY <1>8, <3>2
      <4> QED
        BY <4>1, <4>2, <4>3
    <3> QED
      BY <3>1, <3>2
  <2> QED
    BY <2>1 DEF PlacedOrders, Orders
<1>10. NothingPlaced
  <2>1. ASSUME NEW p \in Orders, NEW u \in Server, PlacedAt(p, u)
        PROVE  p \in fulfilled' \/ \E i \in 1..Len(erq'[u]) : erq'[u][i] = p
    <3>1. fulfilled' = fulfilled \cup {o}
      BY <1>1 DEF o
    <3>2. p \in fulfilled \/ \E i \in 1..Len(erq[u]) : erq[u][i] = p
      BY <2>1 DEF PlacedAt
    <3> QED
      BY <1>8, <3>1, <3>2
  <2> QED
    BY <1>9, <2>1 DEF NothingPlaced, PlacedAt
<1> QED
  BY <1>2, <1>3, <1>4, <1>6, <1>7, <1>10 DEF o

LEMMA TakeRequestKeeps ==
  ASSUME NEW s \in Server, NEW t \in LeaderThread, Inv, TakeRequest(s, t)
  PROVE  OrderInv'
<1> USE DEF Inv
<1> DEFINE o == Head(erq[s])
<1>1. /\ o \in Orders /\ o \notin fulfilled /\ o # Idle
      /\ hand' = [hand EXCEPT ![s][t] = o] /\ hand[s][t] = Idle
      /\ fulfilled' = fulfilled \cup {o}
      /\ UNCHANGED <<meta_lock, smr_log>>
  <2>1. o \in Orders /\ o \notin fulfilled
    BY TakeRequestMoves
  <2>2. o # Idle
    BY <2>1, IdleIsNoOrder
  <2> QED
    BY <2>1, <2>2 DEF TakeRequest
<1>2. \A u \in Server : \A i \in 1..Len(erq'[u]) :
        /\ erq'[u][i] # o
        /\ erq'[u][i] = erq[u][IF u = s THEN i + 1 ELSE i]
        /\ (IF u = s THEN i + 1 ELSE i) \in 1..Len(erq[u])
  BY TakeRequestMoves
<1> HIDE DEF o
<1>3. \A u \in Server, v \in LeaderThread :
        hand'[u][v] = IF u = s /\ v = t THEN o ELSE hand[u][v]
  BY <1>1 DEF OrderTypes
<1>4. QueuedOnce'
  <2> SUFFICES ASSUME NEW u \in Server, NEW w \in Server,
                      NEW i \in 1..Len(erq'[u]), NEW j \in 1..Len(erq'[w]),
                      erq'[u][i] = erq'[w][j]
               PROVE  u = w /\ i = j
    BY DEF QueuedOnce
  <2> DEFINE k == IF u = s THEN i + 1 ELSE i
  <2> DEFINE l == IF w = s THEN j + 1 ELSE j
  <2>1. k \in 1..Len(erq[u]) /\ l \in 1..Len(erq[w]) /\ erq[u][k] = erq[w][l]
    BY <1>2
  <2>2. u = w /\ k = l
    <3> HIDE DEF k, l
    <3> QED
      BY <2>1 DEF OrderInv, QueuedOnce
  <2> QED
    BY <2>2
<1>5. QueuedIsOpen'
  <2> SUFFICES ASSUME NEW u \in Server, NEW i \in 1..Len(erq'[u])
               PROVE  erq'[u][i] \notin fulfilled'
    BY DEF QueuedIsOpen
  <2>1. erq'[u][i] \notin fulfilled
    BY <1>2 DEF OrderInv, QueuedIsOpen
  <2> QED
    BY <1>1, <1>2, <2>1
<1>6. HandFulfilled'
  BY <1>1, <1>3 DEF OrderInv, HandFulfilled
<1>7. HandOnce'
  BY <1>1, <1>3 DEF OrderInv, HandOnce, HandFulfilled
<1>8. LoggedFulfilled' /\ LoggedOnce'
  BY <1>1 DEF OrderInv, LoggedFulfilled, LoggedOnce
<1>9. HandNotLogged'
  BY <1>1, <1>3 DEF OrderInv, HandNotLogged, LoggedFulfilled
<1>10. HolderLogged'
  BY <1>1, <1>3 DEF OrderInv, HolderLogged
<1>11. FulfilledSomewhere'
  <2> SUFFICES ASSUME NEW p \in fulfilled \cup {o}
               PROVE  \/ \E u \in Server, v \in LeaderThread : hand'[u][v] = p
                      \/ \E u \in Server : \E i \in 1..Len(smr_log[u]) : smr_log[u][i] = p
    BY <1>1 DEF FulfilledSomewhere
  <2>1. CASE p = o
    BY <1>3, <2>1
  <2>2. CASE p # o
    <3>1. CASE \E u \in Server, v \in LeaderThread : hand[u][v] = p
      <4>1. p # Idle
        BY <2>2, IdleIsNoOrder DEF OrderTypes
      <4> QED
        BY <1>1, <1>3, <3>1, <4>1
    <3> QED
      BY <2>2, <3>1 DEF OrderInv, FulfilledSomewhere
  <2> QED
    BY <2>1, <2>2
<1> QED
  BY <1>4, <1>5, <1>6, <1>7, <1>8, <1>9, <1>10, <1>11 DEF OrderInv

LEMMA AppendUpdateKeeps ==
  ASSUME NEW s \in Server, NEW t \in LeaderThread, Inv, AppendUpdate(s, t)
  PROVE  OrderInv'
<1> USE DEF Inv
<1> DEFINE o == hand[s][t]
<1> DEFINE n == Len(smr_log[s])
<1>1. /\ o # Idle /\ o \in Orders /\ meta_lock[s] = Free /\ t # Free
      /\ UNCHANGED <<erq, hand, fulfilled>>
      /\ meta_lock' = [meta_lock EXCEPT ![s] = t]
      /\ smr_log' = [smr_log EXCEPT ![s] = Append(@, o)]
  BY ThreadAssumption DEF AppendUpdate, OrderTypes
<1>2. o \in fulfilled
  BY <1>1 DEF OrderInv, HandFulfilled
<1>3. \A u \in Server : \A i \in 1..Len(smr_log[u]) : smr_log[u][i] # o
  <2>1. meta_lock[s] # t
    BY <1>1
  <2> QED
    BY <2>1 DEF OrderInv, HandNotLogged
<1> HIDE DEF o
<1>4. /\ smr_log'[s] = Append(smr_log[s], o) /\ smr_log[s] \in Seq(Orders)
      /\ \A u \in Server : u # s => smr_log'[u] = smr_log[u]
      /\ \A u \in Server : meta_lock'[u] = IF u = s THEN t ELSE meta_lock[u]
  BY <1>1 DEF OrderTypes
<1>5. /\ n \in Nat /\ Len(smr_log'[s]) = n + 1 /\ smr_log'[s][n + 1] = o
      /\ \A i \in 1..n : smr_log'[s][i] = smr_log[s][i]
  BY <1>1, <1>4, AppendIs
<1>6. ASSUME NEW u \in Server, NEW i \in 1..Len(smr_log'[u])
      PROVE  \/ u = s /\ i = n + 1 /\ smr_log'[u][i] = o
             \/ i \in 1..Len(smr_log[u]) /\ smr_log'[u][i] = smr_log[u][i]
  BY <1>4, <1>5
<1>7. ASSUME NEW u \in Server, NEW i \in 1..Len(smr_log[u])
      PROVE  i \in 1..Len(smr_log'[u]) /\ smr_log'[u][i] = smr_log[u][i]
  BY <1>4, <1>5
<1>8. n + 1 \in 1..Len(smr_log'[s])
  BY <1>5
<1> HIDE DEF n
<1>9. QueuedOnce' /\ QueuedIsOpen' /\ HandFulfilled' /\ HandOnce'
  BY <1>1 DEF OrderInv, QueuedOnce, QueuedIsOpen, HandFulfilled, HandOnce
<1>10. LoggedFulfilled'
  BY <1>1, <1>2, <1>6 DEF OrderInv, LoggedFulfilled
<1>11. LoggedOnce'
  BY <1>3, <1>6 DEF OrderInv, LoggedOnce
<1>12. HandNotLogged'
  <2> SUFFICES ASSUME NEW u \in Server, NEW w \in Server, NEW v \in LeaderThread,
                      NEW i \in 1..Len(smr_log'[w]), hand[u][v] = smr_log'[w][i]
               PROVE  meta_lock'[u] = v
    BY <1>1 DEF HandNotLogged
  <2>1. CASE smr_log'[w][i] = o
    <3>1. u = s /\ v = t
      BY <1>1, <2>1 DEF OrderInv, HandOnce, o
    <3> QED
      BY <1>4, <3>1
  <2>2. CASE i \in 1..Len(smr_log[w]) /\ smr_log'[w][i] = smr_log[w][i]
    <3>1. meta_lock[u] = v
      BY <2>2 DEF OrderInv, HandNotLogged
    <3>2. u # s
      BY <1>1, <3>1, ThreadAssumption
    <3> QED
      BY <1>4, <3>1, <3>2
  <2> QED
    BY <1>6, <2>1, <2>2
<1>13. HolderLogged'
  <2> SUFFICES ASSUME NEW u \in Server, NEW v \in LeaderThread, meta_lock'[u] = v
               PROVE  /\ hand[u][v] # Idle
                      /\ \E i \in 1..Len(smr_log'[u]) : smr_log'[u][i] = hand[u][v]
    BY <1>1 DEF HolderLogged
  <2>1. CASE u = s
    BY <1>1, <1>4, <1>5, <1>8, <2>1 DEF o
  <2>2. CASE u # s
    BY <1>4, <1>7, <2>2 DEF OrderInv, HolderLogged
  <2> QED
    BY <2>1, <2>2
<1>14. FulfilledSomewhere'
  BY <1>1, <1>7 DEF OrderInv, FulfilledSomewhere
<1> QED
  BY <1>9, <1>10, <1>11, <1>12, <1>13, <1>14 DEF OrderInv

LEMMA ReplicationEndsKeeps ==
  ASSUME NEW s \in Server, NEW t \in LeaderThread, Inv, ReplicationEnds(s, t)
  PROVE  OrderInv'
<1> USE DEF Inv
<1>1. /\ meta_lock[s] = t /\ t # Free
      /\ UNCHANGED <<erq, smr_log, fulfilled>>
      /\ \A u \in Server : meta_lock'[u] = IF u = s THEN Free ELSE meta_lock[u]
      /\ \A u \in Server, v \in LeaderThread :
           hand'[u][v] = IF u = s /\ v = t THEN Idle ELSE hand[u][v]
  BY ThreadAssumption DEF ReplicationEnds, OrderTypes
<1>2. \E i \in 1..Len(smr_log[s]) : smr_log[s][i] = hand[s][t]
  BY <1>1 DEF OrderInv, HolderLogged
<1>3. \A u \in Server : \A i \in 1..Len(smr_log[u]) : smr_log[u][i] # Idle
  BY IdleIsNoOrder DEF OrderInv, LoggedFulfilled, OrderTypes
<1>4. QueuedOnce' /\ QueuedIsOpen' /\ LoggedFulfilled' /\ LoggedOnce'
  BY <1>1 DEF OrderInv, QueuedOnce, QueuedIsOpen, LoggedFulfilled, LoggedOnce
<1>5. HandFulfilled' /\ HandOnce'
  BY <1>1 DEF OrderInv, HandFulfilled, HandOnce
<1>6. HandNotLogged'
  BY <1>1, <1>3 DEF OrderInv, HandNotLogged
<1>7. HolderLogged'
  BY <1>1, ThreadAssumption DEF OrderInv, HolderLogged
<1>8. FulfilledSomewhere'
  <2> SUFFICES ASSUME NEW o \in fulfilled
               PROVE  \/ \E u \in Server, v \in LeaderThread : hand'[u][v] = o
                      \/ \E u \in Server : \E i \in 1..Len(smr_log[u]) : smr_log[u][i] = o
    BY <1>1 DEF FulfilledSomewhere
  <2>1. CASE o = hand[s][t]
    BY <1>2, <2>1
  <2>2. CASE o # hand[s][t]
    BY <1>1, <2>2 DEF OrderInv, FulfilledSomewhere
  <2> QED
    BY <2>1, <2>2
<1> QED
  BY <1>4, <1>5, <1>6, <1>7, <1>8 DEF OrderInv

-----------------------------------------------------------------------------
(* Every step keeps the invariant. *)

LEMMA NextTypes ==
  ASSUME Inv, [Next]_vars
  PROVE  OrderTypes'
<1> USE DEF Inv
<1>0. CASE UNCHANGED vars
  BY <1>0 DEF OrderTypes, vars, metaVars, threadVars, clientVars, connVars
<1>1. ASSUME NEW c \in Client, ClientThread(c)
      PROVE  OrderTypes'
  <2>1. UNCHANGED <<running, threadVars>>
    BY <1>1 DEF ClientThread, Connect, RecvIsLeader, RecvLeaderInfo, RecvIsLeaderAgain,
                SendRequest, RecvAnswer, AllSent, ServerWentDown, metaVars
  <2>2. pc' \in [Client -> PCs] /\ handler' \in [Client -> HandlerPlaces]
        /\ contact' = [d \in Client |-> contact'[d]]
    BY <1>1 DEF ClientThread, Connect, RecvIsLeader, RecvLeaderInfo, RecvIsLeaderAgain,
                SendRequest, RecvAnswer, AllSent, ServerWentDown, OpenConnection, clientVars,
                connVars, OrderTypes, PCs, Early, HandlerPlaces
  <2>3. next' \in [Client -> Nat]
    <3>1. next' = next \/ next' = [next EXCEPT ![c] = @ + 1]
      BY <1>1 DEF ClientThread, Connect, RecvIsLeader, RecvLeaderInfo, RecvIsLeaderAgain,
                  SendRequest, RecvAnswer, AllSent, ServerWentDown
    <3>2. next \in [Client -> Nat] /\ next[c] + 1 \in Nat
      BY DEF OrderTypes
    <3> QED
      BY <3>1, <3>2
  <2>4. to_server' \in [Client -> Seq(Numbers)]
    <3>1. CASE SendRequest(c)
      <4>1. next[c] \in Numbers /\ to_server[c] \in Seq(Numbers)
        BY <3>1, BoundAssumption DEF SendRequest, OrderTypes, Numbers
      <4>2. Append(to_server[c], next[c]) \in Seq(Numbers)
        BY <4>1, AppendIs
      <4> QED
        BY <3>1, <4>2 DEF SendRequest, OrderTypes
    <3>2. CASE ~SendRequest(c)
      <4>1. to_server' = to_server \/ to_server' = [to_server EXCEPT ![c] = <<>>]
        BY <1>1, <3>2
           DEF ClientThread, Connect, RecvIsLeader, RecvLeaderInfo, RecvIsLeaderAgain,
               RecvAnswer, AllSent, ServerWentDown, OpenConnection, connVars
      <4>2. <<>> \in Seq(Numbers) /\ to_server \in [Client -> Seq(Numbers)]
        BY DEF OrderTypes
      <4> QED
        BY <4>1, <4>2
    <3> QED
      BY <3>1, <3>2
  <2> QED
    BY <2>1, <2>2, <2>3, <2>4 DEF OrderTypes, threadVars
<1>2. ASSUME NEW c \in Client, Enquiry(c)
      PROVE  OrderTypes'
  <2>1. /\ UNCHANGED <<threadVars, pc, next, contact, to_server>>
        /\ running' \subseteq running
    BY <1>2 DEF Enquiry, SendIsLeader, CheckLeader, GetLeaderIp, GetLeaderPort, EndOfRequests,
                Stop, metaVars, clientVars
  <2>2. handler' \in [Client -> HandlerPlaces]
    BY <1>2 DEF Enquiry, SendIsLeader, CheckLeader, GetLeaderIp, GetLeaderPort, EndOfRequests,
                MoveTo, OrderTypes, HandlerPlaces
  <2> QED
    BY <2>1, <2>2 DEF OrderTypes, threadVars
<1>3. ASSUME NEW c \in Client, ReturnRecord(c) \/ ShipLaptop(c)
      PROVE  OrderTypes'
  <2>1. to_server[c] # <<>> /\ to_server[c] \in Seq(Numbers)
    <3>1. CASE ReturnRecord(c)
      BY <3>1 DEF ReturnRecord, OrderTypes
    <3>2. CASE ShipLaptop(c)
      BY <3>2 DEF ShipLaptop, At, ClientOK, WaitsForHead, OrderTypes
    <3> QED
      BY <1>3, <3>1, <3>2
  <2>2. Tail(to_server[c]) \in Seq(Numbers)
    BY <2>1, TailIs
  <2>3. /\ UNCHANGED <<metaVars, threadVars, clientVars>>
        /\ to_server' = [to_server EXCEPT ![c] = Tail(@)]
        /\ handler' = handler \/ handler' = [handler EXCEPT ![c] = "serve"]
    BY <1>3 DEF ReturnRecord, ShipLaptop, MoveTo
  <2> QED
    BY <2>2, <2>3 DEF OrderTypes, metaVars, threadVars, clientVars, HandlerPlaces
<1>4. ASSUME NEW c \in Client, CreateLaptop(c)
      PROVE  OrderTypes'
  <2>1. /\ erq' = [erq EXCEPT ![contact[c]] = Append(@, Request(c, 1))]
        /\ Request(c, 1) \in Orders /\ contact[c] \in Server
    BY <1>4, CreateLaptopPlaces
  <2>2. erq[contact[c]] \in Seq(Orders)
    BY <2>1 DEF OrderTypes
  <2>3. Append(erq[contact[c]], Request(c, 1)) \in Seq(Orders)
    BY <2>1, <2>2, AppendIs
  <2> QED
    BY <1>4, <2>1, <2>3
       DEF CreateLaptop, MoveTo, OrderTypes, metaVars, clientVars, HandlerPlaces
<1>5. ASSUME NEW s \in Server, NEW t \in LeaderThread, TakeRequest(s, t)
      PROVE  OrderTypes'
  <2>1. Head(erq[s]) \in Orders
    BY <1>5, TakeRequestMoves
  <2>2. Tail(erq[s]) \in Seq(Orders)
    BY <1>5, TailIs DEF TakeRequest, OrderTypes
  <2> QED
    BY <1>5, <2>1, <2>2
       DEF TakeRequest, OrderTypes, metaVars, clientVars, connVars
<1>6. ASSUME NEW s \in Server, NEW t \in LeaderThread, AppendUpdate(s, t)
      PROVE  OrderTypes'
  <2>1. Append(smr_log[s], hand[s][t]) \in Seq(Orders)
    BY <1>6, AppendIs DEF AppendUpdate, OrderTypes
  <2> QED
    BY <1>6, <2>1 DEF AppendUpdate, OrderTypes, metaVars, clientVars, connVars
<1>7. ASSUME NEW s \in Server, NEW t \in LeaderThread, ReplicationEnds(s, t)
      PROVE  OrderTypes'
  BY <1>7 DEF ReplicationEnds, OrderTypes, metaVars, clientVars, connVars
<1>8. ASSUME NEW s \in Server, BecomeLeader(s) \/ ServerStops(s) \/ \E l \in Server : HearFromLeader(s, l)
      PROVE  OrderTypes'
  BY <1>8 DEF BecomeLeader, ServerStops, HearFromLeader, Change, Stop, OrderTypes,
              threadVars, clientVars, connVars
<1> QED
  BY <1>0, <1>1, <1>2, <1>3, <1>4, <1>5, <1>6, <1>7, <1>8
     DEF Next, CustomerHandler, Enquiry, LeaderThreadStep

LEMMA NextKeepsInv ==
  ASSUME Inv, [Next]_vars
  PROVE  Inv'
<1> USE DEF Inv
<1>1. OrderTypes'
  BY NextTypes
<1>2. ASSUME UNCHANGED <<orderVars, clientVars, handler, to_server>>
      PROVE  OrderInv' /\ \A c \in Client : ClientOK(c)'
  <2>1. OrderInv'
    BY <1>2, OrderInvStays
  <2>2. NothingPlaced
    BY <1>2, UnchangedPlacesNothing DEF orderVars
  <2> QED
    BY <1>2, <2>1, <2>2, ClientStays DEF ClientUnchanged, clientVars
<1>3. CASE UNCHANGED vars
  <2>1. UNCHANGED <<orderVars, clientVars, handler, to_server>>
    BY <1>3 DEF vars, threadVars, connVars, orderVars
  <2> QED
    BY <1>1, <1>2, <2>1
<1>4. ASSUME NEW c \in Client, ClientThread(c)
      PROVE  OrderInv' /\ \A d \in Client : ClientOK(d)'
  <2>1. UNCHANGED orderVars
    BY <1>4 DEF ClientThread, Connect, RecvIsLeader, RecvLeaderInfo, RecvIsLeaderAgain,
                SendRequest, RecvAnswer, AllSent, ServerWentDown, threadVars, orderVars
  <2> QED
    BY <1>4, <2>1, OrderInvStays, ClientThreadKeeps
<1>5. ASSUME NEW c \in Client, Enquiry(c) \/ ReturnRecord(c) \/ ShipLaptop(c)
      PROVE  OrderInv' /\ \A d \in Client : ClientOK(d)'
  <2>1. UNCHANGED orderVars
    BY <1>5 DEF Enquiry, SendIsLeader, CheckLeader, GetLeaderIp, GetLeaderPort, EndOfRequests,
                ReturnRecord, ShipLaptop, threadVars, orderVars
  <2> QED
    BY <1>5, <2>1, OrderInvStays, EnquiryKeeps, AnswerKeeps
<1>6. ASSUME NEW c \in Client, CreateLaptop(c)
      PROVE  OrderInv' /\ \A d \in Client : ClientOK(d)'
  BY <1>6, CreateLaptopKeeps
<1>7. ASSUME NEW s \in Server, NEW t \in LeaderThread, LeaderThreadStep(s, t)
      PROVE  OrderInv' /\ \A d \in Client : ClientOK(d)'
  <2>1. \A d \in Client : ClientUnchanged(d)
    BY <1>7 DEF LeaderThreadStep, TakeRequest, AppendUpdate, ReplicationEnds, clientVars,
                connVars, ClientUnchanged
  <2>2. NothingPlaced
    <3>1. CASE TakeRequest(s, t)
      BY <3>1, TakeRequestMoves
    <3>2. CASE AppendUpdate(s, t) \/ ReplicationEnds(s, t)
      BY <3>2, UnchangedPlacesNothing DEF AppendUpdate, ReplicationEnds
    <3> QED
      BY <1>7, <3>1, <3>2 DEF LeaderThreadStep
  <2>3. OrderInv'
    BY <1>7, TakeRequestKeeps, AppendUpdateKeeps, ReplicationEndsKeeps DEF LeaderThreadStep
  <2> QED
    BY <2>1, <2>2, <2>3, ClientStays
<1>8. ASSUME NEW s \in Server, BecomeLeader(s) \/ ServerStops(s) \/ \E l \in Server : HearFromLeader(s, l)
      PROVE  OrderInv' /\ \A c \in Client : ClientOK(c)'
  <2>1. UNCHANGED <<orderVars, clientVars, handler, to_server>>
    BY <1>8 DEF BecomeLeader, ServerStops, HearFromLeader, Change, threadVars, connVars, orderVars
  <2> QED
    BY <1>2, <2>1
<1> QED
  BY <1>1, <1>3, <1>4, <1>5, <1>6, <1>7, <1>8 DEF Next, CustomerHandler, Enquiry

\* What is true of orders and clients in every reachable state.
THEOREM OrderInvariant == Spec => []Inv
<1>1. Init => Inv
  BY InitInv
<1>2. Inv /\ [Next]_vars => Inv'
  BY NextKeepsInv
<1> QED
  BY <1>1, <1>2, PTL DEF Spec

-----------------------------------------------------------------------------
(* The properties. *)

LEMMA InvKeepsOrders ==
  ASSUME Inv
  PROVE  OrdersKept
<1> USE DEF Inv, OrderInv
<1> SUFFICES ASSUME NEW o \in Orders
             PROVE  /\ \A p, q \in Places(o) : p = q
                    /\ o \in fulfilled => Queued(o) = {} /\ Places(o) # {}
  BY DEF OrdersKept
<1>1. ASSUME NEW p \in Queued(o)
      PROVE  \E s \in Server : \E i \in 1..Len(erq[s]) : p = <<s, i>> /\ erq[s][i] = o
  BY DEF Queued
<1>2. ASSUME NEW p \in InHand(o)
      PROVE  \E s \in Server, t \in LeaderThread :
               p = <<s, t>> /\ hand[s][t] = o /\ meta_lock[s] # t
  BY DEF InHand
<1>3. ASSUME NEW p \in Logged(o)
      PROVE  \E s \in Server : \E i \in 1..Len(smr_log[s]) : p = <<s, i>> /\ smr_log[s][i] = o
  BY DEF Logged
<1>4. o # Idle
  BY IdleIsNoOrder
<1>5. \A p, q \in Queued(o) : p = q
  BY <1>1 DEF QueuedOnce
<1>6. \A p, q \in InHand(o) : p = q
  BY <1>2, <1>4 DEF HandOnce
<1>7. \A p, q \in Logged(o) : p = q
  BY <1>3 DEF LoggedOnce
<1>8. Queued(o) # {} => o \notin fulfilled
  BY <1>1 DEF QueuedIsOpen
<1>9. InHand(o) # {} => o \in fulfilled
  BY <1>2, <1>4 DEF HandFulfilled
<1>10. Logged(o) # {} => o \in fulfilled
  BY <1>3 DEF LoggedFulfilled
<1>11. InHand(o) = {} \/ Logged(o) = {}
  <2> SUFFICES ASSUME NEW p \in InHand(o), NEW q \in Logged(o) PROVE FALSE
    OBVIOUS
  <2>1. PICK s \in Server, t \in LeaderThread : hand[s][t] = o /\ meta_lock[s] # t
    BY <1>2
  <2>2. PICK u \in Server : \E i \in 1..Len(smr_log[u]) : smr_log[u][i] = o
    BY <1>3
  <2> QED
    BY <2>1, <2>2 DEF HandNotLogged
<1>12. \A p, q \in Places(o) : p = q
  <2> SUFFICES ASSUME NEW p \in Places(o), NEW q \in Places(o)
               PROVE  p = q
    OBVIOUS
  <2>1. CASE p \in {"queue"} \X Queued(o)
    <3>1. q \in {"queue"} \X Queued(o)
      BY <2>1, <1>8, <1>9, <1>10 DEF Places
    <3> QED
      BY <2>1, <3>1, <1>5
  <2>2. CASE p \in {"hand"} \X InHand(o)
    <3>1. q \in {"hand"} \X InHand(o)
      BY <2>2, <1>8, <1>9, <1>11 DEF Places
    <3> QED
      BY <2>2, <3>1, <1>6
  <2>3. CASE p \in {"log"} \X Logged(o)
    <3>1. q \in {"log"} \X Logged(o)
      BY <2>3, <1>8, <1>10, <1>11 DEF Places
    <3> QED
      BY <2>3, <3>1, <1>7
  <2> QED
    BY <2>1, <2>2, <2>3 DEF Places
<1>13. ASSUME o \in fulfilled
       PROVE  Places(o) # {}
  <2>1. CASE \E s \in Server : \E i \in 1..Len(smr_log[s]) : smr_log[s][i] = o
    <3>1. PICK s \in Server, i \in Nat : i \in 1..Len(smr_log[s]) /\ smr_log[s][i] = o
      BY <2>1
    <3>2. <<s, i>> \in Logged(o)
      BY <3>1 DEF Logged
    <3>3. <<"log", <<s, i>>>> \in Places(o)
      BY <3>2 DEF Places
    <3> QED
      BY <3>3
  <2>2. CASE ~\E s \in Server : \E i \in 1..Len(smr_log[s]) : smr_log[s][i] = o
    <3>1. PICK s \in Server, t \in LeaderThread : hand[s][t] = o
      BY <1>13, <2>2 DEF FulfilledSomewhere
    <3>2. meta_lock[s] # t
      BY <2>2, <3>1 DEF HolderLogged
    <3>3. <<s, t>> \in InHand(o)
      BY <3>1, <3>2 DEF InHand
    <3>4. <<"hand", <<s, t>>>> \in Places(o)
      BY <3>3 DEF Places
    <3> QED
      BY <3>4
  <2> QED
    BY <2>1, <2>2
<1> QED
  BY <1>8, <1>12, <1>13

\* No order is taken twice and none that was confirmed is lost by the threads: erq,
\* CreateLaptop and LeaderThread with any number of clients, servers and threads.
THEOREM OrdersAreKept == Spec => []OrdersKept
<1>1. Inv => OrdersKept
  BY InvKeepsOrders
<1> QED
  BY <1>1, OrderInvariant, PTL

\* The promise CreateLaptop waits for is set, or its request is in the queue of this server.
THEOREM PromisesAreOwed == Spec => []PromiseIsOwed
<1>1. ASSUME Inv
      PROVE  PromiseIsOwed
  <2> SUFFICES ASSUME NEW c \in Client, At(c, "wait")
               PROVE  LET o == [client |-> c, order_num |-> Head(to_server[c])]
                      IN  o \in fulfilled
                          \/ \E i \in 1..Len(erq[contact[c]]) : erq[contact[c]][i] = o
    BY DEF PromiseIsOwed
  <2>1. to_server[c] # <<>> /\ PlacedAt(Request(c, 1), contact[c])
    BY <1>1 DEF Inv, ClientOK, WaitsForHead, At
  <2>2. Head(to_server[c]) = to_server[c][1]
    BY <1>1, <2>1, TailIs DEF Inv, OrderTypes
  <2> QED
    BY <2>1, <2>2 DEF PlacedAt, Request
<1> QED
  BY <1>1, OrderInvariant, PTL

-----------------------------------------------------------------------------
(* The order service. *)

LEMMA StepIsServiceStep ==
  ASSUME Inv, [Next]_vars
  PROVE  [Service!Next]_(Service!serviceVars)
<1> USE DEF Inv
<1> SUFFICES \/ Service!Next
             \/ UNCHANGED <<PlacedOrders, fulfilled, smr_log>>
  BY DEF Service!serviceVars
<1>1. CASE UNCHANGED <<erq, fulfilled, smr_log>>
  BY <1>1, PlacedStays
<1>2. ASSUME NEW c \in Client, CreateLaptop(c)
      PROVE  Service!Next
  <2>1. /\ Request(c, 1) \in Orders /\ Request(c, 1) \notin PlacedOrders
        /\ PlacedOrders' = PlacedOrders \cup {Request(c, 1)}
    BY <1>2, CreateLaptopPlaces
  <2>2. UNCHANGED <<fulfilled, smr_log>>
    BY <1>2 DEF CreateLaptop
  <2>3. Service!Place(Request(c, 1))
    BY <2>1, <2>2 DEF Service!Place
  <2> QED
    BY <2>1, <2>3 DEF Service!Next
<1>3. ASSUME NEW s \in Server, NEW t \in LeaderThread, TakeRequest(s, t)
      PROVE  Service!Next
  <2> DEFINE o == Head(erq[s])
  <2>1. o \in Orders /\ o \in PlacedOrders \ fulfilled /\ PlacedOrders' = PlacedOrders
    BY <1>3, TakeRequestMoves DEF NothingPlaced
  <2>2. fulfilled' = fulfilled \cup {o} /\ smr_log' = smr_log
    BY <1>3 DEF TakeRequest
  <2>3. Service!Confirm(o)
    BY <2>1, <2>2 DEF Service!Confirm
  <2> QED
    BY <2>1, <2>3 DEF Service!Next
<1>4. ASSUME NEW s \in Server, NEW t \in LeaderThread, AppendUpdate(s, t)
      PROVE  Service!Next
  <2> DEFINE o == hand[s][t]
  <2>1. /\ o \in Orders /\ o # Idle /\ meta_lock[s] # t
        /\ smr_log' = [smr_log EXCEPT ![s] = Append(@, o)]
        /\ UNCHANGED <<erq, fulfilled>>
    BY <1>4, ThreadAssumption DEF AppendUpdate, OrderTypes
  <2>2. o \in fulfilled
    BY <2>1 DEF OrderInv, HandFulfilled
  <2>3. ~Service!InLog(o)
    BY <2>1 DEF OrderInv, HandNotLogged, Service!InLog
  <2>4. Service!Write(s, o)
    BY <2>1, <2>2, <2>3, PlacedStays DEF Service!Write
  <2> QED
    BY <2>1, <2>4 DEF Service!Next
<1>5. UNCHANGED <<erq, fulfilled, smr_log>>
      \/ (\E c \in Client : CreateLaptop(c))
      \/ \E s \in Server, t \in LeaderThread : TakeRequest(s, t) \/ AppendUpdate(s, t)
  <2>1. ASSUME NEW c \in Client, ClientThread(c)
        PROVE  UNCHANGED <<erq, fulfilled, smr_log>>
    BY <2>1 DEF ClientThread, Connect, RecvIsLeader, RecvLeaderInfo, RecvIsLeaderAgain,
                SendRequest, RecvAnswer, AllSent, ServerWentDown, threadVars
  <2>2. ASSUME NEW c \in Client, CustomerHandler(c), ~CreateLaptop(c)
        PROVE  UNCHANGED <<erq, fulfilled, smr_log>>
    BY <2>2 DEF CustomerHandler, SendIsLeader, CheckLeader, GetLeaderIp, GetLeaderPort,
                ReturnRecord, ShipLaptop, EndOfRequests, threadVars
  <2>3. ASSUME NEW s \in Server, NEW t \in LeaderThread, ReplicationEnds(s, t)
        PROVE  UNCHANGED <<erq, fulfilled, smr_log>>
    BY <2>3 DEF ReplicationEnds
  <2>4. ASSUME NEW s \in Server, BecomeLeader(s) \/ ServerStops(s) \/ \E l \in Server : HearFromLeader(s, l)
        PROVE  UNCHANGED <<erq, fulfilled, smr_log>>
    BY <2>4 DEF BecomeLeader, ServerStops, HearFromLeader, Change, threadVars
  <2>5. CASE UNCHANGED vars
    BY <2>5 DEF vars, threadVars
  <2> QED
    BY <2>1, <2>2, <2>3, <2>4, <2>5 DEF Next, LeaderThreadStep
<1> QED
  BY <1>1, <1>2, <1>3, <1>4, <1>5

\* Clients, handlers and LeaderThreads implement the order service: confirmed once, then
\* written at most once, to one log.
THEOREM ClientsImplementService == Spec => ImplementsService
<1>1. Init => Service!Init
  BY DEF Init, Service!Init, PlacedOrders
<1>2. Inv /\ [Next]_vars => [Service!Next]_(Service!serviceVars)
  BY StepIsServiceStep
<1> QED
  BY <1>1, <1>2, OrderInvariant, PTL DEF Spec, ImplementsService, Service!Spec

-----------------------------------------------------------------------------
(* Types, of the words on the connections as well. *)

\* The words on a connection.
WordSet ==
    [kind : {"is_leader"}, content : 0..2, field : Nat]
    \cup [kind : {"leader_info"}, content : Server \X Server, field : Nat]
    \cup [kind : {"laptop", "record"}, content : Nat, field : Nat]

LEMMA WordsIs ==
  ASSUME NEW kind, NEW content, NEW size \in Nat, NEW S,
         \A k \in 1..size : [kind |-> kind, content |-> content, field |-> k] \in S
  PROVE  /\ Words(kind, content, size) \in Seq(S)
         /\ Len(Words(kind, content, size)) = size
  BY DEF Words

LEMMA ConcatIs ==
  ASSUME NEW S, NEW q \in Seq(S), NEW r \in Seq(S)
  PROVE  /\ q \o r \in Seq(S)
         /\ Len(q) \in Nat /\ Len(r) \in Nat /\ Len(q \o r) = Len(q) + Len(r)
         /\ \A k \in 1..Len(q) + Len(r) : (q \o r)[k] = IF k <= Len(q) THEN q[k] ELSE r[k - Len(q)]
  OBVIOUS

LEMMA CutIs ==
  ASSUME NEW S, NEW q \in Seq(S), NEW n \in Nat, n <= Len(q)
  PROVE  /\ SubSeq(q, n + 1, Len(q)) \in Seq(S)
         /\ Len(SubSeq(q, n + 1, Len(q))) = Len(q) - n
         /\ \A k \in 1..Len(q) - n : SubSeq(q, n + 1, Len(q))[k] = q[n + k]
         /\ Len(SubSeq(q, 1, n)) = n
         /\ \A k \in 1..n : SubSeq(q, 1, n)[k] = q[k]
  OBVIOUS

-----------------------------------------------------------------------------
(* What is said over a connection. *)

\* The types of the state that connections and the enquiry about the leader go through.
ConversationTypes ==
    /\ leader_id \in [Server -> Server \cup {NoServer}]
    /\ has_led \subseteq Server
    /\ changes \in Nat
    /\ contact \in [Client -> Server \cup {NoServer}]
    /\ next \in [Client -> 0..NumRequests]
    /\ leader_ip \in [Client -> Server \cup {NoServer}]
    /\ to_client \in [Client -> Seq(WordSet)]
    /\ answer = [c \in Client |-> answer[c]]
    /\ \A c \in Client : Len(answer[c]) \in {0, AnswerSize(c)}

\* A request under way is one of those the client has.
AwaitsOne(c) == pc[c] = "await" => next[c] < NumRequests

\* A handler that looks for the leader's address has seen that there is a leader, and
\* leader_id never goes back to nobody.
LooksForLeader(c) ==
    /\ handler[c] \in {"get_ip", "get_port"} =>
         contact[c] \in Server /\ leader_id[contact[c]] # NoServer
    /\ handler[c] = "get_port" => leader_ip[c] \in Server

\* Until the client sends its first request it hears who leads, and then an address only:
\* the words it takes for the address are the address.
Addresses(c, from) ==
    \A k \in 1..Len(to_client[c]) : k >= from => to_client[c][k].kind = "leader_info"
AddressFollows(c) ==
    /\ pc[c] = "start" => handler[c] = "none" /\ to_client[c] = <<>>
    /\ pc[c] = "identify" =>
         /\ Addresses(c, 2)
         /\ handler[c] = "greet" => to_client[c] = <<>>
    /\ pc[c] = "redirect" => Addresses(c, 1) /\ handler[c] # "greet"

ConversationOK(c) == AwaitsOne(c) /\ LooksForLeader(c) /\ AddressFollows(c)

TypeInv == ConversationTypes /\ \A c \in Client : ConversationOK(c)

LEMMA InitTypeInv == Init => TypeInv
<1> SUFFICES ASSUME Init PROVE TypeInv
  OBVIOUS
<1>1. ConversationTypes
  BY BoundAssumption DEF Init, ConversationTypes, Client
<1>2. \A c \in Client : ConversationOK(c)
  BY DEF Init, ConversationOK, AwaitsOne, LooksForLeader, AddressFollows, Client
<1> QED
  BY <1>1, <1>2 DEF TypeInv

\* What one client's part of the invariant is about.
ConversationUnchanged(c) ==
    /\ pc'[c] = pc[c] /\ next'[c] = next[c] /\ contact'[c] = contact[c]
    /\ handler'[c] = handler[c] /\ leader_ip'[c] = leader_ip[c]
    /\ to_client'[c] = to_client[c]

LeadersStayKnown == \A s \in Server : leader_id[s] # NoServer => leader_id'[s] # NoServer

LEMMA ConversationStays ==
  ASSUME NEW c, ConversationOK(c), ConversationUnchanged(c), LeadersStayKnown
  PROVE  ConversationOK(c)'
  BY DEF ConversationOK, ConversationUnchanged, LeadersStayKnown, AwaitsOne, LooksForLeader,
         AddressFollows, Addresses

LEMMA SendIs ==
  ASSUME NEW c \in Client, ConversationTypes, NEW words \in Seq(WordSet), Send(c, words)
  PROVE  /\ to_client' \in [Client -> Seq(WordSet)]
         /\ \A d \in Client : d # c => to_client'[d] = to_client[d]
         /\ to_client'[c] = to_client[c] \o words
         /\ Len(to_client[c]) \in Nat /\ Len(words) \in Nat
         /\ Len(to_client'[c]) = Len(to_client[c]) + Len(words)
         /\ \A k \in 1..Len(to_client[c]) + Len(words) :
              to_client'[c][k] = IF k <= Len(to_client[c]) THEN to_client[c][k]
                                 ELSE words[k - Len(to_client[c])]
<1>1. to_client[c] \in Seq(WordSet) /\ to_client \in [Client -> Seq(WordSet)]
  BY DEF ConversationTypes
<1>2. /\ to_client[c] \o words \in Seq(WordSet)
      /\ Len(to_client[c]) \in Nat /\ Len(words) \in Nat
      /\ Len(to_client[c] \o words) = Len(to_client[c]) + Len(words)
      /\ \A k \in 1..Len(to_client[c]) + Len(words) :
           (to_client[c] \o words)[k] = IF k <= Len(to_client[c]) THEN to_client[c][k]
                                        ELSE words[k - Len(to_client[c])]
  BY <1>1, ConcatIs
<1>3. to_client' = [to_client EXCEPT ![c] = to_client[c] \o words]
  BY DEF Send
<1> HIDE DEF WordSet
<1> QED
  BY <1>1, <1>2, <1>3

LEMMA TakeIs ==
  ASSUME NEW c \in Client, ConversationTypes, NEW n \in Nat, Take(c, n)
  PROVE  /\ to_client' \in [Client -> Seq(WordSet)]
         /\ \A d \in Client : d # c => to_client'[d] = to_client[d]
         /\ Len(to_client[c]) \in Nat /\ n <= Len(to_client[c])
         /\ Len(to_client'[c]) = Len(to_client[c]) - n
         /\ \A k \in 1..Len(to_client[c]) - n : to_client'[c][k] = to_client[c][n + k]
         /\ Len(Received(c, n)) = n
         /\ \A k \in 1..n : Received(c, n)[k] = to_client[c][k]
<1> DEFINE q == to_client[c]
<1>1. q \in Seq(WordSet) /\ to_client \in [Client -> Seq(WordSet)]
  BY DEF ConversationTypes
<1>2. n <= Len(q) /\ Len(q) \in Nat
  BY <1>1 DEF Take
<1>3. /\ SubSeq(q, n + 1, Len(q)) \in Seq(WordSet)
      /\ Len(SubSeq(q, n + 1, Len(q))) = Len(q) - n
      /\ \A k \in 1..Len(q) - n : SubSeq(q, n + 1, Len(q))[k] = q[n + k]
      /\ Len(SubSeq(q, 1, n)) = n
      /\ \A k \in 1..n : SubSeq(q, 1, n)[k] = q[k]
  BY <1>1, <1>2, CutIs
<1>4. to_client' = [to_client EXCEPT ![c] = SubSeq(q, n + 1, Len(q))]
  BY DEF Take
<1> QED
  BY <1>1, <1>2, <1>3, <1>4 DEF Received

-----------------------------------------------------------------------------
(* Steps of a client. *)

\* A client that takes words off its connection.
LEMMA TakingKeepsTypes ==
  ASSUME NEW c \in Client, Inv, TypeInv,
         RecvIsLeader(c) \/ RecvIsLeaderAgain(c) \/ RecvAnswer(c)
  PROVE  TypeInv'
<1> USE DEF Inv, TypeInv
<1> DEFINE n == IF pc[c] = "await" THEN AnswerSize(c) ELSE 1
<1>1. n \in Nat /\ Take(c, n)
  BY DEF RecvIsLeader, RecvIsLeaderAgain, RecvAnswer, AnswerSize
<1>2. /\ to_client' \in [Client -> Seq(WordSet)]
      /\ \A d \in Client : d # c => to_client'[d] = to_client[d]
      /\ Len(to_client[c]) \in Nat /\ n <= Len(to_client[c])
      /\ Len(to_client'[c]) = Len(to_client[c]) - n
      /\ \A k \in 1..Len(to_client[c]) - n : to_client'[c][k] = to_client[c][n + k]
      /\ Len(Received(c, n)) = n
  BY <1>1, TakeIs
<1>3. /\ UNCHANGED <<metaVars, contact, handler, leader_ip>>
      /\ \A d \in Client : d # c => pc'[d] = pc[d] /\ next'[d] = next[d]
      /\ pc'[c] \in {"redirect", "done", "order"}
      /\ pc'[c] = "redirect" => pc[c] = "identify"
      /\ pc[c] \in {"identify", "identify_leader", "await"}
  BY DEF RecvIsLeader, RecvIsLeaderAgain, RecvAnswer, OrderTypes
<1>4. ConversationTypes'
  <2>1. CASE RecvAnswer(c)
    <3>1. /\ next' = [next EXCEPT ![c] = @ + 1] /\ pc[c] = "await"
          /\ answer' = [answer EXCEPT ![c] = Received(c, AnswerSize(c))]
      BY <2>1 DEF RecvAnswer
    <3>2. next[c] \in 0..NumRequests /\ next[c] < NumRequests
      BY <3>1 DEF ConversationTypes, ConversationOK, AwaitsOne
    <3>3. next' \in [Client -> 0..NumRequests]
      BY <3>1, <3>2, BoundAssumption DEF ConversationTypes
    <3>4. Len(Received(c, AnswerSize(c))) = AnswerSize(c)
      BY <1>2, <3>1
    <3>5. /\ answer' = [d \in Client |-> answer'[d]]
          /\ \A d \in Client : Len(answer'[d]) \in {0, AnswerSize(d)}
      BY <3>1, <3>4 DEF ConversationTypes
    <3> QED
      BY <1>2, <1>3, <3>3, <3>5 DEF ConversationTypes, metaVars, AnswerSize
  <2>2. CASE RecvIsLeader(c) \/ RecvIsLeaderAgain(c)
    <3>1. UNCHANGED <<next, answer>>
      BY <2>2 DEF RecvIsLeader, RecvIsLeaderAgain
    <3> QED
      BY <1>2, <1>3, <3>1 DEF ConversationTypes, metaVars, AnswerSize
  <2> QED
    BY <2>1, <2>2
<1>5. LeadersStayKnown
  BY <1>3 DEF LeadersStayKnown, metaVars
<1>6. ASSUME NEW d \in Client, d # c
      PROVE  ConversationOK(d)'
  <2>1. ConversationUnchanged(d)
    BY <1>2, <1>3, <1>6 DEF ConversationUnchanged
  <2> QED
    BY <1>5, <2>1, ConversationStays
<1>7. AwaitsOne(c)' /\ LooksForLeader(c)'
  BY <1>3, <1>5 DEF ConversationOK, AwaitsOne, LooksForLeader, LeadersStayKnown
<1>8. AddressFollows(c)'
  <2> SUFFICES ASSUME pc[c] = "identify"
               PROVE  Addresses(c, 1)' /\ handler'[c] # "greet"
    BY <1>3 DEF AddressFollows
  <2>1. Addresses(c, 2) /\ (handler[c] = "greet" => to_client[c] = <<>>)
    BY DEF ConversationOK, AddressFollows
  <2>2. Len(to_client[c]) # 0
    BY <1>2
  <2>3. handler'[c] # "greet"
    BY <1>3, <2>1, <2>2
  <2>4. ASSUME NEW k \in 1..Len(to_client'[c])
        PROVE  to_client'[c][k].kind = "leader_info"
    <3>1. 1 + k \in 1..Len(to_client[c]) /\ 1 + k >= 2 /\ to_client'[c][k] = to_client[c][1 + k]
      BY <1>2
    <3> QED
      BY <2>1, <3>1 DEF Addresses
  <2> QED
    BY <2>3, <2>4 DEF Addresses
<1> QED
  BY <1>4, <1>6, <1>7, <1>8 DEF ConversationOK

LEMMA ConnectingKeepsTypes ==
  ASSUME NEW c \in Client, Inv, TypeInv,
         RecvLeaderInfo(c) \/ \E s \in Server : Connect(c, s)
  PROVE  TypeInv'
<1> USE DEF Inv, TypeInv
<1>1. /\ UNCHANGED <<metaVars, next, answer>>
      /\ pc' = [pc EXCEPT ![c] = pc'[c]] /\ contact' = [contact EXCEPT ![c] = contact'[c]]
      /\ handler' = [handler EXCEPT ![c] = handler'[c]] /\ leader_ip' = leader_ip
  BY DEF RecvLeaderInfo, Connect, OpenConnection, OrderTypes
<1>2. LeadersStayKnown
  BY <1>1 DEF LeadersStayKnown, metaVars
<1>3. to_client' \in [Client -> Seq(WordSet)]
      /\ \A d \in Client : d # c => to_client'[d] = to_client[d]
  <2>1. CASE RecvLeaderInfo(c) /\ c \in Reader
    <3>1. Take(c, 5)
      BY <2>1, ClientAssumption DEF RecvLeaderInfo
    <3> QED
      BY <3>1, TakeIs
  <2>2. CASE ~(RecvLeaderInfo(c) /\ c \in Reader)
    <3>1. to_client' = to_client \/ to_client' = [to_client EXCEPT ![c] = <<>>]
      BY <2>2 DEF RecvLeaderInfo, Connect
    <3>2. <<>> \in Seq(WordSet) /\ to_client \in [Client -> Seq(WordSet)]
      BY DEF ConversationTypes
    <3> HIDE DEF WordSet
    <3> QED
      BY <3>1, <3>2
  <2> QED
    BY <2>1, <2>2
<1>4. contact'[c] \in Server \cup {NoServer}
  <2>1. CASE \E s \in Server : Connect(c, s)
    BY <2>1 DEF Connect, OpenConnection, ConversationTypes
  <2>2. CASE RecvLeaderInfo(c)
    <3>1. to_client[c] \in Seq(WordSet) /\ Len(to_client[c]) >= 5 /\ pc[c] = "redirect"
      BY <2>2 DEF RecvLeaderInfo, ConversationTypes
    <3>2. 1 \in 1..Len(to_client[c]) /\ Len(to_client[c]) \in Nat /\ 1 <= Len(to_client[c])
      BY <3>1
    <3>3. Received(c, 1)[1] = to_client[c][1]
      BY <3>1, <3>2, CutIs DEF Received
    <3>4. to_client[c][1].kind = "leader_info"
      BY <3>1, <3>2 DEF ConversationOK, AddressFollows, Addresses
    <3>5. to_client[c][1] \in WordSet
      BY <3>1, <3>2
    <3>6. to_client[c][1].content \in Server \X Server
      BY <3>4, <3>5 DEF WordSet
    <3>7. Received(c, 1)[1].content[1] \in Server /\ Received(c, 1)[1].content[2] \in Server
      BY <3>3, <3>6
    <3>8. contact[c] \in Server \cup {NoServer}
      BY DEF ConversationTypes
    <3>9. contact' \in {contact, [contact EXCEPT ![c] = Received(c, 1)[1].content[1]],
                                [contact EXCEPT ![c] = Received(c, 1)[1].content[2]]}
      BY <2>2 DEF RecvLeaderInfo, OpenConnection
    <3> QED
      BY <3>7, <3>8, <3>9 DEF ConversationTypes
  <2> QED
    BY <2>1, <2>2
<1>5. ConversationTypes'
  BY <1>1, <1>3, <1>4 DEF ConversationTypes, metaVars, AnswerSize
<1>6. ASSUME NEW d \in Client, d # c
      PROVE  ConversationOK(d)'
  <2>1. ConversationUnchanged(d)
    BY <1>1, <1>3, <1>6 DEF ConversationUnchanged, OrderTypes, ConversationTypes
  <2> QED
    BY <1>2, <2>1, ConversationStays
<1>7. ConversationOK(c)'
  <2>1. CASE \E s \in Server : Connect(c, s)
    <3>1. /\ pc'[c] \in {"identify", "done"} /\ handler'[c] \in {"greet", "none"}
          /\ to_client' = to_client /\ pc[c] = "start"
      BY <2>1 DEF Connect, OpenConnection, OrderTypes
    <3>2. to_client'[c] = <<>>
      BY <3>1 DEF ConversationOK, AddressFollows
    <3> QED
      BY <3>1, <3>2 DEF ConversationOK, AwaitsOne, LooksForLeader, AddressFollows, Addresses
  <2>2. CASE RecvLeaderInfo(c)
    <3>1. /\ pc'[c] \in {"order", "identify_leader", "done"}
          /\ \/ contact'[c] = contact[c] /\ handler'[c] = handler[c]
             \/ handler'[c] \in {"greet", "none"}
      BY <2>2 DEF RecvLeaderInfo, OpenConnection, OrderTypes
    <3> QED
      BY <1>1, <1>2, <3>1
         DEF ConversationOK, AwaitsOne, LooksForLeader, AddressFollows, LeadersStayKnown
  <2> QED
    BY <2>1, <2>2
<1> QED
  BY <1>5, <1>6, <1>7

LEMMA SendingKeepsTypes ==
  ASSUME NEW c \in Client, Inv, TypeInv,
         SendRequest(c) \/ AllSent(c) \/ ServerWentDown(c)
  PROVE  TypeInv'
<1> USE DEF Inv, TypeInv
<1>1. /\ UNCHANGED <<metaVars, contact, next, answer, handler, leader_ip, to_client>>
      /\ \A d \in Client : d # c => pc'[d] = pc[d]
      /\ pc'[c] \in {"await", "done"}
      /\ pc'[c] = "await" => next[c] < NumRequests
  BY DEF SendRequest, AllSent, ServerWentDown, connVars, OrderTypes
<1>2. ConversationTypes'
  BY <1>1 DEF ConversationTypes, metaVars, AnswerSize
<1>3. LeadersStayKnown
  BY <1>1 DEF LeadersStayKnown, metaVars
<1>4. ASSUME NEW d \in Client, d # c
      PROVE  ConversationOK(d)'
  BY <1>1, <1>3, <1>4, ConversationStays DEF ConversationUnchanged
<1>5. ConversationOK(c)'
  BY <1>1, <1>3 DEF ConversationOK, AwaitsOne, LooksForLeader, AddressFollows, LeadersStayKnown
<1> QED
  BY <1>2, <1>4, <1>5

-----------------------------------------------------------------------------
(* Steps of a CustomerHandler. *)

LEMMA IsLeaderIs ==
  ASSUME NEW s, s \in Server => leader_id[s] \in Server \cup {NoServer}
  PROVE  /\ IsLeader(s) \in {-1, 0, 1}
         /\ IsLeader(s) = 0 => leader_id[s] # NoServer
  BY DEF IsLeader

\* A step of the handler of c that sends nothing.
LEMMA LookingKeepsTypes ==
  ASSUME NEW c \in Client, Inv, TypeInv,
         CheckLeader(c) \/ GetLeaderIp(c) \/ CreateLaptop(c) \/ EndOfRequests(c)
  PROVE  TypeInv'
<1> USE DEF Inv, TypeInv
<1>1. /\ UNCHANGED <<leader_id, has_led, changes, clientVars, to_client>>
      /\ \A d \in Client : d # c => handler'[d] = handler[d] /\ leader_ip'[d] = leader_ip[d]
      /\ handler'[c] # "greet" \/ handler'[c] = handler[c]
      /\ handler[c] # "none"
  BY DEF CheckLeader, GetLeaderIp, CreateLaptop, EndOfRequests, Stop, metaVars, At, MoveTo,
         OrderTypes, ConversationTypes
<1>2. /\ leader_ip' \in [Client -> Server \cup {NoServer}]
      /\ LooksForLeader(c)'
  <2>1. CASE GetLeaderIp(c)
    <3>1. handler[c] = "get_ip" /\ contact[c] \in Server /\ leader_id[contact[c]] # NoServer
      BY <2>1 DEF GetLeaderIp, At, ConversationOK, LooksForLeader
    <3>2. leader_id[contact[c]] \in Server
      BY <3>1 DEF ConversationTypes
    <3>3. \/ UNCHANGED <<handler, leader_ip>>
          \/ /\ leader_ip' = [leader_ip EXCEPT ![c] = leader_id[contact[c]]]
             /\ handler' = [handler EXCEPT ![c] = "get_port"]
      BY <2>1 DEF GetLeaderIp, MoveTo
    <3>4. handler \in [Client -> HandlerPlaces] /\ leader_ip \in [Client -> Server \cup {NoServer}]
      BY DEF OrderTypes, ConversationTypes
    <3> QED
      BY <1>1, <3>1, <3>2, <3>3, <3>4 DEF ConversationOK, LooksForLeader, clientVars
  <2>2. CASE CheckLeader(c)
    <3>1. contact[c] \in Server
      BY <2>2 DEF CheckLeader, At, OrderTypes
    <3>2. IsLeader(contact[c]) = 0 => leader_id[contact[c]] # NoServer
      BY <3>1, IsLeaderIs DEF ConversationTypes
    <3>3. /\ handler' = [handler EXCEPT ![c] =
                           IF IsLeader(contact[c]) = 0 THEN "get_ip" ELSE "serve"]
          /\ leader_ip' = leader_ip /\ handler \in [Client -> HandlerPlaces]
      BY <2>2 DEF CheckLeader, MoveTo, OrderTypes
    <3> QED
      BY <1>1, <3>1, <3>2, <3>3 DEF ConversationTypes, LooksForLeader, clientVars
  <2>3. CASE CreateLaptop(c) \/ EndOfRequests(c)
    <3>1. handler'[c] \in {"wait", "none"} /\ leader_ip' = leader_ip
      BY <2>3 DEF CreateLaptop, EndOfRequests, MoveTo, OrderTypes
    <3> QED
      BY <3>1 DEF ConversationTypes, LooksForLeader
  <2> QED
    BY <2>1, <2>2, <2>3
<1>3. ConversationTypes'
  BY <1>1, <1>2 DEF ConversationTypes, clientVars, AnswerSize
<1>4. ASSUME NEW d \in Client, d # c
      PROVE  ConversationOK(d)'
  <2>1. LeadersStayKnown /\ ConversationUnchanged(d)
    BY <1>1, <1>4 DEF LeadersStayKnown, ConversationUnchanged, clientVars
  <2> QED
    BY <2>1, ConversationStays
<1>5. AwaitsOne(c)' /\ AddressFollows(c)'
  BY <1>1 DEF ConversationOK, AwaitsOne, AddressFollows, Addresses, clientVars
<1> QED
  BY <1>2, <1>3, <1>4, <1>5 DEF ConversationOK

\* The words that a step of the handler of c sends.
Said(c, words) ==
    /\ words \in Seq(WordSet)
    /\ Send(c, words)
    /\ pc[c] \in {"identify", "redirect"} =>
         IF handler[c] = "greet" THEN Len(words) = 1
         ELSE \A k \in 1..Len(words) : words[k].kind = "leader_info"

LEMMA SayingKeepsTypes ==
  ASSUME NEW c \in Client, Inv, TypeInv, NEW words, Said(c, words),
         UNCHANGED <<metaVars, clientVars, leader_ip>>,
         \A d \in Client : d # c => handler'[d] = handler[d],
         handler[c] # "none", handler'[c] \in {"check", "serve"}
  PROVE  TypeInv'
<1> USE DEF Inv, TypeInv
<1> DEFINE n == Len(to_client[c])
<1>1. /\ to_client' \in [Client -> Seq(WordSet)]
      /\ \A d \in Client : d # c => to_client'[d] = to_client[d]
      /\ n \in Nat /\ Len(words) \in Nat
      /\ Len(to_client'[c]) = n + Len(words)
      /\ \A k \in 1..n + Len(words) :
           to_client'[c][k] = IF k <= n THEN to_client[c][k] ELSE words[k - n]
  BY SendIs DEF Said
<1>2. ConversationTypes'
  BY <1>1 DEF ConversationTypes, metaVars, clientVars, AnswerSize
<1>3. ASSUME NEW d \in Client, d # c
      PROVE  ConversationOK(d)'
  <2>1. LeadersStayKnown /\ ConversationUnchanged(d)
    BY <1>1, <1>3 DEF LeadersStayKnown, ConversationUnchanged, metaVars, clientVars
  <2> QED
    BY <2>1, ConversationStays
<1>4. AwaitsOne(c)' /\ LooksForLeader(c)'
  BY DEF ConversationOK, AwaitsOne, LooksForLeader, clientVars
<1>5. AddressFollows(c)'
  <2>1. pc'[c] = pc[c] /\ (pc[c] # "start")
    BY DEF ConversationOK, AddressFollows, clientVars
  <2>2. CASE handler[c] = "greet"
    <3>1. pc[c] # "redirect"
      BY <2>2 DEF ConversationOK, AddressFollows
    <3>2. ASSUME pc[c] = "identify"
          PROVE  Addresses(c, 2)'
      <4>1. n = 0 /\ Len(words) = 1
        BY <2>2, <3>2 DEF ConversationOK, AddressFollows, Said
      <4> QED
        BY <1>1, <4>1 DEF Addresses
    <3> QED
      BY <2>1, <3>1, <3>2 DEF AddressFollows
  <2>3. CASE handler[c] # "greet"
    <3>1. ASSUME pc[c] \in {"identify", "redirect"}, NEW from \in Nat, Addresses(c, from)
          PROVE  Addresses(c, from)'
      <4> SUFFICES ASSUME NEW k \in 1..n + Len(words), k >= from
                   PROVE  to_client'[c][k].kind = "leader_info"
        BY <1>1 DEF Addresses
      <4>1. CASE k <= n
        BY <1>1, <3>1, <4>1 DEF Addresses
      <4>2. CASE ~(k <= n)
        <5>1. k - n \in 1..Len(words) /\ to_client'[c][k] = words[k - n]
          BY <1>1, <4>2
        <5> QED
          BY <2>3, <3>1, <5>1 DEF Said
      <4> QED
        BY <4>1, <4>2
    <3>2. pc[c] = "identify" => Addresses(c, 2)
      BY DEF ConversationOK, AddressFollows
    <3>3. pc[c] = "redirect" => Addresses(c, 1)
      BY DEF ConversationOK, AddressFollows
    <3> QED
      BY <2>1, <3>1, <3>2, <3>3 DEF AddressFollows
  <2> QED
    BY <2>2, <2>3
<1> QED
  BY <1>2, <1>3, <1>4, <1>5 DEF ConversationOK

LEMMA AnsweringKeepsTypes ==
  ASSUME NEW c \in Client, Inv, TypeInv,
         SendIsLeader(c) \/ GetLeaderPort(c) \/ ReturnRecord(c) \/ ShipLaptop(c)
  PROVE  TypeInv'
<1> USE DEF Inv, TypeInv
<1>1. CASE SendIsLeader(c)
  <2> DEFINE v == IsLeader(contact[c]) + 1
  <2>1. v \in 0..2
    <3>1. IsLeader(contact[c]) \in {-1, 0, 1}
      BY IsLeaderIs DEF ConversationTypes
    <3> QED
      BY <3>1
  <2> HIDE DEF v
  <2>2. \A k \in 1..1 : [kind |-> "is_leader", content |-> v, field |-> k] \in WordSet
    BY <2>1 DEF WordSet
  <2>3. IsLeaderMessage(v) \in Seq(WordSet) /\ Len(IsLeaderMessage(v)) = 1
    BY <2>2, WordsIs DEF IsLeaderMessage
  <2>4. /\ Send(c, IsLeaderMessage(v)) /\ handler[c] = "greet"
        /\ handler' = [handler EXCEPT ![c] = "check"]
        /\ UNCHANGED <<metaVars, clientVars, leader_ip>>
    BY <1>1 DEF SendIsLeader, At, MoveTo, v
  <2>5. Said(c, IsLeaderMessage(v))
    BY <2>3, <2>4 DEF Said
  <2>6. /\ \A d \in Client : d # c => handler'[d] = handler[d]
        /\ handler'[c] = "check"
    BY <2>4 DEF OrderTypes
  <2> QED
    BY <2>4, <2>5, <2>6, SayingKeepsTypes
<1>2. CASE GetLeaderPort(c) /\ NoLeaderFound(contact[c])
  <2>1. UNCHANGED <<leader_id, has_led, changes, clientVars, handler, leader_ip, to_client>>
    BY <1>2 DEF GetLeaderPort, Stop
  <2>2. ConversationTypes'
    BY <2>1 DEF ConversationTypes, clientVars, AnswerSize
  <2>3. \A d \in Client : ConversationUnchanged(d) /\ LeadersStayKnown
    BY <2>1 DEF ConversationUnchanged, LeadersStayKnown, clientVars
  <2> QED
    BY <2>2, <2>3, ConversationStays
<1>3. CASE GetLeaderPort(c) /\ ~NoLeaderFound(contact[c])
  <2> DEFINE ip == leader_ip[c]
  <2> DEFINE port == leader_id[contact[c]]
  <2>1. handler[c] = "get_port" /\ ip \in Server /\ port \in Server
    <3>1. handler[c] = "get_port"
      BY <1>3 DEF GetLeaderPort, At
    <3>2. contact[c] \in Server /\ port # NoServer /\ ip \in Server
      BY <3>1 DEF ConversationOK, LooksForLeader
    <3> QED
      BY <3>1, <3>2 DEF ConversationTypes
  <2> DEFINE address == <<ip, port>>
  <2> DEFINE words == Words("leader_info", address, 5)
  <2>2. /\ Send(c, words)
        /\ handler' = [handler EXCEPT ![c] = "serve"]
        /\ UNCHANGED <<metaVars, clientVars, leader_ip>>
    BY <1>3 DEF GetLeaderPort, At, MoveTo, LeaderInfo
  <2>3. address \in Server \X Server
    BY <2>1
  <2> HIDE DEF ip, port, address
  <2>4. \A k \in 1..5 :
          [kind |-> "leader_info", content |-> address, field |-> k] \in WordSet
    BY <2>3 DEF WordSet
  <2>5. /\ words \in Seq(WordSet) /\ Len(words) = 5
        /\ \A k \in 1..5 : words[k].kind = "leader_info"
    <3>1. words \in Seq(WordSet) /\ Len(words) = 5
      BY <2>4, WordsIs
    <3>2. \A k \in 1..5 : words[k].kind = "leader_info"
      BY DEF Words
    <3> QED
      BY <3>1, <3>2
  <2> HIDE DEF words
  <2>6. Said(c, words)
    BY <2>1, <2>2, <2>5 DEF Said
  <2>7. /\ \A d \in Client : d # c => handler'[d] = handler[d]
        /\ handler'[c] = "serve"
    BY <2>2 DEF OrderTypes
  <2> QED
    BY <2>1, <2>2, <2>6, <2>7, SayingKeepsTypes
<1>4. CASE ReturnRecord(c) \/ ShipLaptop(c)
  <2>1. to_server[c] # <<>> /\ to_server[c] \in Seq(Numbers)
    <3>1. CASE ReturnRecord(c)
      BY <3>1 DEF ReturnRecord, OrderTypes
    <3>2. CASE ShipLaptop(c)
      BY <3>2 DEF ShipLaptop, At, ClientOK, WaitsForHead, OrderTypes
    <3> QED
      BY <1>4, <3>1, <3>2
  <2>2. Head(to_server[c]) \in Nat
    <3>1. Head(to_server[c]) \in Numbers
      BY <2>1, TailIs
    <3> QED
      BY <3>1, BoundAssumption DEF Numbers
  <2>3. pc[c] \notin Early
    BY <2>1 DEF ClientOK, ConnectsFirst
  <2> DEFINE o == [client |-> c, order_num |-> Head(to_server[c])]
  <2>4. /\ LaptopInfo(o) \in Seq(WordSet)
        /\ CustomerRecord(Head(to_server[c])) \in Seq(WordSet)
    <3>1. \A k \in 1..5 : [kind |-> "laptop", content |-> o.order_num, field |-> k] \in WordSet
      BY <2>2 DEF WordSet
    <3>2. \A k \in 1..2 :
            [kind |-> "record", content |-> Head(to_server[c]), field |-> k] \in WordSet
      BY <2>2 DEF WordSet
    <3> HIDE DEF o
    <3> QED
      BY <3>1, <3>2, WordsIs DEF LaptopInfo, CustomerRecord
  <2>5. PICK words \in {LaptopInfo(o), CustomerRecord(Head(to_server[c]))} : Send(c, words)
    BY <1>4 DEF ReturnRecord, ShipLaptop
  <2>6. Said(c, words)
    BY <2>3, <2>4, <2>5 DEF Said, Early
  <2>7. /\ UNCHANGED <<metaVars, clientVars, leader_ip>>
        /\ \A d \in Client : d # c => handler'[d] = handler[d]
        /\ handler[c] # "none" /\ handler'[c] = "serve"
    BY <1>4 DEF ReturnRecord, ShipLaptop, At, MoveTo, OrderTypes
  <2> QED
    BY <2>6, <2>7, SayingKeepsTypes
<1> QED
  BY <1>1, <1>2, <1>3, <1>4

-----------------------------------------------------------------------------
(* Every step, and the theorem. *)

LEMMA NextKeepsTypes ==
  ASSUME Inv, TypeInv, [Next]_vars
  PROVE  TypeInv'
<1> USE DEF TypeInv
<1>1. ASSUME UNCHANGED <<clientVars, connVars>>, LeadersStayKnown,
             leader_id' \in [Server -> Server \cup {NoServer}], has_led' \subseteq Server,
             changes' \in Nat
      PROVE  TypeInv'
  <2>1. ConversationTypes'
    BY <1>1 DEF ConversationTypes, clientVars, connVars, AnswerSize
  <2>2. \A c \in Client : ConversationUnchanged(c)
    BY <1>1 DEF ConversationUnchanged, clientVars, connVars
  <2> QED
    BY <1>1, <2>1, <2>2, ConversationStays
<1>2. ASSUME UNCHANGED <<clientVars, connVars, leader_id, has_led, changes>>
      PROVE  TypeInv'
  BY <1>1, <1>2 DEF ConversationTypes, LeadersStayKnown
<1>3. CASE UNCHANGED vars
  BY <1>2, <1>3 DEF vars, metaVars
<1>4. ASSUME NEW c \in Client, ClientThread(c)
      PROVE  TypeInv'
  BY <1>4, TakingKeepsTypes, ConnectingKeepsTypes, SendingKeepsTypes DEF ClientThread
<1>5. ASSUME NEW c \in Client, CustomerHandler(c)
      PROVE  TypeInv'
  BY <1>5, LookingKeepsTypes, AnsweringKeepsTypes DEF CustomerHandler
<1>6. ASSUME NEW s \in Server, NEW t \in LeaderThread, LeaderThreadStep(s, t)
      PROVE  TypeInv'
  BY <1>2, <1>6 DEF LeaderThreadStep, TakeRequest, AppendUpdate, ReplicationEnds, metaVars
<1>7. ASSUME NEW s \in Server, ServerStops(s)
      PROVE  TypeInv'
  BY <1>2, <1>7 DEF ServerStops, Stop
<1>8. ASSUME NEW s \in Server, NEW l \in Server, Change(s, l), has_led' \subseteq Server
      PROVE  TypeInv'
  <2>1. /\ UNCHANGED <<clientVars, connVars>>
        /\ leader_id' = [leader_id EXCEPT ![s] = l] /\ changes' = changes + 1
    BY <1>8 DEF Change
  <2>2. leader_id \in [Server -> Server \cup {NoServer}] /\ changes \in Nat
    BY DEF ConversationTypes
  <2>3. LeadersStayKnown
    BY <2>1, <2>2, ServerAssumption DEF LeadersStayKnown
  <2> QED
    BY <1>1, <1>8, <2>1, <2>2, <2>3
<1>9. ASSUME NEW s \in Server, BecomeLeader(s)
      PROVE  TypeInv'
  BY <1>8, <1>9 DEF BecomeLeader, ConversationTypes
<1>10. ASSUME NEW s \in Server, NEW l \in Server, HearFromLeader(s, l)
       PROVE  TypeInv'
  BY <1>8, <1>10 DEF HearFromLeader, ConversationTypes
<1> QED
  BY <1>3, <1>4, <1>5, <1>6, <1>7, <1>9, <1>10 DEF Next

LEMMA InvIsTypeOK ==
  ASSUME Inv, TypeInv
  PROVE  ClientTypeOK
<1>1. ASSUME NEW c \in Client, NEW k \in 1..Len(to_client[c]),
             to_client[c][k].kind = "is_leader"
      PROVE  to_client[c][k].content \in 0..2
  <2>1. to_client[c] \in Seq(WordSet)
    BY DEF TypeInv, ConversationTypes
  <2>2. to_client[c][k] \in WordSet
    BY <2>1
  <2> QED
    BY <1>1, <2>2 DEF WordSet
<1> QED
  BY <1>1 DEF Inv, TypeInv, OrderTypes, ConversationTypes, ClientTypeOK, PCs, Early,
              HandlerPlaces, Numbers

\* Every variable of clients, handlers and LeaderThreads keeps its type, for any number of
\* them; in particular nothing but an address is followed as one (ClientThread's
\* redirection).
THEOREM ClientTypesAreKept == Spec => []ClientTypeOK
<1>1. Init => TypeInv
  BY InitTypeInv
<1>2. Inv /\ TypeInv /\ [Next]_vars => TypeInv'
  BY NextKeepsTypes
<1>3. Inv /\ TypeInv => ClientTypeOK
  BY InvIsTypeOK
<1> QED
  BY <1>1, <1>2, <1>3, OrderInvariant, PTL DEF Spec
-----------------------------------------------------------------------------
(* The orders of one client follow each other: its handler serves one at a *)
(* time, whatever the client takes for an answer.                          *)

Sent(c) == IF pc[c] = "await" THEN next[c] + 1 ELSE next[c]
OrderOf(c, n) == [client |-> c, order_num |-> n]

\* The handler of client c has answered its orders below m: those are confirmed, the ones
\* after them are on the connection without a gap, and none past m is placed.
HandledTo(c, m) ==
    /\ pc[c] # "done" => m + Len(to_server[c]) = Sent(c)
    /\ \A k \in 1..Len(to_server[c]) : to_server[c][k] = m + k - 1
    /\ \A n \in 0..m - 1 : OrderOf(c, n) \in fulfilled
    /\ \A o \in PlacedOrders : o.client = c => o.order_num <= m

OneByOne == \A c \in Updater : \E m \in Nat : HandledTo(c, m)

LEMMA HandledStays ==
  ASSUME NEW c \in Updater, NEW m \in Nat, HandledTo(c, m),
         to_server'[c] = to_server[c], fulfilled \subseteq fulfilled',
         pc'[c] # "done" => pc[c] # "done" /\ Sent(c)' = Sent(c),
         \A o \in PlacedOrders' : o.client = c => o \in PlacedOrders
  PROVE  HandledTo(c, m)'
  BY DEF HandledTo

\* Whatever a client's thread does, short of sending, nothing of its orders has changed.
LEMMA ClientHandled ==
  ASSUME NEW c \in Updater, NEW m \in Nat, HandledTo(c, m), Inv, ClientThread(c)
  PROVE  HandledTo(c, m)'
<1> USE DEF Inv
<1>1. c \in Client /\ next[c] \in Nat /\ to_server[c] \in Seq(Numbers)
  BY DEF OrderTypes, Client
<1>2. UNCHANGED threadVars
  BY DEF ClientThread, Connect, RecvIsLeader, RecvLeaderInfo, RecvIsLeaderAgain, SendRequest,
         RecvAnswer, AllSent, ServerWentDown
<1>3. PlacedOrders' = PlacedOrders /\ fulfilled' = fulfilled
  BY <1>2, PlacedStays DEF threadVars
<1>4. CASE (\E s \in Server : Connect(c, s)) \/ RecvIsLeader(c) \/ RecvLeaderInfo(c)
           \/ RecvIsLeaderAgain(c)
  <2>1. /\ pc[c] \in Early /\ next'[c] = next[c] /\ to_server'[c] \in {<<>>, to_server[c]}
        /\ pc'[c] # "await"
    BY <1>1, <1>4
       DEF Connect, RecvIsLeader, RecvLeaderInfo, RecvIsLeaderAgain, OpenConnection, Early, OrderTypes
  <2>2. to_server[c] = <<>>
    BY <1>1, <2>1 DEF ClientOK, ConnectsFirst
  <2> QED
    BY <1>3, <2>1, <2>2, HandledStays DEF Sent, Early
<1>5. CASE SendRequest(c)
  <2>1. /\ pc[c] = "order" /\ pc'[c] = "await" /\ next'[c] = next[c] /\ next[c] \in Numbers
        /\ to_server'[c] = Append(to_server[c], next[c])
    BY <1>1, <1>5, BoundAssumption DEF SendRequest, OrderTypes, Numbers
  <2> DEFINE n == Len(to_server[c])
  <2>2. /\ n \in Nat /\ Len(to_server'[c]) = n + 1 /\ to_server'[c][n + 1] = next[c]
        /\ \A k \in 1..n : to_server'[c][k] = to_server[c][k]
    BY <1>1, <2>1, AppendIs
  <2>3. m + n = next[c]
    BY <2>1 DEF HandledTo, Sent
  <2>4. m + Len(to_server'[c]) = Sent(c)'
    BY <1>1, <2>1, <2>2, <2>3 DEF Sent
  <2>5. ASSUME NEW k \in 1..Len(to_server'[c]) PROVE to_server'[c][k] = m + k - 1
    <3>1. CASE k = n + 1
      BY <1>1, <2>2, <2>3, <3>1
    <3>2. CASE k # n + 1
      <4>1. k \in 1..n
        BY <2>2, <3>2
      <4> QED
        BY <2>2, <4>1 DEF HandledTo
    <3> QED
      BY <3>1, <3>2
  <2> QED
    BY <1>3, <2>4, <2>5 DEF HandledTo
<1>6. CASE RecvAnswer(c) \/ AllSent(c) \/ ServerWentDown(c)
  <2>1. to_server'[c] = to_server[c]
    BY <1>6 DEF RecvAnswer, AllSent, ServerWentDown, connVars
  <2>2. pc'[c] # "done" => pc[c] # "done" /\ Sent(c)' = Sent(c)
    BY <1>1, <1>6 DEF RecvAnswer, AllSent, ServerWentDown, OrderTypes, Sent
  <2> QED
    BY <1>3, <2>1, <2>2, HandledStays
<1> QED
  BY <1>4, <1>5, <1>6 DEF ClientThread

\* An answered order is confirmed, and the next one is first on the connection.
LEMMA ShipLaptopHandles ==
  ASSUME NEW c \in Updater, NEW m \in Nat, HandledTo(c, m), Inv, ShipLaptop(c)
  PROVE  HandledTo(c, m + 1)'
<1> USE DEF Inv
<1>1. c \in Client /\ next[c] \in Nat /\ to_server[c] \in Seq(Numbers)
  BY DEF OrderTypes, Client
<1>2. to_server[c] # <<>>
  BY <1>1 DEF ShipLaptop, At, ClientOK, WaitsForHead
<1>3. /\ UNCHANGED <<threadVars, clientVars>>
      /\ to_server'[c] = Tail(to_server[c])
      /\ OrderOf(c, Head(to_server[c])) \in fulfilled
  BY <1>1 DEF ShipLaptop, OrderTypes, OrderOf
<1>4. PlacedOrders' = PlacedOrders /\ fulfilled' = fulfilled /\ Sent(c)' = Sent(c) /\ pc'[c] = pc[c]
  BY <1>3, PlacedStays DEF threadVars, clientVars, Sent
<1> DEFINE n == Len(to_server[c])
<1>5. /\ n \in Nat /\ 1 \in 1..n /\ Len(to_server'[c]) = n - 1
      /\ Head(to_server[c]) = to_server[c][1]
      /\ \A k \in 1..n - 1 : to_server'[c][k] = to_server[c][k + 1]
  BY <1>1, <1>2, <1>3, TailIs
<1>6. Head(to_server[c]) = m
  BY <1>5 DEF HandledTo
<1>7. Sent(c) \in Nat
  BY <1>1 DEF Sent
<1>8. pc'[c] # "done" => m + 1 + Len(to_server'[c]) = Sent(c)'
  <2> SUFFICES ASSUME pc'[c] # "done" PROVE m + 1 + Len(to_server'[c]) = Sent(c)'
    OBVIOUS
  <2>1. m + n = Sent(c)
    BY <1>4 DEF HandledTo
  <2> HIDE DEF n
  <2>2. m + 1 + (n - 1) = m + n
    BY <1>5
  <2> QED
    BY <1>4, <1>5, <2>1, <2>2
<1>9. ASSUME NEW k \in 1..Len(to_server'[c]) PROVE to_server'[c][k] = m + 1 + k - 1
  <2>1. k \in 1..n - 1 /\ k + 1 \in 1..n
    BY <1>5
  <2>2. to_server[c][k + 1] = m + (k + 1) - 1
    BY <2>1 DEF HandledTo
  <2>3. to_server'[c][k] = to_server[c][k + 1]
    BY <1>5, <2>1
  <2>4. m + (k + 1) - 1 = m + 1 + k - 1
    BY <1>5, <2>1
  <2> QED
    BY <2>2, <2>3, <2>4
<1>10. ASSUME NEW i \in 0..m + 1 - 1 PROVE OrderOf(c, i) \in fulfilled'
  <2>1. i = m \/ i \in 0..m - 1
    OBVIOUS
  <2> QED
    BY <1>3, <1>4, <1>6, <2>1 DEF HandledTo
<1>11. ASSUME NEW o \in PlacedOrders', o.client = c PROVE o.order_num <= m + 1
  <2>1. o.order_num <= m /\ o.order_num \in Nat
    BY <1>4, <1>11 DEF HandledTo, PlacedOrders, Orders
  <2> QED
    BY <2>1
<1> QED
  BY <1>8, <1>9, <1>10, <1>11 DEF HandledTo

\* The order that is placed is the first that was not answered.
LEMMA CreateLaptopHandled ==
  ASSUME NEW c \in Updater, NEW m \in Nat, HandledTo(c, m), Inv,
         NEW d \in Client, CreateLaptop(d)
  PROVE  HandledTo(c, m)'
<1>1. UNCHANGED <<clientVars, to_server, fulfilled>>
  BY DEF CreateLaptop
<1>2. Sent(c)' = Sent(c) /\ pc'[c] = pc[c]
  BY <1>1 DEF Sent, clientVars
<1>3. /\ PlacedOrders' = PlacedOrders \cup {Request(d, 1)}
      /\ 1 \in 1..Len(to_server[d])
  BY CreateLaptopPlaces
<1>4. ASSUME NEW o \in PlacedOrders', o.client = c PROVE o.order_num <= m
  <2>1. CASE o \in PlacedOrders
    BY <1>4, <2>1 DEF HandledTo
  <2>2. CASE o = Request(d, 1)
    <3>1. d = c /\ o.order_num = to_server[c][1]
      BY <1>4, <2>2 DEF Request
    <3>2. to_server[c][1] = m
      BY <1>3, <3>1 DEF HandledTo
    <3> QED
      BY <3>1, <3>2
  <2> QED
    BY <1>3, <2>1, <2>2
<1> QED
  BY <1>1, <1>2, <1>4 DEF HandledTo

\* What the others do leaves this client's orders where they are.
LEMMA OthersHandled ==
  ASSUME NEW c \in Updater, NEW m \in Nat, HandledTo(c, m),
         pc'[c] = pc[c], next'[c] = next[c], to_server'[c] = to_server[c],
         fulfilled \subseteq fulfilled', PlacedOrders' = PlacedOrders
  PROVE  HandledTo(c, m)'
<1>1. Sent(c)' = Sent(c)
  BY DEF Sent
<1> QED
  BY <1>1, HandledStays

LEMMA NextHandled ==
  ASSUME Inv, [Next]_vars, NEW c \in Updater, NEW m \in Nat, HandledTo(c, m)
  PROVE  \E n \in Nat : HandledTo(c, n)'
<1> USE DEF Inv
<1>1. c \in Client /\ m + 1 \in Nat
  BY DEF Client
<1>2. CASE UNCHANGED vars
  <2>1. UNCHANGED <<pc, next, to_server, erq, fulfilled>>
    BY <1>2 DEF vars, clientVars, threadVars, connVars
  <2> QED
    BY <2>1, PlacedStays, OthersHandled
<1>3. ASSUME NEW d \in Client, ClientThread(d)
      PROVE  HandledTo(c, m)'
  <2>1. CASE d = c
    BY <1>3, <2>1, ClientHandled
  <2>2. CASE d # c
    <3>1. pc'[c] = pc[c] /\ next'[c] = next[c] /\ to_server'[c] = to_server[c]
      BY <1>1, <1>3, <2>2
         DEF ClientThread, Connect, RecvIsLeader, RecvLeaderInfo, RecvIsLeaderAgain, SendRequest,
             RecvAnswer, AllSent, ServerWentDown, OpenConnection, connVars, OrderTypes
    <3>2. UNCHANGED threadVars
      BY <1>3 DEF ClientThread, Connect, RecvIsLeader, RecvLeaderInfo, RecvIsLeaderAgain,
                  SendRequest, RecvAnswer, AllSent, ServerWentDown
    <3> QED
      BY <3>1, <3>2, PlacedStays, OthersHandled DEF threadVars
  <2> QED
    BY <2>1, <2>2
<1>4. ASSUME NEW d \in Client, Enquiry(d)
      PROVE  HandledTo(c, m)'
  <2>1. UNCHANGED <<threadVars, clientVars, to_server>>
    BY <1>4 DEF Enquiry, SendIsLeader, CheckLeader, GetLeaderIp, GetLeaderPort, EndOfRequests
  <2> QED
    BY <2>1, PlacedStays, OthersHandled DEF threadVars, clientVars
<1>5. ASSUME NEW d \in Client, ReturnRecord(d) \/ ShipLaptop(d)
      PROVE  \E n \in Nat : HandledTo(c, n)'
  <2>1. CASE d = c
    <3>1. ShipLaptop(c)
      BY <1>5, <2>1, ClientAssumption DEF ReturnRecord
    <3> QED
      BY <1>1, <3>1, ShipLaptopHandles
  <2>2. CASE d # c
    <3>1. UNCHANGED <<threadVars, clientVars>> /\ to_server'[c] = to_server[c]
      BY <1>1, <1>5, <2>2 DEF ReturnRecord, ShipLaptop, OrderTypes
    <3> QED
      BY <3>1, PlacedStays, OthersHandled DEF threadVars, clientVars
  <2> QED
    BY <2>1, <2>2
<1>6. ASSUME NEW d \in Client, CreateLaptop(d)
      PROVE  HandledTo(c, m)'
  BY <1>6, CreateLaptopHandled
<1>7. ASSUME NEW s \in Server, NEW t \in LeaderThread, TakeRequest(s, t)
      PROVE  HandledTo(c, m)'
  <2>1. PlacedOrders' = PlacedOrders
    BY <1>7, TakeRequestMoves DEF NothingPlaced
  <2>2. UNCHANGED <<clientVars, connVars>> /\ fulfilled \subseteq fulfilled'
    BY <1>7 DEF TakeRequest
  <2> QED
    BY <2>1, <2>2, OthersHandled DEF clientVars, connVars
<1>8. ASSUME \/ \E s \in Server, t \in LeaderThread : AppendUpdate(s, t) \/ ReplicationEnds(s, t)
             \/ \E s \in Server : BecomeLeader(s) \/ ServerStops(s)
             \/ \E s, l \in Server : HearFromLeader(s, l)
      PROVE  HandledTo(c, m)'
  <2>1. UNCHANGED <<erq, fulfilled, clientVars, connVars>>
    BY <1>8 DEF AppendUpdate, ReplicationEnds, BecomeLeader, ServerStops, HearFromLeader, Change,
                threadVars
  <2> QED
    BY <2>1, PlacedStays, OthersHandled DEF clientVars, connVars
<1> QED
  BY <1>2, <1>3, <1>4, <1>5, <1>6, <1>7, <1>8 DEF Next, CustomerHandler, Enquiry, LeaderThreadStep

LEMMA InitHandled == Init => OneByOne
<1> SUFFICES ASSUME Init, NEW c \in Updater PROVE HandledTo(c, 0)
  BY DEF OneByOne
<1>1. c \in Client
  BY DEF Client
<1>2. PlacedOrders = {}
  BY DEF Init, PlacedOrders
<1>3. to_server[c] = <<>> /\ next[c] = 0 /\ pc[c] = "start"
  BY <1>1 DEF Init
<1> QED
  BY <1>2, <1>3 DEF HandledTo, Sent

LEMMA OneByOneAlways == Spec => []OneByOne
<1>1. Inv /\ OneByOne /\ [Next]_vars => OneByOne'
  BY NextHandled DEF OneByOne
<1> QED
  BY <1>1, InitHandled, OrderInvariant, PTL DEF Spec

\* A confirmed order is not past the handled ones, so all before it are confirmed.
LEMMA OneByOneConfirms ==
  ASSUME Inv, OneByOne
  PROVE  ConfirmedInOrder
<1> SUFFICES ASSUME NEW o \in fulfilled, NEW n \in 0..o.order_num - 1
             PROVE  OrderOf(o.client, n) \in fulfilled
  BY DEF ConfirmedInOrder, OrderOf
<1>1. o \in Orders /\ o \in PlacedOrders
  BY DEF Inv, OrderTypes, PlacedOrders
<1>2. o.client \in Updater /\ o.order_num \in Nat
  BY <1>1, BoundAssumption DEF Orders
<1>3. PICK m \in Nat : HandledTo(o.client, m)
  BY <1>2 DEF OneByOne
<1>4. o.order_num <= m
  BY <1>1, <1>3 DEF HandledTo
<1>5. n \in 0..m - 1
  BY <1>2, <1>4
<1> QED
  BY <1>3, <1>5 DEF HandledTo

\* The orders of one client are confirmed in the order of their numbers, none left out, for
\* any number of clients and servers, although a client may send an order before the
\* previous one was answered (when it took a leader's address for the answer).
THEOREM OrdersConfirmedInOrder == Spec => []ConfirmedInOrder
<1>1. Inv /\ OneByOne => ConfirmedInOrder
  BY OneByOneConfirms
<1> QED
  BY <1>1, OneByOneAlways, OrderInvariant, PTL

-----------------------------------------------------------------------------
(* Overtaking: it takes two LeaderThreads of a server that wait for        *)
(* meta_lock with orders of one client.                                    *)

Waits(s, t) == hand[s][t] # Idle /\ meta_lock[s] # t

OneWaitsPerClient ==
    \A s \in Server : \A t, v \in LeaderThread :
        Waits(s, t) /\ Waits(s, v) /\ hand[s][t].client = hand[s][v].client => t = v

\* An order that waits is later than its client's orders in the log.
WaitsAfterLog ==
    \A s \in Server : \A t \in LeaderThread : \A i \in 1..Len(smr_log[s]) :
        Waits(s, t) /\ smr_log[s][i].client = hand[s][t].client =>
            smr_log[s][i].order_num < hand[s][t].order_num

\* What is taken from the queue has not been confirmed, so nothing later is in a log.
LEMMA TakeRequestInOrder ==
  ASSUME Inv, ConfirmedInOrder, WaitsAfterLog,
         NEW s \in Server, NEW t \in LeaderThread, TakeRequest(s, t)
  PROVE  WaitsAfterLog'
<1> DEFINE o == Head(erq[s])
<1>1. o \in Orders /\ o \notin fulfilled
  BY TakeRequestMoves
<1>2. /\ UNCHANGED <<meta_lock, smr_log>>
      /\ hand'[s][t] = o
      /\ \A u \in Server, v \in LeaderThread : u # s \/ v # t => hand'[u][v] = hand[u][v]
  BY DEF TakeRequest, Inv, OrderTypes
<1> HIDE DEF o
<1> SUFFICES ASSUME NEW u \in Server, NEW v \in LeaderThread, NEW i \in 1..Len(smr_log[u]),
                    Waits(u, v)', smr_log[u][i].client = hand'[u][v].client
             PROVE  smr_log[u][i].order_num < hand'[u][v].order_num
  BY <1>2 DEF WaitsAfterLog
<1>3. CASE u = s /\ v = t
  <2> DEFINE e == smr_log[u][i]
  <2>1. e \in fulfilled
    BY DEF Inv, OrderInv, LoggedFulfilled
  <2>2. e \in Orders
    BY <2>1 DEF Inv, OrderTypes
  <2> HIDE DEF e
  <2>3. /\ o.order_num \in Nat /\ e.order_num \in Nat
        /\ o = [client |-> o.client, order_num |-> o.order_num]
        /\ e = [client |-> e.client, order_num |-> e.order_num]
    BY <1>1, <2>2, BoundAssumption DEF Orders
  <2>4. e.client = o.client
    BY <1>2, <1>3 DEF e
  <2>5. e.order_num # o.order_num
    BY <1>1, <2>1, <2>3, <2>4
  <2>6. ~(o.order_num < e.order_num)
    <3>1. o.order_num < e.order_num => o.order_num \in 0..e.order_num - 1
      BY <2>3
    <3> QED
      BY <1>1, <2>1, <2>3, <2>4, <3>1 DEF ConfirmedInOrder
  <2>7. e.order_num < o.order_num
    BY <2>3, <2>5, <2>6
  <2> QED
    BY <1>2, <1>3, <2>7 DEF e
<1>4. CASE ~(u = s /\ v = t)
  BY <1>2, <1>4 DEF WaitsAfterLog, Waits
<1> QED
  BY <1>3, <1>4

LEMMA AppendUpdateInOrder ==
  ASSUME Inv, OneWaitsPerClient, WaitsAfterLog, OrdersInOrder,
         NEW s \in Server, NEW t \in LeaderThread, AppendUpdate(s, t)
  PROVE  WaitsAfterLog' /\ OrdersInOrder'
<1> DEFINE n == Len(smr_log[s])
<1>1. /\ hand' = hand /\ Waits(s, t) /\ meta_lock[s] = Free /\ meta_lock'[s] = t
      /\ \A u \in Server : u # s => meta_lock'[u] = meta_lock[u] /\ smr_log'[u] = smr_log[u]
      /\ smr_log'[s] = Append(smr_log[s], hand[s][t])
      /\ hand[s][t] \in Orders /\ smr_log[s] \in Seq(Orders)
  BY ThreadAssumption DEF AppendUpdate, Waits, Inv, OrderTypes
<1>2. /\ n \in Nat /\ Len(smr_log'[s]) = n + 1 /\ smr_log'[s][n + 1] = hand[s][t]
      /\ \A k \in 1..n : smr_log'[s][k] = smr_log[s][k]
  BY <1>1, AppendIs
<1>3. ASSUME NEW k \in 1..Len(smr_log'[s])
      PROVE  k = n + 1 \/ k \in 1..n
  BY <1>2
<1> HIDE DEF n
<1>4. WaitsAfterLog'
  <2> SUFFICES ASSUME NEW u \in Server, NEW v \in LeaderThread, NEW i \in 1..Len(smr_log'[u]),
                      Waits(u, v)', smr_log'[u][i].client = hand[u][v].client
               PROVE  smr_log'[u][i].order_num < hand[u][v].order_num
    BY <1>1 DEF WaitsAfterLog
  <2>1. CASE u # s
    BY <1>1, <2>1 DEF WaitsAfterLog, Waits
  <2>2. CASE u = s
    <3>1. v # t /\ Waits(s, v)
      BY <1>1, <2>2, ThreadAssumption DEF Waits
    <3>2. i # n + 1
      BY <1>1, <1>2, <2>2, <3>1 DEF OneWaitsPerClient
    <3>3. i \in 1..n
      BY <1>3, <2>2, <3>2
    <3> QED
      BY <1>2, <2>2, <3>1, <3>3 DEF WaitsAfterLog, n
  <2> QED
    BY <2>1, <2>2
<1>5. OrdersInOrder'
  <2> SUFFICES ASSUME NEW u \in Server, NEW i \in 1..Len(smr_log'[u]), NEW j \in 1..Len(smr_log'[u]),
                      i < j, smr_log'[u][i].client = smr_log'[u][j].client
               PROVE  smr_log'[u][i].order_num < smr_log'[u][j].order_num
    BY DEF OrdersInOrder
  <2>1. CASE u # s
    BY <1>1, <2>1 DEF OrdersInOrder
  <2>2. CASE u = s
    <3>1. i \in 1..n
      BY <1>2, <1>3, <2>2
    <3>2. CASE j = n + 1
      BY <1>1, <1>2, <2>2, <3>1, <3>2 DEF WaitsAfterLog, n
    <3>3. CASE j \in 1..n
      BY <1>2, <2>2, <3>1, <3>3 DEF OrdersInOrder, n
    <3> QED
      BY <1>3, <2>2, <3>2, <3>3
  <2> QED
    BY <2>1, <2>2
<1> QED
  BY <1>4, <1>5

LEMMA NextInOrder ==
  ASSUME Inv, ConfirmedInOrder, OneWaitsPerClient, WaitsAfterLog, OrdersInOrder, [Next]_vars
  PROVE  WaitsAfterLog' /\ OrdersInOrder'
<1>1. CASE UNCHANGED <<hand, meta_lock, smr_log>>
  BY <1>1 DEF WaitsAfterLog, OrdersInOrder, Waits
<1>2. ASSUME NEW s \in Server, NEW t \in LeaderThread, TakeRequest(s, t)
      PROVE  WaitsAfterLog' /\ OrdersInOrder'
  <2>1. smr_log' = smr_log
    BY <1>2 DEF TakeRequest
  <2> QED
    BY <1>2, <2>1, TakeRequestInOrder DEF OrdersInOrder
<1>3. ASSUME NEW s \in Server, NEW t \in LeaderThread, AppendUpdate(s, t)
      PROVE  WaitsAfterLog' /\ OrdersInOrder'
  BY <1>3, AppendUpdateInOrder
<1>4. ASSUME NEW s \in Server, NEW t \in LeaderThread, ReplicationEnds(s, t)
      PROVE  WaitsAfterLog' /\ OrdersInOrder'
  <2>1. smr_log' = smr_log
    BY <1>4 DEF ReplicationEnds
  <2>2. \A u \in Server, v \in LeaderThread : Waits(u, v)' => Waits(u, v) /\ hand'[u][v] = hand[u][v]
    BY <1>4 DEF ReplicationEnds, Waits, Inv, OrderTypes
  <2> QED
    BY <2>1, <2>2 DEF WaitsAfterLog, OrdersInOrder
<1>5. CASE \/ UNCHANGED vars
           \/ \E c \in Client : ClientThread(c) \/ CustomerHandler(c)
           \/ \E s \in Server : BecomeLeader(s) \/ ServerStops(s)
           \/ \E s, l \in Server : HearFromLeader(s, l)
  <2>1. UNCHANGED <<hand, meta_lock, smr_log>>
    BY <1>5 DEF vars, ClientThread, Connect, RecvIsLeader, RecvLeaderInfo, RecvIsLeaderAgain,
                SendRequest, RecvAnswer, AllSent, ServerWentDown, CustomerHandler, SendIsLeader,
                CheckLeader, GetLeaderIp, GetLeaderPort, ReturnRecord, CreateLaptop, ShipLaptop,
                EndOfRequests, BecomeLeader, ServerStops, HearFromLeader, Change, threadVars
  <2> QED
    BY <1>1, <2>1
<1> QED
  BY <1>2, <1>3, <1>4, <1>5 DEF Next, LeaderThreadStep

\* A client's order is overtaken in a log only where two LeaderThreads of one server have
\* taken orders of that client and wait for meta_lock with both: that the promise is set
\* before the lock is taken is all that orders_overtake needs, and nothing else in the
\* queue, in the handlers or in changes of leader can turn two orders round.
THEOREM OvertakingTakesTwoThreads == Spec /\ []OneWaitsPerClient => []OrdersInOrder
<1>1. Init => WaitsAfterLog /\ OrdersInOrder
  BY DEF Init, WaitsAfterLog, OrdersInOrder
<1>2. /\ Inv /\ ConfirmedInOrder /\ OneWaitsPerClient /\ WaitsAfterLog /\ OrdersInOrder
      /\ [Next]_vars
      => (WaitsAfterLog /\ OrdersInOrder)'
  BY NextInOrder
<1> QED
  BY <1>1, <1>2, OrderInvariant, OrdersConfirmedInOrder, PTL DEF Spec

=============================================================================

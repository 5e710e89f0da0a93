----------------------------- MODULE ClientServer -----------------------------
(***************************************************************************)
(* Clients and the servers' side of their connections: ClientThread, one   *)
(* CustomerHandler per connection, and the LeaderThreads that take orders  *)
(* from the queue erq and write them to the log.                           *)
(*                                                                         *)
(* The rest of the server is here as far as these threads see it: elections*)
(* change leader_id, and meta_lock is held while an update is replicated.  *)
(* A handler reads leader_id without a lock, so each read is a step.       *)
(***************************************************************************)
EXTENDS Integers, FiniteSets, Sequences

CONSTANTS
    Server,       \* the servers' factory ids
    NoServer,     \* the id -1
    LeaderThread, \* the LeaderThreads of a server (four of them in ServerMain)
    Updater,      \* client threads that send updates; each is a customer of its own
    Reader,       \* client threads that read
    NumRequests,  \* how many requests each client sends
    Free,         \* nobody: a free meta_lock
    Idle,         \* nothing: a LeaderThread without a request
    MaxChanges,   \* bound: how often a server changes its leader_id
    MaxStops      \* bound: how many servers stop

Client == Updater \cup Reader

ASSUME ServerAssumption  == NoServer \notin Server
ASSUME ThreadAssumption  == Free \notin LeaderThread /\ Idle \notin [client : Updater, order_num : Nat]
ASSUME ClientAssumption  == Updater \cap Reader = {}
ASSUME BoundAssumption   == NumRequests \in Nat /\ MaxChanges \in Nat /\ MaxStops \in Nat

VARIABLES
    \* per server: who leads, who ever became leader, which processes run
    leader_id, has_led, running, changes,
    \* per server: the queue of requests, each LeaderThread's request, meta_lock, the log
    erq, hand, meta_lock, smr_log,
    \* the requests whose promise is set
    fulfilled,
    \* per client thread: where it is, its server, the number of its next request, the
    \* answer it read last
    pc, contact, next, answer,
    \* per connection: where the CustomerHandler is, the leader's address it has read,
    \* the requests and the words on their way
    handler, leader_ip, to_server, to_client

metaVars   == <<leader_id, has_led, running, changes>>
threadVars == <<erq, hand, meta_lock, smr_log, fulfilled>>
clientVars == <<pc, contact, next, answer>>
connVars   == <<handler, leader_ip, to_server, to_client>>
vars == <<metaVars, threadVars, clientVars, connVars>>

-----------------------------------------------------------------------------
(* Messages.  Marshal writes the fields of a message as 32-bit words, and  *)
(* a receiver takes as many words as the message it expects has: a message *)
(* nobody expects is read as parts of others.                              *)

Orders == [client : Updater, order_num : 0..NumRequests - 1]

Words(kind, content, size) ==
    [k \in 1..size |-> [kind |-> kind, content |-> content, field |-> k]]

IsLeaderMessage(v)   == Words("is_leader", v, 1)
LeaderInfo(ip, port) == Words("leader_info", <<ip, port>>, 5)
LaptopInfo(o)        == Words("laptop", o.order_num, 5)
CustomerRecord(id)   == Words("record", id, 2)

\* What client c reads when it takes n words off its connection.
Received(c, n) == SubSeq(to_client[c], 1, n)
Take(c, n) ==
    /\ Len(to_client[c]) >= n
    /\ to_client' = [to_client EXCEPT ![c] = SubSeq(@, n + 1, Len(@))]

Send(c, words) == to_client' = [to_client EXCEPT ![c] = @ \o words]

AnswerSize(c) == IF c \in Updater THEN 5 ELSE 2
\* The answer to request number i of client c.
ExpectedAnswer(c, i) ==
    IF c \in Updater THEN LaptopInfo([client |-> c, order_num |-> i]) ELSE CustomerRecord(i)

-----------------------------------------------------------------------------
(* ClientThread. *)

\* The stub connects to server s, closing a connection it had, and says who it is; the
\* server starts a handler.  A server that does not run ends the thread.
OpenConnection(c, s, at) ==
    /\ contact' = [contact EXCEPT ![c] = s]
    /\ pc' = [pc EXCEPT ![c] = IF s \in running THEN at ELSE "done"]
    /\ handler' = [handler EXCEPT ![c] = IF s \in running THEN "greet" ELSE "none"]
    /\ to_server' = [to_server EXCEPT ![c] = <<>>]
    /\ UNCHANGED leader_ip

Connect(c, s) ==
    /\ pc[c] = "start"
    /\ OpenConnection(c, s, "identify")
    /\ UNCHANGED <<metaVars, threadVars, next, answer, to_client>>

\* The server said whether it leads: 2 yes, 1 no, 0 there is no leader.  An updater
\* gives up when there is none; everyone asks for the address when it is another.
RecvIsLeader(c) ==
    /\ pc[c] = "identify"
    /\ Take(c, 1)
    /\ LET v == Received(c, 1)[1].content
       IN  pc' = [pc EXCEPT ![c] = CASE v = 1 -> "redirect"
                                     [] v = 0 /\ c \in Updater -> "done"
                                     [] OTHER -> "order"]
    /\ UNCHANGED <<metaVars, threadVars, contact, next, answer, handler, leader_ip, to_server>>

\* A reader stays with its server.  An updater connects to the leader; an address made of
\* two servers', the ip of one and the port of the other, is nobody's, or that of one of
\* them when they differ in the port alone or in the ip alone.
RecvLeaderInfo(c) ==
    /\ pc[c] = "redirect"
    /\ Len(to_client[c]) >= 5
    /\ \/ /\ c \in Reader
          /\ pc' = [pc EXCEPT ![c] = "order"]
          /\ Take(c, 5)
          /\ UNCHANGED <<contact, handler, leader_ip, to_server>>
       \/ /\ c \in Updater
          /\ LET info == Received(c, 1)[1].content
             IN  \/ \E r \in {info[1], info[2]} : OpenConnection(c, r, "identify_leader")
                 \/ /\ info[1] # info[2]
                    /\ pc' = [pc EXCEPT ![c] = "done"]
                    /\ handler' = [handler EXCEPT ![c] = "none"]
                    /\ UNCHANGED <<contact, leader_ip, to_server>>
          /\ to_client' = [to_client EXCEPT ![c] = <<>>]
    /\ UNCHANGED <<metaVars, threadVars, next, answer>>

\* The new server is asked as well, but where it says the leader is is not read.
RecvIsLeaderAgain(c) ==
    /\ pc[c] = "identify_leader"
    /\ Take(c, 1)
    /\ pc' = [pc EXCEPT ![c] = IF Received(c, 1)[1].content = 0 THEN "done" ELSE "order"]
    /\ UNCHANGED <<metaVars, threadVars, contact, next, answer, handler, leader_ip, to_server>>

SendRequest(c) ==
    /\ pc[c] = "order" /\ next[c] < NumRequests
    /\ contact[c] \in running
    /\ to_server' = [to_server EXCEPT ![c] = Append(@, next[c])]
    /\ pc' = [pc EXCEPT ![c] = "await"]
    /\ UNCHANGED <<metaVars, threadVars, contact, next, answer, handler, leader_ip, to_client>>

RecvAnswer(c) ==
    /\ pc[c] = "await"
    /\ Take(c, AnswerSize(c))
    /\ answer' = [answer EXCEPT ![c] = Received(c, AnswerSize(c))]
    /\ next' = [next EXCEPT ![c] = @ + 1]
    /\ pc' = [pc EXCEPT ![c] = "order"]
    /\ UNCHANGED <<metaVars, threadVars, contact, handler, leader_ip, to_server>>

AllSent(c) ==
    /\ pc[c] = "order" /\ next[c] = NumRequests
    /\ pc' = [pc EXCEPT ![c] = "done"]
    /\ UNCHANGED <<metaVars, threadVars, contact, next, answer, connVars>>

\* A send or a receive fails because the server stopped: whatever the thread waited for
\* reads as the default, and it ends.
ServerWentDown(c) ==
    /\ contact[c] # NoServer /\ contact[c] \notin running
    /\ \/ pc[c] = "order"
       \/ pc[c] \in {"identify", "identify_leader"} /\ to_client[c] = <<>>
       \/ pc[c] = "redirect" /\ Len(to_client[c]) < 5
       \/ pc[c] = "await" /\ Len(to_client[c]) < AnswerSize(c)
    /\ pc' = [pc EXCEPT ![c] = "done"]
    /\ UNCHANGED <<metaVars, threadVars, contact, next, answer, connVars>>

-----------------------------------------------------------------------------
(* CustomerHandler, on the server the client is connected to. *)

At(c, place) == handler[c] = place /\ contact[c] \in running
MoveTo(c, place) == handler' = [handler EXCEPT ![c] = place]

\* IsLeader: 1 and 0 for a server that does and does not lead, -1 when nobody does.
IsLeader(s) == IF leader_id[s] = NoServer THEN -1 ELSE IF leader_id[s] = s THEN 1 ELSE 0

\* Mutant: the identifier is sent as it is.
SendIsLeaderPlain(c) ==
    /\ At(c, "greet")
    /\ Send(c, IsLeaderMessage(IsLeader(contact[c])))
    /\ MoveTo(c, "check")
    /\ UNCHANGED <<metaVars, threadVars, clientVars, leader_ip, to_server>>

SendIsLeader(c) ==
    /\ At(c, "greet")
    /\ Send(c, IsLeaderMessage(IsLeader(contact[c]) + 1))
    /\ MoveTo(c, "check")
    /\ UNCHANGED <<metaVars, threadVars, clientVars, leader_ip, to_server>>

\* The second look at leader_id decides whether an address follows.
CheckLeader(c) ==
    /\ At(c, "check")
    /\ MoveTo(c, IF IsLeader(contact[c]) = 0 THEN "get_ip" ELSE "serve")
    /\ UNCHANGED <<metaVars, threadVars, clientVars, leader_ip, to_server, to_client>>

\* GetLeader finds nobody among the neighbours when the leader is the server itself: the
\* null pointer it returns is followed, and the server is gone.  (It reads leader_id once
\* per neighbour, so with three or more servers a change between two others in the middle
\* of the search ends the same way: that server goes as in ServerStops.)
NoLeaderFound(s) == leader_id[s] = s
Stop(s) ==
    /\ running' = running \ {s}
    /\ UNCHANGED <<leader_id, has_led, changes>>

GetLeaderIp(c) ==
    /\ At(c, "get_ip")
    /\ IF NoLeaderFound(contact[c])
       THEN Stop(contact[c]) /\ UNCHANGED <<handler, leader_ip>>
       ELSE /\ leader_ip' = [leader_ip EXCEPT ![c] = leader_id[contact[c]]]
            /\ MoveTo(c, "get_port")
            /\ UNCHANGED metaVars
    /\ UNCHANGED <<threadVars, clientVars, to_server, to_client>>

GetLeaderPort(c) ==
    /\ At(c, "get_port")
    /\ IF NoLeaderFound(contact[c])
       THEN Stop(contact[c]) /\ UNCHANGED <<handler, to_client>>
       ELSE /\ Send(c, LeaderInfo(leader_ip[c], leader_id[contact[c]]))
            /\ MoveTo(c, "serve")
            /\ UNCHANGED metaVars
    /\ UNCHANGED <<threadVars, clientVars, leader_ip, to_server>>

\* A read is answered at once (with which value is not modelled here).
ReturnRecord(c) ==
    /\ At(c, "serve") /\ c \in Reader /\ to_server[c] # <<>>
    /\ Send(c, CustomerRecord(Head(to_server[c])))
    /\ to_server' = [to_server EXCEPT ![c] = Tail(@)]
    /\ UNCHANGED <<metaVars, threadVars, clientVars, handler, leader_ip>>

\* Mutant: the buffer holds the request that was received last.
CreateLaptopOfLast(c) ==
    /\ At(c, "serve") /\ c \in Updater /\ to_server[c] # <<>>
    /\ erq' = [erq EXCEPT ![contact[c]] =
                 Append(@, [client |-> c, order_num |-> to_server[c][Len(to_server[c])]])]
    /\ MoveTo(c, "wait")
    /\ UNCHANGED <<metaVars, hand, meta_lock, smr_log, fulfilled, clientVars, leader_ip,
                   to_server, to_client>>

\* An update goes into the queue, and the handler waits for its promise.  Whether this
\* server leads is not looked at.
CreateLaptop(c) ==
    /\ At(c, "serve") /\ c \in Updater /\ to_server[c] # <<>>
    /\ erq' = [erq EXCEPT ![contact[c]] =
                 Append(@, [client |-> c, order_num |-> Head(to_server[c])])]
    /\ MoveTo(c, "wait")
    /\ UNCHANGED <<metaVars, hand, meta_lock, smr_log, fulfilled, clientVars, leader_ip,
                   to_server, to_client>>

ShipLaptop(c) ==
    LET o == [client |-> c, order_num |-> Head(to_server[c])]
    IN  /\ At(c, "wait") /\ o \in fulfilled
        /\ Send(c, LaptopInfo(o))
        /\ to_server' = [to_server EXCEPT ![c] = Tail(@)]
        /\ MoveTo(c, "serve")
        /\ UNCHANGED <<metaVars, threadVars, clientVars, leader_ip>>

\* The client closed the connection.
EndOfRequests(c) ==
    /\ At(c, "serve") /\ pc[c] = "done" /\ to_server[c] = <<>>
    /\ MoveTo(c, "none")
    /\ UNCHANGED <<metaVars, threadVars, clientVars, leader_ip, to_server, to_client>>

-----------------------------------------------------------------------------
(* LeaderThread. *)

\* Mutant: the request is taken but left in the queue.
TakeRequestWithoutPop(s, t) ==
    /\ s \in running /\ hand[s][t] = Idle /\ erq[s] # <<>>
    /\ hand' = [hand EXCEPT ![s][t] = Head(erq[s])]
    /\ fulfilled' = fulfilled \cup {Head(erq[s])}
    /\ UNCHANGED <<metaVars, erq, meta_lock, smr_log, clientVars, connVars>>

\* Mutant: the promise is forgotten.
TakeRequestUnfulfilled(s, t) ==
    /\ s \in running /\ hand[s][t] = Idle /\ erq[s] # <<>>
    /\ hand' = [hand EXCEPT ![s][t] = Head(erq[s])]
    /\ erq' = [erq EXCEPT ![s] = Tail(@)]
    /\ UNCHANGED <<metaVars, fulfilled, meta_lock, smr_log, clientVars, connVars>>

\* The promise is set before anything is done about the log.
TakeRequest(s, t) ==
    /\ s \in running /\ hand[s][t] = Idle /\ erq[s] # <<>>
    /\ hand' = [hand EXCEPT ![s][t] = Head(erq[s])]
    /\ erq' = [erq EXCEPT ![s] = Tail(@)]
    /\ fulfilled' = fulfilled \cup {Head(erq[s])}
    /\ UNCHANGED <<metaVars, meta_lock, smr_log, clientVars, connVars>>

\* LeaderMaintainLog, up to the replication, ...
AppendUpdate(s, t) ==
    /\ s \in running /\ hand[s][t] # Idle /\ meta_lock[s] = Free
    /\ meta_lock' = [meta_lock EXCEPT ![s] = t]
    /\ smr_log' = [smr_log EXCEPT ![s] = Append(@, hand[s][t])]
    /\ UNCHANGED <<metaVars, erq, hand, fulfilled, clientVars, connVars>>

\* Mutant: the request is still in the thread's hands.
ReplicationEndsKeepsRequest(s, t) ==
    /\ s \in running /\ meta_lock[s] = t
    /\ meta_lock' = [meta_lock EXCEPT ![s] = Free]
    /\ UNCHANGED <<metaVars, erq, hand, smr_log, fulfilled, clientVars, connVars>>

\* ... and its end.
ReplicationEnds(s, t) ==
    /\ s \in running /\ meta_lock[s] = t
    /\ meta_lock' = [meta_lock EXCEPT ![s] = Free]
    /\ hand' = [hand EXCEPT ![s][t] = Idle]
    /\ UNCHANGED <<metaVars, erq, smr_log, fulfilled, clientVars, connVars>>

-----------------------------------------------------------------------------
(* What elections and requests of other servers do to leader_id: see Raft. *)

Change(s, l) ==
    /\ s \in running /\ meta_lock[s] = Free /\ changes < MaxChanges
    /\ leader_id[s] # l
    /\ leader_id' = [leader_id EXCEPT ![s] = l]
    /\ changes' = changes + 1
    /\ UNCHANGED <<running, threadVars, clientVars, connVars>>

BecomeLeader(s) == Change(s, s) /\ has_led' = has_led \cup {s}

\* Only a server that has been elected sends log requests (LeaderIdInitialised in Raft).
HearFromLeader(s, l) == l \in has_led \ {s} /\ Change(s, l) /\ UNCHANGED has_led

ServerStops(s) ==
    /\ s \in running /\ Cardinality(Server \ running) < MaxStops
    /\ Stop(s)
    /\ UNCHANGED <<threadVars, clientVars, connVars>>

-----------------------------------------------------------------------------
Init ==
    /\ leader_id = [s \in Server |-> NoServer]
    /\ has_led = {}
    /\ running = Server
    /\ changes = 0
    /\ erq = [s \in Server |-> <<>>]
    /\ hand = [s \in Server |-> [t \in LeaderThread |-> Idle]]
    /\ meta_lock = [s \in Server |-> Free]
    /\ smr_log = [s \in Server |-> <<>>]
    /\ fulfilled = {}
    /\ pc = [c \in Client |-> "start"]
    /\ contact = [c \in Client |-> NoServer]
    /\ next = [c \in Client |-> 0]
    /\ answer = [c \in Client |-> <<>>]
    /\ handler = [c \in Client |-> "none"]
    /\ leader_ip = [c \in Client |-> NoServer]
    /\ to_server = [c \in Client |-> <<>>]
    /\ to_client = [c \in Client |-> <<>>]

ClientThread(c) ==
    \/ \E s \in Server : Connect(c, s)
    \/ RecvIsLeader(c) \/ RecvLeaderInfo(c) \/ RecvIsLeaderAgain(c)
    \/ SendRequest(c) \/ RecvAnswer(c) \/ AllSent(c) \/ ServerWentDown(c)
CustomerHandler(c) ==
    \/ SendIsLeader(c) \/ CheckLeader(c) \/ GetLeaderIp(c) \/ GetLeaderPort(c)
    \/ ReturnRecord(c) \/ CreateLaptop(c) \/ ShipLaptop(c) \/ EndOfRequests(c)
LeaderThreadStep(s, t) == TakeRequest(s, t) \/ AppendUpdate(s, t) \/ ReplicationEnds(s, t)

Next ==
    \/ \E c \in Client : ClientThread(c) \/ CustomerHandler(c)
    \/ \E s \in Server, t \in LeaderThread : LeaderThreadStep(s, t)
    \/ \E s \in Server : BecomeLeader(s) \/ ServerStops(s)
    \/ \E s, l \in Server : HearFromLeader(s, l)

Spec == Init /\ [][Next]_vars

-----------------------------------------------------------------------------
(* Properties. *)

\* Every variable keeps its type.
ClientTypeOK ==
    /\ leader_id \in [Server -> Server \cup {NoServer}]
    /\ has_led \subseteq Server /\ running \subseteq Server
    /\ changes \in Nat
    /\ erq \in [Server -> Seq(Orders)]
    /\ hand \in [Server -> [LeaderThread -> Orders \cup {Idle}]]
    /\ meta_lock \in [Server -> LeaderThread \cup {Free}]
    /\ smr_log \in [Server -> Seq(Orders)]
    /\ fulfilled \subseteq Orders
    /\ pc \in [Client -> {"start", "identify", "redirect", "identify_leader", "order",
                          "await", "done"}]
    /\ contact \in [Client -> Server \cup {NoServer}]
    /\ next \in [Client -> 0..NumRequests]
    /\ \A c \in Client : Len(answer[c]) \in {0, AnswerSize(c)}
    /\ handler \in [Client -> {"none", "greet", "check", "get_ip", "get_port", "serve", "wait"}]
    /\ leader_ip \in [Client -> Server \cup {NoServer}]
    /\ to_server \in [Client -> Seq(0..NumRequests - 1)]
    /\ \A c \in Client : \A k \in 1..Len(to_client[c]) :
         to_client[c][k].kind = "is_leader" => to_client[c][k].content \in 0..2

\* Where an order is: in a queue, with a LeaderThread that has yet to append it, in a log.
Queued(o) == UNION {{<<s, i>> : i \in {k \in 1..Len(erq[s]) : erq[s][k] = o}} : s \in Server}
InHand(o) == {p \in Server \X LeaderThread : hand[p[1]][p[2]] = o /\ meta_lock[p[1]] # p[2]}
Logged(o) ==
    UNION {{<<s, i>> : i \in {k \in 1..Len(smr_log[s]) : smr_log[s][k] = o}} : s \in Server}
Places(o) ==
    ({"queue"} \X Queued(o)) \cup ({"hand"} \X InHand(o)) \cup ({"log"} \X Logged(o))

\* No order is taken twice, on whatever servers, and none that was confirmed to its client
\* is forgotten by the threads: it has left the queue, and is in one LeaderThread's hands
\* or once in a log.
OrdersKept ==
    \A o \in Orders :
        /\ \A p, q \in Places(o) : p = q
        /\ o \in fulfilled => Queued(o) = {} /\ Places(o) # {}

\* A handler that waits for a promise does not wait in vain: the promise is set, or the
\* request it belongs to is in the queue of this server.
PromiseIsOwed ==
    \A c \in Client :
        At(c, "wait") =>
            LET o == [client |-> c, order_num |-> Head(to_server[c])]
            IN  o \in fulfilled \/ \E i \in 1..Len(erq[contact[c]]) : erq[contact[c]][i] = o

\* What a client takes for the answer to its request is the answer to its request.
AnswersMatch ==
    \A c \in Client : answer[c] # <<>> => answer[c] = ExpectedAnswer(c, next[c] - 1)

\* An order is confirmed only after every earlier order of its client was, even if the
\* client took other words for the answer to an order and sent the next one early.
ConfirmedInOrder ==
    \A o \in fulfilled : \A n \in 0..o.order_num - 1 :
        [client |-> o.client, order_num |-> n] \in fulfilled

\* The orders of a customer, sent one at a time, are in every log in the order in which
\* they were sent: the record ends with the last one.
OrdersInOrder ==
    \A s \in Server : \A i, j \in 1..Len(smr_log[s]) :
        i < j /\ smr_log[s][i].client = smr_log[s][j].client =>
            smr_log[s][i].order_num < smr_log[s][j].order_num

\* The orders that a server has queued, and those it took from its queue.
PlacedOrders ==
    {o \in Orders :
        o \in fulfilled \/ \E s \in Server : \E i \in 1..Len(erq[s]) : erq[s][i] = o}

Service == INSTANCE OrderService WITH
              Order <- Orders, placed <- PlacedOrders, confirmed <- fulfilled, log <- smr_log

\* Every step of the clients and the servers is a step of the order service, or none:
\* whatever server a client is sent to, and whichever threads race, an order is confirmed
\* once and then written at most once.
ImplementsService == Service!Spec

=============================================================================

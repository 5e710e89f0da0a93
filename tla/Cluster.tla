------------------------------- MODULE Cluster -------------------------------
(* The servers as processes: ServerMain boots each of them, any of them    *)
(* may stop and be started again, and nothing it knew is kept.  While it   *)
(* runs, a server takes the steps of module Raft; a connection breaks when *)
(* the server at one of its ends stops.                                    *)
EXTENDS Raft

CONSTANTS
    MaxStops     \* bound: how many times a server is stopped from outside

ASSUME StopsAssumption == MaxStops \in Nat
ASSUME NoLinksAssumption == BootLinks = {[s \in Server |-> {}]}

VARIABLES
    phase,       \* where main() is: not running, in InitNeighbors, or past it
    stops        \* how many times a server was stopped

clusterVars == <<vars, phase, stops>>

-----------------------------------------------------------------------------
(* ServerMain. *)

\* Mutant: a server listens only once it has tried its neighbours.
ListensAfterwards(j) == phase[j] = "running"

\* socket.Init comes first: from then on the kernel accepts connections.
Listens(j) == phase[j] # "down"

Boot(s) ==
    /\ phase[s] = "down"
    /\ phase' = [phase EXCEPT ![s] = "connecting"]
    /\ todo' = [todo EXCEPT ![s] = Server \ {s}]
    /\ UNCHANGED <<electionVars, logVars, leaderVars, connVars, netVars, seen, holder,
                   num_change, new_node_socket, rpcVars, stops>>

\* A neighbour that does not listen is not put into failed_neighbors: it is forgotten.
InitNeighbor(s, j) ==
    /\ phase[s] = "connecting" /\ j \in todo[s]
    /\ todo' = [todo EXCEPT ![s] = @ \ {j}]
    /\ node_socket' = [node_socket EXCEPT ![s] = IF Listens(j) THEN @ \cup {j} ELSE @]
    /\ conn' = [conn EXCEPT ![s] = IF Listens(j) THEN @ \cup {j} ELSE @]
    /\ UNCHANGED <<electionVars, logVars, leaderVars, failed_neighbors, repeated, netVars, seen,
                   holder, num_change, new_node_socket, rpcVars, phase, stops>>

StartThreads(s) ==
    /\ phase[s] = "connecting" /\ todo[s] = {}
    /\ phase' = [phase EXCEPT ![s] = "running"]
    /\ UNCHANGED <<vars, stops>>

-----------------------------------------------------------------------------
(* A server that stops. *)

\* Everything ServerMetadata holds, and the threads that used it, is gone.
Forget(s) ==
    /\ current_term' = [current_term EXCEPT ![s] = 0]
    /\ status' = [status EXCEPT ![s] = FOLLOWER]
    /\ voted_for' = [voted_for EXCEPT ![s] = NoServer]
    /\ vote_received' = [vote_received EXCEPT ![s] = {}]
    /\ leader_id' = [leader_id EXCEPT ![s] = NoServer]
    /\ heartbeat' = [heartbeat EXCEPT ![s] = FALSE]
    /\ smr_log' = [smr_log EXCEPT ![s] = <<>>]
    /\ commit_length' = [commit_length EXCEPT ![s] = 0]
    /\ customer_record' = [customer_record EXCEPT ![s] = [k \in Key |-> NoValue]]
    /\ allocated' = [allocated EXCEPT ![s] = FALSE]
    /\ sent_length' = [sent_length EXCEPT ![s] = [j \in Server |-> 0]]
    /\ ack_length' = [ack_length EXCEPT ![s] = [j \in Server |-> 0]]
    /\ node_socket' = [node_socket EXCEPT ![s] = {}]
    /\ failed_neighbors' = [failed_neighbors EXCEPT ![s] = {}]
    /\ repeated' = [repeated EXCEPT ![s] = {}]
    /\ seen' = [seen EXCEPT ![s] = Unread]
    /\ holder' = [holder EXCEPT ![s] = "free"]
    /\ todo' = [todo EXCEPT ![s] = {}]
    /\ num_change' = [num_change EXCEPT ![s] = FALSE]
    /\ new_node_socket' = [new_node_socket EXCEPT ![s] = {}]
    /\ callee' = [callee EXCEPT ![s] = NoServer]

\* Its connections break at both ends.  What it had sent may still be read; what was sent
\* to it and not answered is lost.
Disconnect(s) ==
    LET calling   == {p \in Server : callee[p] = s}
        connected == {p \in Server : p \in conn[s]}
    IN  /\ conn' = [p \in Server |-> IF p = s THEN {} ELSE conn[p] \ {s}]
        /\ request' = [p \in Server |-> IF p = s \/ p \in calling THEN NoMsg ELSE request[p]]
        /\ \E unread \in SUBSET calling :
             reply' = [p \in Server |-> IF p = s \/ p \in unread THEN NoMsg ELSE reply[p]]
        /\ \E left \in SUBSET {[to |-> callee[s], req |-> request[s]]} :
             /\ request[s] = NoMsg => left = {}
             /\ orphans' = {o \in orphans \cup left : o.to # s}
             /\ broken' = (broken \cup (connected \ {o.to : o \in left})) \ {s}
        /\ UNCHANGED drops

Stop(s) ==
    /\ phase[s] # "down" /\ stops < MaxStops
    /\ phase' = [phase EXCEPT ![s] = "down"]
    /\ stops' = stops + 1
    /\ Forget(s) /\ Disconnect(s)

\* SIGPIPE, which nothing handles: a call is sent in two parts, and the second one, into a
\* connection whose other end has stopped, may end the process.
BrokenPipe(s) ==
    /\ phase[s] = "running" /\ Lost(s)
    /\ phase' = [phase EXCEPT ![s] = "down"]
    /\ Forget(s) /\ Disconnect(s)
    /\ UNCHANGED stops

-----------------------------------------------------------------------------
(* A server that runs. *)

\* An attempt to reconnect succeeds when the other server listens again.
Dials(s) ==
    LET listening == {j \in failed_neighbors[s] : Listens(j)}
    IN  /\ failed_neighbors'[s] = failed_neighbors[s] \ listening
        /\ conn'[s] = conn[s] \cup listening

Running(s, Step) == phase[s] = "running" /\ Step /\ UNCHANGED <<phase, stops>>

RunTimeout(s) ==
    Running(s, \/ ReadStatus(s) \/ FollowerTimeout(s) \/ BeginVote(s)
               \/ BeginHeartbeat(s) /\ Dials(s))
RunCalls(s)     == Running(s, RequestVote(s) \/ ReplicateLog(s))
RunUpdate(s)    == Running(s, LeaderThread(s) /\ Dials(s))
RunHandler(s)   == Running(s, ServerHandler(s))
RunAnswer(s, c) == Running(s, CandidateVoteHandler(s, c) \/ AppendLogHandler(s, c))

-----------------------------------------------------------------------------
ClusterInit ==
    /\ Init
    /\ phase = [s \in Server |-> "down"]
    /\ stops = 0

ServerMain(s) == Boot(s) \/ (\E j \in Server : InitNeighbor(s, j)) \/ StartThreads(s)

ClusterNext ==
    \E s \in Server :
        \/ ServerMain(s) \/ Stop(s) \/ BrokenPipe(s)
        \/ RunTimeout(s) \/ RunCalls(s) \/ RunUpdate(s) \/ RunHandler(s)

ClusterSpec == ClusterInit /\ [][ClusterNext]_clusterVars

\* A server that was started boots, TimeoutThread goes round its loop, a thread inside an
\* RPC loop runs, and a handler that keeps finding meta_lock free gets it in the end.
\* Nothing makes an operator start or stop a server, or a client send an update.
ClusterFairness ==
    \A s \in Server :
        /\ WF_clusterVars(ServerMain(s) /\ phase[s] = "connecting")
        /\ WF_clusterVars(RunTimeout(s))
        /\ WF_clusterVars(RunCalls(s))
        /\ \A c \in Server \ {s} : SF_clusterVars(RunAnswer(s, c))

FairClusterSpec == ClusterSpec /\ ClusterFairness

-----------------------------------------------------------------------------
(* Properties. *)

\* Of two servers that run, one at least can call the other, in whatever order they were
\* booted, stopped and booted again: so every two servers hear of each other's votes.
OneCanCall ==
    \A s, t \in Server :
        s # t /\ phase[s] = "running" /\ phase[t] = "running" =>
            t \in node_socket[s] \cap conn[s] \/ s \in node_socket[t] \cap conn[t]

\* A server takes nothing back of what it committed while its process lives, though the
\* leaders that send it requests may have come back with less than it has, and though the
\* servers it counted on for a majority may have lost theirs.
CommitsKept ==
    [][\A s \in Server :
         Listens(s) /\ Listens(s)' =>
             /\ commit_length'[s] >= commit_length[s]
             /\ Len(smr_log'[s]) >= commit_length[s]
             /\ \A i \in 1..commit_length[s] : smr_log'[s][i] = smr_log[s][i]]_clusterVars

Leads(l) == phase[l] = "running" /\ status[l] = LEADER
Follows(f) == phase[f] # "down" /\ status[f] = FOLLOWER

\* A follower that is started again while another server leads is sent the whole log by
\* the leader's heartbeats, unless it stops once more, becomes a candidate or the leader
\* falls before.
RejoinedRecovers ==
    \A l, f \in Server :
        l # f /\ Leads(l) /\ phase[f] = "connecting" ~>
            smr_log[f] = smr_log[l] \/ ~Leads(l) \/ ~Follows(f)
=============================================================================

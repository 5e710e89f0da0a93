-------------------------------- MODULE Raft --------------------------------
(***************************************************************************)
(* The replicated key-value server: ServerMetadata (the Raft state and the *)
(* two RPCs), the TimeoutThread, LeaderThread and ServerHandler threads    *)
(* that drive it, and the TCP connections between the servers.             *)
(*                                                                         *)
(* Granularity.  ServerMetadata is guarded by meta_lock.  A thread that    *)
(* runs RequestVote or ReplicateLog keeps the lock across its blocking     *)
(* RPCs, so those two are sequences of steps (begin, one call and one      *)
(* reply per peer, end) during which holder[s] names the caller; a handler *)
(* of an incoming RPC, which never blocks on anything but the lock and a   *)
(* message already sent, is one step.  Reads made without the lock         *)
(* (TimeoutThread's status) are steps of their own.                        *)
(***************************************************************************)
EXTENDS Integers, FiniteSets, Sequences

CONSTANTS
    Server,      \* the factory ids of the configured servers
    Key,         \* customer ids
    Value,       \* order numbers
    NoServer,    \* the id -1: "no leader", "no vote", an id of no server
    NoValue,     \* what GetValue returns for a key it does not find (-1)
    BootLinks,   \* the connection graphs the servers may have after booting
    GarbageTerms,\* what a term may read as in a buffer nothing was received into
    MaxTerm,     \* bound: no election is started in a term above this one
    MaxLog,      \* bound: no update is accepted by a server whose log has this length
    MaxDrops     \* bound: how many connections may break

ASSUME ServerAssumption == IsFiniteSet(Server) /\ Server # {} /\ NoServer \notin Server
ASSUME ValueAssumption  == NoValue \notin Value
ASSUME BoundAssumption  == MaxTerm \in Nat /\ MaxLog \in Nat /\ MaxDrops \in Nat
ASSUME GarbageAssumption == GarbageTerms \subseteq Nat
ASSUME BootAssumption   ==
    BootLinks \subseteq {g \in [Server -> SUBSET Server] : \A s \in Server : s \notin g[s]}

FOLLOWER  == 1
LEADER    == 2
CANDIDATE == 3
Unread    == 0     \* TimeoutThread is about to read the status

VARIABLES
    \* ServerMetadata: the election state
    current_term, status, voted_for, vote_received, leader_id, heartbeat,
    \* ServerMetadata: the log, and the state machine it drives
    smr_log, commit_length, customer_record,
    \* ServerMetadata: the leader's arrays; allocated[s] says InitLeader has made them
    allocated, sent_length, ack_length,
    \* ServerMetadata: the outgoing connections; conn[s] is those of them that work, and
    \* repeated[s] the nodes that occur in the deque failed_neighbors more than once
    node_socket, failed_neighbors, repeated, conn,
    \* the network: how many connections broke, and which servers have a
    \* ServerHandler thread left on a broken connection
    drops, broken,
    \* threads: TimeoutThread's copy of the status, who holds meta_lock, and the
    \* local variables of the RPC loop it runs
    seen, holder, todo, num_change, new_node_socket,
    \* the RPC in progress: the peer being called, the request in its socket, the
    \* response in ours, and requests left in the sockets of broken connections
    callee, request, reply, orphans

electionVars == <<current_term, status, voted_for, vote_received, leader_id, heartbeat>>
logVars      == <<smr_log, commit_length, customer_record>>
leaderVars   == <<allocated, sent_length, ack_length>>
connVars     == <<node_socket, failed_neighbors, repeated, conn>>
netVars      == <<drops, broken>>
loopVars     == <<todo, num_change, new_node_socket>>
threadVars   == <<seen, holder, loopVars>>
rpcVars      == <<callee, request, reply, orphans>>
vars == <<electionVars, logVars, leaderVars, connVars, netVars, threadVars, rpcVars>>

-----------------------------------------------------------------------------
(* Messages.  An operation with term -1 marks a LogRequest as a heartbeat. *)
(* For each of them Marshal and Unmarshal put and take the same fields in  *)
(* the same order, so what arrives whole arrives as it was sent.           *)

Ops  == [term : Nat, arg1 : Key, arg2 : Value]
NoOp == [term |-> -1, arg1 |-> NoServer, arg2 |-> NoValue]
NoMsg == [kind |-> "none"]

RequestVoteMessages ==
    [kind : {"vote"}, id : Server, current_term : Nat, log_size : Nat, last_term : Nat]
LogRequests ==
    [kind : {"append"}, leader_id : Server, current_term : Nat, prefix_length : Nat,
     prefix_term : Nat, commit_length : Nat, op : Ops \cup {NoOp}]
Requests == RequestVoteMessages \cup LogRequests

RequestVoteResponses ==
    [kind : {"vote"}, id : Server \cup {NoServer}, current_term : Nat, voted : BOOLEAN]
LogResponses ==
    [kind : {"append"}, follower_id : Server, current_term : Nat, ack : Nat, success : BOOLEAN]
Replies == RequestVoteResponses \cup LogResponses

\* A failed receive leaves its buffer uninitialised and the caller decodes it all
\* the same: any vote response may come out.
GarbageResponses ==
    [kind : {"vote"}, id : Server \cup {NoServer}, current_term : GarbageTerms,
     voted : BOOLEAN]

-----------------------------------------------------------------------------
(* Helpers of ServerMetadata. *)

LogSize(s)  == Len(smr_log[s])
GetPeerSize == Cardinality(Server) - 1
GetLastTerm(s) == IF LogSize(s) = 0 THEN 0 ELSE smr_log[s][LogSize(s)].term
GetPrefixTerm(s, prefix_length) ==
    IF prefix_length > 0 THEN smr_log[s][prefix_length].term ELSE 0

WonElection(votes) == Cardinality(votes) * 2 >= GetPeerSize

MaxOf(S) == CHOOSE m \in S : \A n \in S : m >= n

\* The customer records after ExecuteLog has run on the operations from+1 .. to.
ExecuteLog(record, log, from, to) ==
    [k \in Key |->
        LET writes == {i \in from + 1 .. to : log[i].arg1 = k}
        IN  IF writes = {} THEN record[k] ELSE log[MaxOf(writes)].arg2]

\* Mutant: the vote count's comparison used for commits.
AckedByElectionQuorum(ack, n) ==
    Cardinality({j \in Server : ack[j] >= n}) * 2 >= GetPeerSize

\* More than half of the servers, the caller's own slot included, acknowledged length n.
AckedByMajority(ack, n) ==
    Cardinality({j \in Server : ack[j] >= n}) * 2 > GetPeerSize + 1

\* CommitLog: the length up to which the log is committed, given the acks.
CommitUntil(s, ack) ==
    LET reached == {n \in commit_length[s] .. LogSize(s) : AckedByMajority(ack, n)}
    IN  IF reached = {} THEN commit_length[s] ELSE MaxOf(reached)

RequestVoteMessage(s) ==
    [kind |-> "vote", id |-> s, current_term |-> current_term[s],
     log_size |-> LogSize(s), last_term |-> GetLastTerm(s)]

LogRequest(s, j) ==
    LET prefix_length == sent_length[s][j]
    IN  [kind |-> "append", leader_id |-> s, current_term |-> current_term[s],
         prefix_length |-> prefix_length, prefix_term |-> GetPrefixTerm(s, prefix_length),
         commit_length |-> commit_length[s],
         op |-> IF LogSize(s) = prefix_length THEN NoOp ELSE smr_log[s][prefix_length + 1]]

-----------------------------------------------------------------------------
(* Calls.  A call is made by the thread that holds meta_lock; it ends with *)
(* a response, or without one when the connection is gone.                 *)

StartCall(s, j, m) ==
    /\ callee' = [callee EXCEPT ![s] = j]
    /\ request' = [request EXCEPT ![s] = IF j \in conn[s] THEN m ELSE NoMsg]
    /\ todo' = [todo EXCEPT ![s] = @ \ {j}]
    /\ UNCHANGED <<reply, orphans>>

Answered(s) == callee[s] # NoServer /\ reply[s] # NoMsg
Lost(s) ==
    callee[s] # NoServer /\ callee[s] \notin conn[s] /\ request[s] = NoMsg /\ reply[s] = NoMsg

EndCall(s) ==
    /\ callee' = [callee EXCEPT ![s] = NoServer]
    /\ reply' = [reply EXCEPT ![s] = NoMsg]
    /\ UNCHANGED <<request, orphans>>

\* A thread takes meta_lock and starts an RPC loop over the given nodes.
Acquire(s, thread, nodes) ==
    /\ holder[s] = "free"
    /\ holder' = [holder EXCEPT ![s] = thread]
    /\ todo' = [todo EXCEPT ![s] = nodes]
    /\ UNCHANGED <<seen, num_change, new_node_socket>>

\* The RPC loop returns and meta_lock is released; TimeoutThread goes round its loop.
Release(s) ==
    /\ holder' = [holder EXCEPT ![s] = "free"]
    /\ seen' = IF holder[s] = "Update" THEN seen ELSE [seen EXCEPT ![s] = Unread]
    /\ todo' = [todo EXCEPT ![s] = {}]
    /\ num_change' = [num_change EXCEPT ![s] = FALSE]
    /\ new_node_socket' = [new_node_socket EXCEPT ![s] = {}]

\* A peer answered with a higher term: both RPC loops give up in the same way.
Demote(s, term) ==
    /\ current_term' = [current_term EXCEPT ![s] = term]
    /\ status' = [status EXCEPT ![s] = FOLLOWER]
    /\ voted_for' = [voted_for EXCEPT ![s] = NoServer]
    /\ vote_received' = [vote_received EXCEPT ![s] = {}]
    /\ UNCHANGED <<leader_id, heartbeat>>

-----------------------------------------------------------------------------
(* TimeoutThread. *)

\* The status is read before any lock is taken, and used after.
ReadStatus(s) ==
    /\ seen[s] = Unread
    /\ seen' = [seen EXCEPT ![s] = status[s]]
    /\ UNCHANGED <<electionVars, logVars, leaderVars, connVars, netVars, holder, loopVars, rpcVars>>

\* A follower whose timeout ended: it heard from someone, or becomes a candidate.
FollowerTimeout(s) ==
    /\ seen[s] = FOLLOWER
    /\ holder[s] = "free"
    /\ IF heartbeat[s]
       THEN heartbeat' = [heartbeat EXCEPT ![s] = FALSE] /\ UNCHANGED status
       ELSE status' = [status EXCEPT ![s] = CANDIDATE] /\ UNCHANGED heartbeat
    /\ seen' = [seen EXCEPT ![s] = Unread]
    /\ UNCHANGED <<current_term, voted_for, vote_received, leader_id, logVars, leaderVars,
                   connVars, netVars, holder, loopVars, rpcVars>>

-----------------------------------------------------------------------------
(* RequestVote. *)

\* Mutant: the candidate does not vote for itself.
BeginVoteWithoutOwn(s) ==
    /\ seen[s] = CANDIDATE
    /\ current_term[s] < MaxTerm
    /\ Acquire(s, "RequestVote", node_socket[s])
    /\ current_term' = [current_term EXCEPT ![s] = @ + 1]
    /\ UNCHANGED <<status, voted_for, vote_received, leader_id, heartbeat, logVars, leaderVars,
                   connVars, netVars, rpcVars>>

BeginVote(s) ==
    /\ seen[s] = CANDIDATE
    /\ current_term[s] < MaxTerm
    /\ Acquire(s, "RequestVote", node_socket[s])
    /\ voted_for' = [voted_for EXCEPT ![s] = s]
    /\ vote_received' = [vote_received EXCEPT ![s] = @ \cup {s}]
    /\ current_term' = [current_term EXCEPT ![s] = @ + 1]
    /\ UNCHANGED <<status, leader_id, heartbeat, logVars, leaderVars, connVars, netVars, rpcVars>>

CallVote(s, j) ==
    /\ holder[s] = "RequestVote" /\ callee[s] = NoServer /\ j \in todo[s]
    /\ StartCall(s, j, RequestVoteMessage(s))
    /\ UNCHANGED <<electionVars, logVars, leaderVars, connVars, netVars,
                   seen, holder, num_change, new_node_socket>>

InitLeader(s) ==
    /\ sent_length' = [sent_length EXCEPT ![s] = [j \in Server |-> LogSize(s)]]
    /\ ack_length' = [ack_length EXCEPT ![s] = [j \in Server |-> 0]]
    /\ allocated' = [allocated EXCEPT ![s] = TRUE]
    /\ leader_id' = [leader_id EXCEPT ![s] = s]
    /\ status' = [status EXCEPT ![s] = LEADER]

\* The candidate looks at the response res and counts it, gives up, or goes on.
CountVote(s, res) ==
    LET counted == res.current_term = current_term[s] /\ res.voted
        higher  == res.current_term > current_term[s]
        votes   == vote_received[s] \cup {res.id}
    IN  \/ /\ counted
           /\ vote_received' = [vote_received EXCEPT ![s] = votes]
           /\ IF WonElection(votes)
              THEN InitLeader(s) /\ Release(s)
              ELSE UNCHANGED <<leaderVars, leader_id, status, threadVars>>
           /\ UNCHANGED <<current_term, voted_for, heartbeat>>
        \/ higher /\ Demote(s, res.current_term) /\ Release(s) /\ UNCHANGED leaderVars
        \/ ~counted /\ ~higher /\ UNCHANGED <<electionVars, leaderVars, threadVars>>

ReceiveVoteResponse(s) ==
    /\ holder[s] = "RequestVote" /\ Answered(s)
    /\ CountVote(s, reply[s])
    /\ EndCall(s)
    /\ UNCHANGED <<logVars, connVars, netVars>>

\* The connection is gone: RecvVoteResponse decodes a buffer nothing was received
\* into.  The node stays in node_socket.
LoseVoteResponse(s) ==
    /\ holder[s] = "RequestVote" /\ Lost(s)
    /\ \E res \in GarbageResponses : CountVote(s, res)
    /\ EndCall(s)
    /\ UNCHANGED <<logVars, connVars, netVars>>

\* Every peer was asked and no majority was found.
EndVote(s) ==
    /\ holder[s] = "RequestVote" /\ callee[s] = NoServer /\ todo[s] = {}
    /\ Release(s)
    /\ UNCHANGED <<electionVars, logVars, leaderVars, connVars, netVars, rpcVars>>

-----------------------------------------------------------------------------
(* ReplicateLog, run by TimeoutThread as a heartbeat and by a LeaderThread *)
(* after it appended an update.                                            *)

\* Mutant: whoever is not connected is tried, the neighbours forgotten at boot included.
TryReconnectAnyone(s) ==
    /\ node_socket' = [node_socket EXCEPT ![s] = Server \ {s}]
    /\ conn' = [conn EXCEPT ![s] = Server \ {s}]
    /\ failed_neighbors' = [failed_neighbors EXCEPT ![s] = {}]
    /\ UNCHANGED <<repeated, broken>>

\* Reconnect to some of the failed nodes and keep the others.  Of the attempts to reach a
\* node that occurs more than once some may succeed and others fail, and every success
\* after the first replaces its connection and leaves a handler on a broken one.
TryReconnect(s) ==
    \E ok \in SUBSET failed_neighbors[s], still \in SUBSET failed_neighbors[s] :
        LET both == ok \cap still
        IN  /\ ok \cup still = failed_neighbors[s]
            /\ both \subseteq repeated[s]
            /\ node_socket' = [node_socket EXCEPT ![s] = @ \cup ok]
            /\ conn' = [conn EXCEPT ![s] = @ \cup ok]
            /\ failed_neighbors' = [failed_neighbors EXCEPT ![s] = still]
            /\ \E again \in SUBSET both :
                 repeated' = [repeated EXCEPT ![s] = (@ \ ok) \cup again]
            /\ \E twice \in SUBSET both :
                 broken' = broken \cup ((repeated[s] \cap ok) \ both) \cup twice

BeginHeartbeat(s) ==
    /\ seen[s] = LEADER
    /\ TryReconnect(s)
    /\ Acquire(s, "Heartbeat", node_socket'[s])
    /\ UNCHANGED <<electionVars, logVars, leaderVars, drops, rpcVars>>

\* LeaderMaintainLog.  Clients send updates to a server that is or was the leader_id of
\* a server, that is to one that has been a leader; whether it still is one is not
\* looked at.
BeginUpdate(s, k, v) ==
    /\ allocated[s]
    /\ LogSize(s) < MaxLog
    /\ smr_log' = [smr_log EXCEPT
                    ![s] = Append(@, [term |-> current_term[s], arg1 |-> k, arg2 |-> v])]
    /\ ack_length' = [ack_length EXCEPT ![s][s] = LogSize(s) + 1]
    /\ TryReconnect(s)
    /\ Acquire(s, "Update", node_socket'[s])
    /\ UNCHANGED <<electionVars, commit_length, customer_record, allocated, sent_length,
                   drops, rpcVars>>

Replicating(s) == holder[s] \in {"Heartbeat", "Update"}

CallAppend(s, j) ==
    /\ Replicating(s) /\ callee[s] = NoServer /\ j \in todo[s]
    /\ StartCall(s, j, LogRequest(s, j))
    /\ UNCHANGED <<electionVars, logVars, leaderVars, connVars, netVars,
                   seen, holder, num_change, new_node_socket>>

IsHeartbeatTo(s, j) == sent_length[s][j] = LogSize(s)

\* Mutant: a heartbeat counts as a change.
KeepNodeAlwaysChanged(s, op) ==
    /\ new_node_socket' = [new_node_socket EXCEPT ![s] = @ \cup {callee[s]}]
    /\ num_change' = [num_change EXCEPT ![s] = TRUE]
    /\ UNCHANGED <<seen, holder, todo>>

\* The answered node is kept for the next round; op says another round is needed.
KeepNode(s, op) ==
    /\ new_node_socket' = [new_node_socket EXCEPT ![s] = @ \cup {callee[s]}]
    /\ num_change' = [num_change EXCEPT ![s] = @ \/ op]
    /\ UNCHANGED <<seen, holder, todo>>

\* The response to a heartbeat is received and not looked at.
ReceiveHeartbeatResponse(s) ==
    /\ Replicating(s) /\ Answered(s) /\ IsHeartbeatTo(s, callee[s])
    /\ KeepNode(s, FALSE)
    /\ EndCall(s)
    /\ UNCHANGED <<electionVars, logVars, leaderVars, connVars, netVars>>

CommitLog(s, ack) ==
    LET until == CommitUntil(s, ack)
    IN  /\ commit_length' = [commit_length EXCEPT ![s] = until]
        /\ customer_record' = [customer_record EXCEPT
                                 ![s] = ExecuteLog(@, smr_log[s], commit_length[s], until)]
        /\ UNCHANGED smr_log

\* The leader's bookkeeping for the response res of node j.
RecordResponse(s, j, res) ==
    \/ /\ res.success
       /\ sent_length' = [sent_length EXCEPT ![s][j] = res.ack]
       /\ ack_length' = [ack_length EXCEPT ![s][j] = res.ack]
       /\ CommitLog(s, ack_length'[s])
    \/ /\ ~res.success
       /\ sent_length' = [sent_length EXCEPT ![s][j] = IF @ > 0 THEN @ - 1 ELSE @]
       /\ UNCHANGED <<ack_length, logVars>>

ReceiveLogResponse(s) ==
    LET res == reply[s]
    IN  /\ Replicating(s) /\ Answered(s) /\ ~IsHeartbeatTo(s, callee[s])
        /\ \/ /\ res.current_term = current_term[s] /\ status[s] = LEADER
              /\ RecordResponse(s, callee[s], res)
              /\ KeepNode(s, TRUE)
              /\ UNCHANGED electionVars
           \/ /\ res.current_term > current_term[s]
              /\ Demote(s, res.current_term)
              /\ Release(s)
              /\ UNCHANGED <<sent_length, ack_length, logVars>>
           \/ /\ ~(res.current_term = current_term[s] /\ status[s] = LEADER)
              /\ ~(res.current_term > current_term[s])
              /\ KeepNode(s, TRUE)
              /\ UNCHANGED <<electionVars, sent_length, ack_length, logVars>>
        /\ EndCall(s)
        /\ UNCHANGED <<allocated, connVars, netVars>>

\* The connection is gone.  The node is not kept for the next round, but one that was
\* kept in an earlier round of the same call stays in new_node_socket.
LoseLogResponse(s) ==
    /\ Replicating(s) /\ Lost(s)
    /\ ack_length' = [ack_length EXCEPT ![s][callee[s]] = 0]
    /\ sent_length' = [sent_length EXCEPT ![s][callee[s]] = 0]
    /\ failed_neighbors' = [failed_neighbors EXCEPT ![s] = @ \cup {callee[s]}]
    /\ repeated' = [repeated EXCEPT ![s] = @ \cup ({callee[s]} \cap failed_neighbors[s])]
    /\ EndCall(s)
    /\ UNCHANGED <<electionVars, logVars, allocated, node_socket, conn, netVars, threadVars>>

RoundDone(s) == Replicating(s) /\ callee[s] = NoServer /\ todo[s] = {}

\* Some node was sent an operation: every kept node gets another request.
NextRound(s) ==
    /\ RoundDone(s) /\ num_change[s]
    /\ node_socket' = [node_socket EXCEPT ![s] = new_node_socket[s]]
    /\ todo' = [todo EXCEPT ![s] = new_node_socket[s]]
    /\ num_change' = [num_change EXCEPT ![s] = FALSE]
    /\ UNCHANGED <<electionVars, logVars, leaderVars, failed_neighbors, repeated, conn, netVars,
                   seen, holder, new_node_socket, rpcVars>>

EndReplicate(s) ==
    /\ RoundDone(s) /\ ~num_change[s]
    /\ node_socket' = [node_socket EXCEPT ![s] = new_node_socket[s]]
    /\ Release(s)
    /\ UNCHANGED <<electionVars, logVars, leaderVars, failed_neighbors, repeated, conn, netVars, rpcVars>>

-----------------------------------------------------------------------------
(* ServerHandler: the two incoming RPCs.  Each takes meta_lock, so it      *)
(* waits while a thread of this server is inside an RPC loop.              *)

\* Mutant: the candidate is taken for the leader.
GetVoteResponseNamesLeader(j, m) ==
    LET higher == m.current_term > current_term[j]
    IN  /\ current_term' = [current_term EXCEPT ![j] = IF higher THEN m.current_term ELSE @]
        /\ status' = [status EXCEPT ![j] = IF higher THEN FOLLOWER ELSE @]
        /\ vote_received' = [vote_received EXCEPT ![j] = IF higher THEN {} ELSE @]
        /\ voted_for' = [voted_for EXCEPT ![j] = IF higher THEN m.id ELSE @]
        /\ leader_id' = [leader_id EXCEPT ![j] = IF higher THEN m.id ELSE @]
        /\ heartbeat' = [heartbeat EXCEPT ![j] = TRUE]
        /\ UNCHANGED <<logVars, leaderVars, connVars, threadVars>>

\* Mutant: a higher term does not end a leader's reign.
GetVoteResponseKeepsStatus(j, m) ==
    LET higher == m.current_term > current_term[j]
    IN  /\ current_term' = [current_term EXCEPT ![j] = IF higher THEN m.current_term ELSE @]
        /\ vote_received' = [vote_received EXCEPT ![j] = IF higher THEN {} ELSE @]
        /\ voted_for' = [voted_for EXCEPT ![j] = IF higher THEN m.id ELSE @]
        /\ heartbeat' = [heartbeat EXCEPT ![j] = TRUE]
        /\ UNCHANGED <<status, leader_id, logVars, leaderVars, connVars, threadVars>>

\* GetVoteResponse.  A higher term is adopted, and the candidate voted for, before its
\* log is compared with ours.
GetVoteResponse(j, m) ==
    LET higher == m.current_term > current_term[j]
    IN  /\ current_term' = [current_term EXCEPT ![j] = IF higher THEN m.current_term ELSE @]
        /\ status' = [status EXCEPT ![j] = IF higher THEN FOLLOWER ELSE @]
        /\ vote_received' = [vote_received EXCEPT ![j] = IF higher THEN {} ELSE @]
        /\ voted_for' = [voted_for EXCEPT ![j] = IF higher THEN m.id ELSE @]
        /\ heartbeat' = [heartbeat EXCEPT ![j] = TRUE]
        /\ UNCHANGED <<leader_id, logVars, leaderVars, connVars, threadVars>>

LogUpToDate(j, m) ==
    \/ m.last_term > GetLastTerm(j)
    \/ m.last_term = GetLastTerm(j) /\ m.log_size >= LogSize(j)

\* The response GetVoteResponse returns, given the term and the vote it leaves behind.
VoteResponse(j, m, term, vote) ==
    [kind |-> "vote", id |-> j, current_term |-> term,
     voted |-> LogUpToDate(j, m) /\ m.current_term = term /\ vote = m.id]

\* GetLogResponse.  A follower takes the leader's term whatever it is; the others only
\* one that is not below their own.
Accepts(j, m) == m.current_term >= current_term[j] \/ status[j] = FOLLOWER

\* Mutant: a log that ends where the request's prefix does is refused.
CanLogBeyond(j, m) ==
    /\ LogSize(j) > m.prefix_length
    /\ m.prefix_length > 0 => smr_log[j][m.prefix_length].term = m.prefix_term

CanLog(j, m) ==
    /\ LogSize(j) >= m.prefix_length
    /\ m.prefix_length > 0 => smr_log[j][m.prefix_length].term = m.prefix_term
Succeeds(j, m) == (Accepts(j, m) \/ m.current_term = current_term[j]) /\ CanLog(j, m)

\* Mutant: the operation received is executed, not the next one to commit.
StoreLogExecutesReceived(j, m) ==
    LET extends == Succeeds(j, m) /\ LogSize(j) = m.prefix_length
        commits == extends /\ m.commit_length > commit_length[j]
    IN  /\ smr_log' = [smr_log EXCEPT
                         ![j] = IF extends /\ m.op # NoOp THEN Append(@, m.op) ELSE @]
        /\ commit_length' = [commit_length EXCEPT ![j] = IF commits THEN @ + 1 ELSE @]
        /\ customer_record' = [customer_record EXCEPT
             ![j] = IF commits /\ m.op # NoOp THEN [@ EXCEPT ![m.op.arg1] = m.op.arg2] ELSE @]

\* Mutant: an operation that is already in the log is appended again.
StoreLogTwice(j, m) ==
    /\ smr_log' = [smr_log EXCEPT
                     ![j] = IF Succeeds(j, m) /\ m.op # NoOp THEN Append(@, m.op) ELSE @]
    /\ UNCHANGED <<commit_length, customer_record>>

\* Mutant: a candidate that steps down acknowledges the operation without storing it.
StoreLogFollowersOnly(j, m) ==
    LET extends == Succeeds(j, m) /\ LogSize(j) = m.prefix_length /\ status[j] = FOLLOWER
    IN  /\ smr_log' = [smr_log EXCEPT
                         ![j] = IF extends /\ m.op # NoOp THEN Append(@, m.op) ELSE @]
        /\ UNCHANGED <<commit_length, customer_record>>

\* Mutant: the log is cut to the request's prefix before anything is appended.
StoreLogTruncates(j, m) ==
    LET kept    == SubSeq(smr_log[j], 1, m.prefix_length)
        commits == Succeeds(j, m) /\ m.commit_length > commit_length[j]
                   /\ LogSize(j) = m.prefix_length
    IN  /\ smr_log' = [smr_log EXCEPT
             ![j] = IF ~Succeeds(j, m) THEN @ ELSE IF m.op = NoOp THEN kept ELSE Append(kept, m.op)]
        /\ commit_length' = [commit_length EXCEPT ![j] = IF commits THEN @ + 1 ELSE @]
        /\ UNCHANGED customer_record

\* The operation is appended, and one more entry executed, only if this log ends where
\* the request's prefix does: a longer log is acknowledged as it is.
StoreLog(j, m) ==
    LET extends == Succeeds(j, m) /\ LogSize(j) = m.prefix_length
        commits == extends /\ m.commit_length > commit_length[j]
    IN  /\ smr_log' = [smr_log EXCEPT
                         ![j] = IF extends /\ m.op # NoOp THEN Append(@, m.op) ELSE @]
        /\ commit_length' = [commit_length EXCEPT ![j] = IF commits THEN @ + 1 ELSE @]
        /\ customer_record' = [customer_record EXCEPT
             ![j] = IF commits
                    THEN ExecuteLog(@, smr_log'[j], commit_length[j], commit_length[j] + 1)
                    ELSE @]

GetLogResponse(j, m) ==
    /\ StoreLog(j, m)
    /\ IF Accepts(j, m)
       THEN /\ current_term' = [current_term EXCEPT ![j] = m.current_term]
            /\ status' = [status EXCEPT ![j] = FOLLOWER]
            /\ leader_id' = [leader_id EXCEPT ![j] = m.leader_id]
            /\ vote_received' = [vote_received EXCEPT ![j] = {}]
            /\ voted_for' = [voted_for EXCEPT ![j] = NoServer]
       ELSE UNCHANGED <<current_term, status, leader_id, vote_received, voted_for>>
    /\ heartbeat' = [heartbeat EXCEPT ![j] = TRUE]
    /\ UNCHANGED <<leaderVars, connVars, threadVars>>

\* Mutant: a refusal acknowledges length -1.
LogResponseRefusesBelowZero(j, m, term) ==
    [kind |-> "append", follower_id |-> j, current_term |-> term,
     ack |-> IF Succeeds(j, m) THEN m.prefix_length + 1 ELSE -1, success |-> Succeeds(j, m)]

\* Mutant: one entry too many is acknowledged.
LogResponseOneMore(j, m, term) ==
    [kind |-> "append", follower_id |-> j, current_term |-> term,
     ack |-> IF Succeeds(j, m) THEN m.prefix_length + 2 ELSE 0, success |-> Succeeds(j, m)]

LogResponse(j, m, term) ==
    [kind |-> "append", follower_id |-> j, current_term |-> term,
     ack |-> IF Succeeds(j, m) THEN m.prefix_length + 1 ELSE 0, success |-> Succeeds(j, m)]

\* The request of s is taken from the socket and the response res put into it.
Respond(s, res) ==
    /\ request' = [request EXCEPT ![s] = NoMsg]
    /\ reply' = [reply EXCEPT ![s] = res]
    /\ UNCHANGED <<callee, orphans, netVars>>

CandidateVoteHandler(j, s) ==
    /\ holder[j] = "free" /\ callee[s] = j /\ request[s].kind = "vote"
    /\ GetVoteResponse(j, request[s])
    /\ Respond(s, VoteResponse(j, request[s], current_term'[j], voted_for'[j]))

AppendLogHandler(j, s) ==
    /\ holder[j] = "free" /\ callee[s] = j /\ request[s].kind = "append"
    /\ GetLogResponse(j, request[s])
    /\ Respond(s, LogResponse(j, request[s], current_term'[j]))

\* A request that was in the socket when its connection broke is handled like any other;
\* the response goes nowhere and the handler is left on a broken connection.
HandleOrphan(j, o) ==
    /\ holder[j] = "free" /\ o.to = j
    /\ \/ o.req.kind = "vote" /\ GetVoteResponse(j, o.req)
       \/ o.req.kind = "append" /\ GetLogResponse(j, o.req)
    /\ orphans' = orphans \ {o}
    /\ broken' = broken \cup {j}
    /\ UNCHANGED <<callee, request, reply, drops>>

\* On a broken connection IdentifyRPC decodes a buffer nothing was received into.  When
\* that reads as a vote request, GetVoteResponse gets a message that was never set; when
\* it reads as a log request, the request is found invalid and nothing happens.
GhostVote(j) ==
    /\ j \in broken /\ holder[j] = "free"
    /\ \E id \in Server \cup {NoServer}, term \in GarbageTerms :
          GetVoteResponse(j, [kind |-> "vote", id |-> id, current_term |-> term])
    /\ UNCHANGED <<netVars, rpcVars>>

-----------------------------------------------------------------------------
(* The network.  A connection breaks when the network drops it or when one *)
(* of the two servers stops; a server that stops takes no more steps.  A   *)
(* request or response on its way may still arrive.                        *)

DropLink(s, j) ==
    /\ j \in conn[s] /\ drops < MaxDrops
    /\ conn' = [conn EXCEPT ![s] = @ \ {j}]
    /\ drops' = drops + 1
    /\ IF callee[s] = j /\ request[s] # NoMsg
       THEN /\ request' = [request EXCEPT ![s] = NoMsg]
            /\ UNCHANGED reply
            /\ \/ /\ orphans' = orphans \cup {[to |-> j, req |-> request[s]]}
                  /\ UNCHANGED broken
               \/ /\ broken' = broken \cup {j}
                  /\ UNCHANGED orphans
       ELSE /\ broken' = broken \cup {j}
            /\ reply' \in {reply} \cup IF callee[s] = j THEN {[reply EXCEPT ![s] = NoMsg]} ELSE {}
            /\ UNCHANGED <<request, orphans>>
    /\ UNCHANGED <<electionVars, logVars, leaderVars, node_socket, failed_neighbors, repeated,
                   threadVars, callee>>

-----------------------------------------------------------------------------
Init ==
    /\ current_term = [s \in Server |-> 0]
    /\ status = [s \in Server |-> FOLLOWER]
    /\ voted_for = [s \in Server |-> NoServer]
    /\ vote_received = [s \in Server |-> {}]
    /\ leader_id = [s \in Server |-> NoServer]
    /\ heartbeat = [s \in Server |-> FALSE]
    /\ smr_log = [s \in Server |-> <<>>]
    /\ commit_length = [s \in Server |-> 0]
    /\ customer_record = [s \in Server |-> [k \in Key |-> NoValue]]
    /\ allocated = [s \in Server |-> FALSE]
    /\ sent_length = [s \in Server |-> [j \in Server |-> 0]]
    /\ ack_length = [s \in Server |-> [j \in Server |-> 0]]
    /\ node_socket \in BootLinks
    /\ conn = node_socket
    /\ failed_neighbors = [s \in Server |-> {}]
    /\ repeated = [s \in Server |-> {}]
    /\ drops = 0
    /\ broken = {}
    /\ seen = [s \in Server |-> Unread]
    /\ holder = [s \in Server |-> "free"]
    /\ todo = [s \in Server |-> {}]
    /\ num_change = [s \in Server |-> FALSE]
    /\ new_node_socket = [s \in Server |-> {}]
    /\ callee = [s \in Server |-> NoServer]
    /\ request = [s \in Server |-> NoMsg]
    /\ reply = [s \in Server |-> NoMsg]
    /\ orphans = {}

TimeoutThread(s) == ReadStatus(s) \/ FollowerTimeout(s) \/ BeginVote(s) \/ BeginHeartbeat(s)
RequestVote(s) ==
    (\E j \in Server : CallVote(s, j)) \/ ReceiveVoteResponse(s) \/ LoseVoteResponse(s) \/ EndVote(s)
ReplicateLog(s) ==
    \/ \E j \in Server : CallAppend(s, j)
    \/ ReceiveHeartbeatResponse(s) \/ ReceiveLogResponse(s) \/ LoseLogResponse(s)
    \/ NextRound(s) \/ EndReplicate(s)
ServerHandler(j) ==
    \/ \E s \in Server : CandidateVoteHandler(j, s) \/ AppendLogHandler(j, s)
    \/ \E o \in orphans : HandleOrphan(j, o)
    \/ GhostVote(j)
LeaderThread(s) == \E k \in Key, v \in Value : BeginUpdate(s, k, v)

Next ==
    \E s \in Server :
        \/ TimeoutThread(s) \/ RequestVote(s) \/ ReplicateLog(s)
        \/ ServerHandler(s) \/ LeaderThread(s)
        \/ \E j \in Server : DropLink(s, j)

Spec == Init /\ [][Next]_vars

\* The thread inside an RPC loop runs, and a handler that keeps finding meta_lock free
\* gets it in the end.  Nothing makes a timeout or a client's update happen.
Fairness ==
    \A s \in Server :
        /\ WF_vars(RequestVote(s) \/ ReplicateLog(s))
        /\ \A c \in Server \ {s} : SF_vars(CandidateVoteHandler(s, c) \/ AppendLogHandler(s, c))

FairSpec == Spec /\ Fairness

-----------------------------------------------------------------------------
(* Properties. *)

\* Every variable keeps its type.
TypeOK ==
    /\ current_term \in [Server -> Nat]
    /\ status \in [Server -> {FOLLOWER, LEADER, CANDIDATE}]
    /\ voted_for \in [Server -> Server \cup {NoServer}]
    /\ vote_received \in [Server -> SUBSET (Server \cup {NoServer})]
    /\ leader_id \in [Server -> Server \cup {NoServer}]
    /\ heartbeat \in [Server -> BOOLEAN]
    /\ smr_log \in [Server -> Seq(Ops)]
    /\ commit_length \in [Server -> Nat]
    /\ customer_record \in [Server -> [Key -> Value \cup {NoValue}]]
    /\ allocated \in [Server -> BOOLEAN]
    /\ sent_length \in [Server -> [Server -> Nat]]
    /\ ack_length \in [Server -> [Server -> Nat]]
    /\ node_socket \in [Server -> SUBSET Server]
    /\ failed_neighbors \in [Server -> SUBSET Server]
    /\ repeated \in [Server -> SUBSET Server]
    /\ conn \in [Server -> SUBSET Server]
    /\ drops \in Nat
    /\ broken \subseteq Server
    /\ seen \in [Server -> {Unread, FOLLOWER, LEADER, CANDIDATE}]
    /\ holder \in [Server -> {"free", "RequestVote", "Heartbeat", "Update"}]
    /\ todo \in [Server -> SUBSET Server]
    /\ num_change \in [Server -> BOOLEAN]
    /\ new_node_socket \in [Server -> SUBSET Server]
    /\ callee \in [Server -> Server \cup {NoServer}]
    /\ request \in [Server -> Requests \cup {NoMsg}]
    /\ reply \in [Server -> Replies \cup {NoMsg}]
    /\ orphans \subseteq [to : Server, req : Requests]

InFlight == {request[s] : s \in Server} \cup {o.req : o \in orphans}
AppendsInFlight == {m \in InFlight : m.kind = "append"}

\* The state machine is the log: what GetValue returns on a server is what its first
\* commit_length operations, in order and each once, leave behind.
AppliedMatchesLog ==
    \A s \in Server :
        customer_record[s] = ExecuteLog([k \in Key |-> NoValue], smr_log[s], 0, commit_length[s])

\* No index leaves smr_log: neither the committed length nor the lengths a leader keeps
\* for its peers pass the end of the log, and a request carries no more than its log.
LengthsWithinLog ==
    /\ \A s \in Server : commit_length[s] <= LogSize(s)
    /\ \A s, j \in Server : sent_length[s][j] <= LogSize(s) /\ ack_length[s][j] <= LogSize(s)

\* A leader never counts an entry for a peer whose log is not that long.
AckedLengthHeld ==
    \A s, j \in Server : ack_length[s][j] <= LogSize(j)

MajorityHolds(n) == Cardinality({j \in Server : LogSize(j) >= n}) * 2 > Cardinality(Server)

\* What a server has committed, and what a request on its way says is committed, is
\* a length that the logs of a majority have reached.
CommittedOnMajority ==
    /\ \A s \in Server : MajorityHolds(commit_length[s])
    /\ \A m \in AppendsInFlight : MajorityHolds(m.commit_length)

\* A server that says another one leads names one whose leader arrays exist: the update
\* a client is sent there with finds them allocated.
LeaderIdInitialised ==
    \A s \in Server : leader_id[s] # NoServer => allocated[leader_id[s]]

\* A server never takes back what it committed: the committed length does not go back,
\* and a committed entry is neither removed nor replaced.
CommittedForever ==
    [][\A s \in Server :
         /\ commit_length'[s] >= commit_length[s]
         /\ Len(smr_log'[s]) >= commit_length[s]
         /\ \A i \in 1..commit_length[s] : smr_log'[s][i] = smr_log[s][i]]_vars

\* A server that stays leader stays in the term it was elected in, whatever requests,
\* responses and stale threads come in between.
LeaderKeepsTerm ==
    [][\A s \in Server :
         status[s] = LEADER /\ status'[s] = LEADER => current_term'[s] = current_term[s]]_vars

\* While only one server has ever led, in however many terms, every log is a prefix of
\* its log, and the servers agree on every committed entry.
SingleReign ==
    \A l \in Server :
        (\A s \in Server : allocated[s] => s = l) =>
            \A s \in Server :
                /\ LogSize(s) <= LogSize(l)
                /\ \A i \in 1..LogSize(s) : smr_log[s][i] = smr_log[l][i]

\* A leader counted the votes of a majority of the servers, its own included.
ElectedByMajority ==
    \A s \in Server :
        status[s] = LEADER => Cardinality(vote_received[s]) * 2 > Cardinality(Server)

\* Whoever becomes leader on a response it received has then counted the votes of a
\* majority, however many candidatures and broken connections came before: no vote of an
\* earlier term, and none read from a buffer nothing was received into, is among them.
ElectedByVotes ==
    [][\A s \in Server :
         status[s] # LEADER /\ status'[s] = LEADER /\ Answered(s) =>
             Cardinality(vote_received'[s] \cap Server) * 2 > Cardinality(Server)]_vars

\* At most one server leads in a term.
OneLeaderPerTerm ==
    \A s, t \in Server :
        status[s] = LEADER /\ status[t] = LEADER /\ current_term[s] = current_term[t] => s = t

\* No servers wait for each other in a circle, each holding its meta_lock in a call that
\* another of them has to take its own meta_lock to answer.
NoCircularWait ==
    \A circle \in SUBSET Server :
        circle # {} => \E s \in circle : callee[s] \notin circle

\* Entries two servers have both committed are the same.
StateMachineSafety ==
    \A s, t \in Server :
        \A i \in 1..commit_length[s] : i <= commit_length[t] => smr_log[s][i] = smr_log[t][i]

\* A thread that takes meta_lock for an RPC loop gives it back.
LockReleased ==
    \A s \in Server : holder[s] # "free" ~> holder[s] = "free"

=============================================================================

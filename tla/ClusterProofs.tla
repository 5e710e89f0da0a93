---------------------------- MODULE ClusterProofs ----------------------------
(* What survives restarts, for any number of servers, of stops and in any  *)
(* order of boots: of two running servers one can call the other, and a    *)
(* server's record and lengths fit the log it has now.                     *)
EXTENDS Cluster, RaftStoreProofs, RaftLeaderProofs

-----------------------------------------------------------------------------
(* The connections.  A server that runs a ReplicateLog rebuilds its        *)
(* node_socket in new_node_socket, so that a connection is one it will     *)
(* keep only while its node is still to be called, is being called, or was *)
(* kept already.                                                           *)

Reaches(s, t) ==
    /\ t \in node_socket[s] \cap conn[s]
    /\ Replicating(s) => t \in todo[s] \cup new_node_socket[s] \cup {callee[s]}

WillTry(s, t) == phase[s] = "connecting" /\ t \in todo[s]

\* Of two servers that listen, one reaches the other or will try to.
Linked ==
    \A s, t \in Server :
        s # t /\ Listens(s) /\ Listens(t) =>
            Reaches(s, t) \/ Reaches(t, s) \/ WillTry(s, t) \/ WillTry(t, s)

PhaseOK ==
    /\ phase \in [Server -> {"down", "connecting", "running"}]
    /\ \A s \in Server : phase[s] # "running" => holder[s] = "free"

LinkInv == PhaseOK /\ Linked

ClusterInv == IInv /\ AppliedMatchesLog /\ NotElectedYet /\ LinkInv

LEMMA InitCluster == ClusterInit => ClusterInv
<1> SUFFICES ASSUME ClusterInit PROVE ClusterInv
  OBVIOUS
<1>1. IInv
  BY InitIInv DEF ClusterInit
<1>2. AppliedMatchesLog
  BY NothingExecuted DEF ClusterInit, Init, AppliedMatchesLog, NoRecord
<1>3. LinkInv
  BY DEF ClusterInit, Init, LinkInv, PhaseOK, Linked, Listens
<1>4. NotElectedYet
  BY DEF ClusterInit, Init, NotElectedYet, FOLLOWER, LEADER
<1> QED BY <1>1, <1>2, <1>3, <1>4 DEF ClusterInv

-----------------------------------------------------------------------------
(* A server that runs. *)

\* What a server that runs may do to the connections: only to its own, and none it
\* reaches another server by is given up.
KeepsReach(s) ==
    /\ \A i \in Server \ {s} :
         /\ node_socket'[i] = node_socket[i] /\ conn'[i] = conn[i] /\ todo'[i] = todo[i]
         /\ new_node_socket'[i] = new_node_socket[i]
         /\ holder'[i] = holder[i] /\ callee'[i] = callee[i]
    /\ \A t \in Server : Reaches(s, t) => Reaches(s, t)'

\* A ReplicateLog starts with every connection, the new ones included.
LEMMA ReconnectKeepsReach ==
    ASSUME TypeOK, NEW s \in Server, NEW thread, TryReconnect(s),
           Acquire(s, thread, node_socket'[s]), UNCHANGED callee
    PROVE  KeepsReach(s)
<1>1. PICK ok \in SUBSET failed_neighbors[s] :
          /\ node_socket' = [node_socket EXCEPT ![s] = @ \cup ok]
          /\ conn' = [conn EXCEPT ![s] = @ \cup ok]
  BY DEF TryReconnect
<1> QED BY <1>1 DEF Acquire, KeepsReach, Reaches, TypeOK

LEMMA TimeoutKeepsReach ==
    ASSUME TypeOK, NEW s \in Server, TimeoutThread(s)
    PROVE  KeepsReach(s)
<1>1. CASE ReadStatus(s) \/ FollowerTimeout(s)
  BY <1>1 DEF ReadStatus, FollowerTimeout, KeepsReach, Reaches, Replicating, connVars,
              loopVars, rpcVars
<1>2. CASE BeginVote(s)
  BY <1>2 DEF BeginVote, Acquire, KeepsReach, Reaches, Replicating, connVars, rpcVars, TypeOK
<1>3. CASE BeginHeartbeat(s)
  BY <1>3, ReconnectKeepsReach DEF BeginHeartbeat, rpcVars
<1> QED BY <1>1, <1>2, <1>3 DEF TimeoutThread

LEMMA UpdateKeepsReach ==
    ASSUME TypeOK, NEW s \in Server, LeaderThread(s)
    PROVE  KeepsReach(s)
BY ReconnectKeepsReach DEF LeaderThread, BeginUpdate, rpcVars

LEMMA RequestVoteKeepsReach ==
    ASSUME TypeOK, NEW s \in Server, RequestVote(s)
    PROVE  KeepsReach(s)
<1> USE DEF KeepsReach, Reaches, Replicating, TypeOK, connVars, threadVars, loopVars
<1>1. ASSUME NEW j \in Server, CallVote(s, j)
      PROVE  KeepsReach(s)
  BY <1>1 DEF CallVote, StartCall
<1>2. ASSUME NEW res, CountVote(s, res), EndCall(s), UNCHANGED connVars,
             holder[s] = "RequestVote"
      PROVE  KeepsReach(s)
  <2>1. Release(s) \/ UNCHANGED threadVars
    BY <1>2 DEF CountVote
  <2>2. CASE Release(s)
    BY <1>2, <2>2 DEF Release, EndCall
  <2>3. CASE UNCHANGED threadVars
    BY <1>2, <2>3 DEF EndCall
  <2> QED BY <2>1, <2>2, <2>3
<1>3. CASE ReceiveVoteResponse(s) \/ LoseVoteResponse(s)
  BY <1>2, <1>3 DEF ReceiveVoteResponse, LoseVoteResponse
<1>4. CASE EndVote(s)
  BY <1>4 DEF EndVote, Release, rpcVars
<1> QED BY <1>1, <1>3, <1>4 DEF RequestVote

LEMMA ReplicateLogKeepsReach ==
    ASSUME TypeOK, NEW s \in Server, ReplicateLog(s)
    PROVE  KeepsReach(s)
<1> USE DEF KeepsReach, Reaches, Replicating, TypeOK, connVars
<1>1. ASSUME NEW j \in Server, CallAppend(s, j)
      PROVE  KeepsReach(s)
  BY <1>1, ServerAssumption DEF CallAppend, StartCall
<1>2. ASSUME NEW op, KeepNode(s, op), EndCall(s), UNCHANGED connVars
      PROVE  KeepsReach(s)
  BY <1>2 DEF KeepNode, EndCall
<1>3. ASSUME Release(s), EndCall(s), UNCHANGED connVars
      PROVE  KeepsReach(s)
  BY <1>3 DEF Release, EndCall
<1>4. CASE ReceiveHeartbeatResponse(s)
  BY <1>2, <1>4 DEF ReceiveHeartbeatResponse
<1>5. CASE ReceiveLogResponse(s)
  BY <1>2, <1>3, <1>5 DEF ReceiveLogResponse
<1>6. CASE LoseLogResponse(s)
  BY <1>6 DEF LoseLogResponse, Lost, EndCall, threadVars, loopVars
<1>7. CASE NextRound(s)
  BY <1>7, ServerAssumption DEF NextRound, RoundDone, rpcVars
<1>8. CASE EndReplicate(s)
  BY <1>8, ServerAssumption DEF EndReplicate, RoundDone, Release, rpcVars
<1> QED BY <1>1, <1>4, <1>5, <1>6, <1>7, <1>8 DEF ReplicateLog

LEMMA HandlerKeepsReach ==
    ASSUME NEW s \in Server, ServerHandler(s)
    PROVE  KeepsReach(s) /\ UNCHANGED holder
<1>1. UNCHANGED <<connVars, threadVars>>
  BY DEF ServerHandler, CandidateVoteHandler, AppendLogHandler, HandleOrphan, GhostVote,
         GetVoteResponse, GetLogResponse
<1>2. UNCHANGED callee
  BY DEF ServerHandler, CandidateVoteHandler, AppendLogHandler, HandleOrphan, GhostVote,
         Respond, rpcVars
<1> QED BY <1>1, <1>2 DEF KeepsReach, Reaches, Replicating, connVars, threadVars, loopVars

Runs(s) == RunTimeout(s) \/ RunCalls(s) \/ RunUpdate(s) \/ RunHandler(s)

\* The steps of a server that runs are steps of Raft.
LEMMA RunsRaft ==
    ASSUME TypeOK, NEW s \in Server, Runs(s)
    PROVE  Next /\ KeepsReach(s) /\ phase[s] = "running" /\ UNCHANGED phase
<1>1. /\ phase[s] = "running" /\ UNCHANGED phase
      /\ TimeoutThread(s) \/ RequestVote(s) \/ ReplicateLog(s) \/ LeaderThread(s) \/ ServerHandler(s)
  BY DEF Runs, RunTimeout, RunCalls, RunUpdate, RunHandler, Running, TimeoutThread
<1>2. Next
  BY <1>1 DEF Next
<1>3. KeepsReach(s)
  BY <1>1, TimeoutKeepsReach, RequestVoteKeepsReach, ReplicateLogKeepsReach, UpdateKeepsReach,
     HandlerKeepsReach
<1> QED BY <1>1, <1>2, <1>3

LEMMA RunsCluster ==
    ASSUME ClusterInv, NEW s \in Server, Runs(s)
    PROVE  ClusterInv'
<1>1. /\ IInv /\ AppliedMatchesLog /\ NotElectedYet /\ PhaseOK /\ Linked /\ TypeOK
      /\ Next /\ KeepsReach(s) /\ phase[s] = "running" /\ UNCHANGED phase
  BY RunsRaft DEF ClusterInv, LinkInv, IInv
<1>2. IInv' /\ AppliedMatchesLog' /\ NotElectedYet'
  BY <1>1, NextIInv, NextApplied, NextNotElected
<1>3. PhaseOK'
  BY <1>1 DEF PhaseOK, KeepsReach
<1>4. \A i, t \in Server : Reaches(i, t) => Reaches(i, t)'
  BY <1>1 DEF KeepsReach, Reaches, Replicating
<1>5. \A i, t \in Server : WillTry(i, t) => WillTry(i, t)'
  BY <1>1 DEF KeepsReach, WillTry
<1>6. Linked'
  BY <1>1, <1>4, <1>5 DEF Linked, Listens
<1> QED BY <1>2, <1>3, <1>6 DEF ClusterInv, LinkInv

-----------------------------------------------------------------------------
(* A server that boots. *)

\* main() touches nothing but the connections of its server.
LEMMA BootKeeps ==
    ASSUME IInv, AppliedMatchesLog, NotElectedYet,
           UNCHANGED <<electionVars, logVars, leaderVars, failed_neighbors, repeated, netVars, seen, holder,
                       num_change, new_node_socket, rpcVars>>,
           todo' \in [Server -> SUBSET Server], node_socket' \in [Server -> SUBSET Server],
           conn' \in [Server -> SUBSET Server]
    PROVE  IInv' /\ AppliedMatchesLog' /\ NotElectedYet'
<1> USE DEF electionVars, logVars, leaderVars, netVars, rpcVars
<1>1. TypeOK'
  BY DEF IInv, TypeOK
<1>2. LengthsWithinLog' /\ AppliedMatchesLog' /\ NotElectedYet'
  BY DEF IInv, LengthsWithinLog, AppliedMatchesLog, LogSize, NotElectedYet
<1>3. CallsOK'
  BY Undisturbed DEF IInv, CallsOK
<1> QED BY <1>1, <1>2, <1>3 DEF IInv

LEMMA BootCluster ==
    ASSUME ClusterInv, NEW s \in Server, Boot(s)
    PROVE  ClusterInv'
<1>1. IInv /\ AppliedMatchesLog /\ NotElectedYet /\ PhaseOK /\ Linked
  BY DEF ClusterInv, LinkInv
<1>2. /\ todo \in [Server -> SUBSET Server] /\ node_socket \in [Server -> SUBSET Server]
      /\ conn \in [Server -> SUBSET Server]
  BY <1>1 DEF IInv, TypeOK
<1>3. IInv' /\ AppliedMatchesLog' /\ NotElectedYet'
  BY <1>1, <1>2, BootKeeps DEF Boot, connVars
<1>4. PhaseOK'
  BY <1>1 DEF Boot, PhaseOK
<1>5. \A t \in Server \ {s} : WillTry(s, t)'
  BY <1>1, <1>2 DEF Boot, WillTry, PhaseOK
<1>6. \A i, t \in Server : i # s => /\ Reaches(i, t) => Reaches(i, t)'
                                    /\ WillTry(i, t) => WillTry(i, t)'
  BY <1>1, <1>2 DEF Boot, Reaches, Replicating, WillTry, PhaseOK, connVars, rpcVars
<1>7. \A i \in Server : i # s => phase'[i] = phase[i]
  BY <1>1 DEF Boot, PhaseOK
<1>8. Linked'
  BY <1>1, <1>5, <1>6, <1>7 DEF Linked, Listens
<1> QED BY <1>3, <1>4, <1>8 DEF ClusterInv, LinkInv

\* A neighbour is forgotten only when it does not listen, and then it will try itself.
LEMMA InitNeighborCluster ==
    ASSUME ClusterInv, NEW s \in Server, NEW j \in Server, InitNeighbor(s, j)
    PROVE  ClusterInv'
<1>1. IInv /\ AppliedMatchesLog /\ NotElectedYet /\ PhaseOK /\ Linked
  BY DEF ClusterInv, LinkInv
<1>2. /\ todo \in [Server -> SUBSET Server] /\ node_socket \in [Server -> SUBSET Server]
      /\ conn \in [Server -> SUBSET Server]
  BY <1>1 DEF IInv, TypeOK
<1>3. IInv' /\ AppliedMatchesLog' /\ NotElectedYet'
  BY <1>1, <1>2, BootKeeps DEF InitNeighbor
<1>4. PhaseOK' /\ UNCHANGED phase /\ ~Replicating(s)' /\ ~Replicating(s)
  BY <1>1 DEF InitNeighbor, PhaseOK, Replicating
<1>5. Listens(j) => Reaches(s, j)'
  BY <1>2, <1>4 DEF InitNeighbor, Reaches
<1>6. \A i, t \in Server : Reaches(i, t) => Reaches(i, t)'
  BY <1>2, <1>4 DEF InitNeighbor, Reaches, Replicating, rpcVars
<1>7. \A i, t \in Server : WillTry(i, t) => WillTry(i, t)' \/ (i = s /\ t = j)
  BY <1>2, <1>4 DEF InitNeighbor, WillTry
<1>8. Linked'
  BY <1>1, <1>4, <1>5, <1>6, <1>7 DEF Linked, Listens
<1> QED BY <1>3, <1>4, <1>8 DEF ClusterInv, LinkInv

LEMMA StartThreadsCluster ==
    ASSUME ClusterInv, NEW s \in Server, StartThreads(s)
    PROVE  ClusterInv'
<1>1. IInv /\ AppliedMatchesLog /\ NotElectedYet /\ PhaseOK /\ Linked
  BY DEF ClusterInv, LinkInv
<1>2. IInv' /\ AppliedMatchesLog' /\ NotElectedYet'
  BY <1>1, StutterIInv DEF StartThreads, vars, electionVars, logVars, threadVars,
                           AppliedMatchesLog, NotElectedYet
<1>3. PhaseOK'
  BY <1>1 DEF StartThreads, PhaseOK, vars, threadVars
<1>4. \A i \in Server : /\ Listens(i)' <=> Listens(i)
                        /\ \A t \in Server : Reaches(i, t) => Reaches(i, t)'
                        /\ \A t \in Server : WillTry(i, t) => WillTry(i, t)'
  BY <1>1 DEF StartThreads, PhaseOK, Listens, Reaches, WillTry, Replicating, vars, connVars,
              threadVars, loopVars, rpcVars
<1>5. Linked'
  BY <1>1, <1>4 DEF Linked
<1> QED BY <1>2, <1>3, <1>5 DEF ClusterInv, LinkInv

-----------------------------------------------------------------------------
(* A server that stops. *)

\* The messages of the others are the ones they had, but for those to or from s.
LEMMA DisconnectMessages ==
    ASSUME IInv, NEW s \in Server, Disconnect(s)
    PROVE  /\ request'[s] = NoMsg /\ reply'[s] = NoMsg
           /\ \A i \in Server : request'[i] \in {request[i], NoMsg} /\ reply'[i] \in {reply[i], NoMsg}
           /\ request' \in [Server -> Requests \cup {NoMsg}]
           /\ reply' \in [Server -> Replies \cup {NoMsg}]
           /\ orphans' \subseteq [to : Server, req : Requests]
           /\ \A o \in orphans' : o \in orphans \/ o.req = request[s]
           /\ broken' \subseteq Server /\ UNCHANGED drops
<1> DEFINE calling   == {p \in Server : callee[p] = s}
           connected == {p \in Server : p \in conn[s]}
<1>1. /\ request \in [Server -> Requests \cup {NoMsg}] /\ reply \in [Server -> Replies \cup {NoMsg}]
      /\ orphans \subseteq [to : Server, req : Requests] /\ broken \subseteq Server
      /\ callee[s] \in Server \cup {NoServer}
      /\ request[s] # NoMsg => callee[s] # NoServer
  BY DEF IInv, TypeOK, CallsOK, ServerCallOK, CallOK
<1>2. request' = [p \in Server |-> IF p = s \/ p \in calling THEN NoMsg ELSE request[p]]
  BY DEF Disconnect
<1>3. PICK unread \in SUBSET calling :
          reply' = [p \in Server |-> IF p = s \/ p \in unread THEN NoMsg ELSE reply[p]]
  BY DEF Disconnect
<1>4. PICK left \in SUBSET {[to |-> callee[s], req |-> request[s]]} :
          /\ request[s] = NoMsg => left = {}
          /\ orphans' = {o \in orphans \cup left : o.to # s}
          /\ broken' = (broken \cup (connected \ {o.to : o \in left})) \ {s}
  BY DEF Disconnect
<1>5. UNCHANGED drops
  BY DEF Disconnect
<1>6. /\ orphans' \subseteq [to : Server, req : Requests]
      /\ \A o \in orphans' : o \in orphans \/ o.req = request[s]
  BY <1>1, <1>4
<1>7. broken' \subseteq Server
  BY <1>1, <1>4
<1> HIDE DEF calling, connected
<1> QED BY <1>1, <1>2, <1>3, <1>5, <1>6, <1>7

LEMMA EndOfServer ==
    ASSUME IInv, AppliedMatchesLog, NotElectedYet, NEW s \in Server, Forget(s), Disconnect(s)
    PROVE  IInv' /\ AppliedMatchesLog' /\ NotElectedYet'
<1>1. TypeOK /\ LengthsWithinLog /\ CallsOK
  BY DEF IInv
<1>2. TypeOK'
  <2>1. ElectionTypes' /\ LogTypes' /\ LeaderTypes' /\ ThreadTypes'
    BY <1>1 DEF Forget, TypeOK, ElectionTypes, LogTypes, LeaderTypes, ThreadTypes
  <2>2. ConnectionTypes'
    BY <1>1, DisconnectMessages
       DEF Forget, Disconnect, TypeOK, ConnectionTypes
  <2>3. CallTypes'
    BY <1>1, DisconnectMessages DEF Forget, TypeOK, CallTypes
  <2> QED BY <2>1, <2>2, <2>3
          DEF TypeOK, ElectionTypes, LogTypes, LeaderTypes, ConnectionTypes, ThreadTypes, CallTypes
<1>3. /\ smr_log'[s] = <<>> /\ commit_length'[s] = 0 /\ callee'[s] = NoServer
      /\ customer_record'[s] = NoRecord
      /\ \A j \in Server : sent_length'[s][j] = 0 /\ ack_length'[s][j] = 0
  BY <1>1 DEF Forget, TypeOK, NoRecord
<1>4. \A i \in Server : i # s =>
          /\ smr_log'[i] = smr_log[i] /\ commit_length'[i] = commit_length[i]
          /\ customer_record'[i] = customer_record[i]
          /\ sent_length'[i] = sent_length[i] /\ ack_length'[i] = ack_length[i]
          /\ callee'[i] = callee[i] /\ holder'[i] = holder[i]
  BY DEF Forget
<1>5. LengthsWithinLog'
  BY <1>1, <1>3, <1>4 DEF LengthsWithinLog, LogSize
<1>6. AppliedMatchesLog'
  BY <1>3, <1>4, NothingExecuted DEF AppliedMatchesLog, NoRecord
<1>7. CallsOK'
  <2>1. ServerCallOK(s)'
    BY <1>3, DisconnectMessages DEF ServerCallOK, CallOK, RequestOK, ReplyOK, HeartbeatOK, NoMsg
  <2>2. ASSUME NEW i \in Server, i # s
        PROVE  ServerCallOK(i)'
    <3>1. /\ smr_log'[i] = smr_log[i] /\ sent_length'[i] = sent_length[i]
          /\ callee'[i] = callee[i] /\ holder'[i] = holder[i]
          /\ request'[i] \in {request[i], NoMsg} /\ reply'[i] \in {reply[i], NoMsg}
      BY <1>4, <2>2, DisconnectMessages
    <3> QED BY <1>1, <3>1 DEF CallsOK, ServerCallOK, CallOK, RequestOK, ReplyOK, HeartbeatOK,
                              Replicating, IsHeartbeatTo, LogSize, NoMsg
  <2>3. \A o \in orphans' : HeartbeatOK(o.req)
    BY <1>1, DisconnectMessages DEF CallsOK, ServerCallOK, HeartbeatOK
  <2> QED BY <2>1, <2>2, <2>3 DEF CallsOK
<1>8. NotElectedYet'
  BY <1>1 DEF NotElectedYet, Forget, TypeOK, FOLLOWER, LEADER, CANDIDATE, Unread
<1> QED BY <1>2, <1>5, <1>6, <1>7, <1>8 DEF IInv

\* A server that is gone is nobody's to reach; the others keep what they had.
LEMMA EndCluster ==
    ASSUME ClusterInv, NEW s \in Server, Stop(s) \/ BrokenPipe(s)
    PROVE  ClusterInv'
<1>1. IInv /\ AppliedMatchesLog /\ NotElectedYet /\ PhaseOK /\ Linked /\ TypeOK
  BY DEF ClusterInv, LinkInv, IInv
<1>2. Forget(s) /\ Disconnect(s) /\ phase' = [phase EXCEPT ![s] = "down"]
  BY DEF Stop, BrokenPipe
<1>3. IInv' /\ AppliedMatchesLog' /\ NotElectedYet'
  BY <1>1, <1>2, EndOfServer
<1>4. PhaseOK'
  BY <1>1, <1>2 DEF PhaseOK, Forget, TypeOK
<1>5. ~Listens(s)' /\ \A i \in Server : i # s => phase'[i] = phase[i]
  BY <1>1, <1>2 DEF Listens, PhaseOK
<1>6. conn' = [p \in Server |-> IF p = s THEN {} ELSE conn[p] \ {s}]
  BY <1>2 DEF Disconnect
<1>7. \A i, t \in Server : i # s /\ t # s => /\ Reaches(i, t) => Reaches(i, t)'
                                             /\ WillTry(i, t) => WillTry(i, t)'
  BY <1>1, <1>2, <1>5, <1>6 DEF Forget, Reaches, Replicating, WillTry, TypeOK
<1>8. Linked'
  BY <1>1, <1>5, <1>7 DEF Linked, Listens
<1> QED BY <1>3, <1>4, <1>8 DEF ClusterInv, LinkInv

-----------------------------------------------------------------------------
LEMMA NextCluster == ClusterInv /\ [ClusterNext]_clusterVars => ClusterInv'
<1> SUFFICES ASSUME ClusterInv, [ClusterNext]_clusterVars PROVE ClusterInv'
  OBVIOUS
<1>1. CASE UNCHANGED clusterVars
  <2>1. IInv' /\ AppliedMatchesLog' /\ NotElectedYet'
    BY <1>1, StutterIInv DEF ClusterInv, clusterVars, vars, electionVars, logVars, threadVars,
                             AppliedMatchesLog, NotElectedYet
  <2>2. LinkInv'
    BY <1>1 DEF ClusterInv, LinkInv, PhaseOK, Linked, Listens, Reaches, Replicating, WillTry,
                clusterVars, vars, connVars, threadVars, loopVars, rpcVars
  <2> QED BY <2>1, <2>2 DEF ClusterInv
<1>2. ASSUME NEW s \in Server, ServerMain(s) PROVE ClusterInv'
  BY <1>2, BootCluster, InitNeighborCluster, StartThreadsCluster DEF ServerMain
<1>3. ASSUME NEW s \in Server, Stop(s) \/ BrokenPipe(s) PROVE ClusterInv'
  BY <1>3, EndCluster
<1>4. ASSUME NEW s \in Server, Runs(s) PROVE ClusterInv'
  BY <1>4, RunsCluster
<1> QED BY <1>1, <1>2, <1>3, <1>4 DEF ClusterNext, Runs

\* Whatever is stopped and booted when, and however often.
THEOREM ClusterInvariant == ClusterSpec => []ClusterInv
BY InitCluster, NextCluster, PTL DEF ClusterSpec

\* Of two running servers one has the other in its node_socket, with a connection that
\* works: InitNeighbors forgets a neighbour only when that one has yet to try it.
THEOREM OneCanAlwaysCall == ClusterSpec => []OneCanCall
<1>1. ClusterInv => OneCanCall
  BY DEF ClusterInv, LinkInv, Linked, Listens, Reaches, WillTry, OneCanCall
<1> QED BY <1>1, ClusterInvariant, PTL

\* A server that comes back with an empty log and is resent everything executes each
\* operation once and in order, as one that never stopped.
THEOREM RestartedRecordIsReplay == ClusterSpec => []AppliedMatchesLog
<1>1. ClusterInv => AppliedMatchesLog
  BY DEF ClusterInv
<1> QED BY <1>1, ClusterInvariant, PTL

\* Nothing a server remembers of another's former log leads it out of its own, and a
\* commit length announced to a restarted server is not taken for more than it has.
THEOREM RestartedLengthsWithinLog == ClusterSpec => []LengthsWithinLog
<1>1. ClusterInv => LengthsWithinLog
  BY DEF ClusterInv, IInv
<1> QED BY <1>1, ClusterInvariant, PTL

-----------------------------------------------------------------------------
(* What a server that lives keeps, whoever else stops and comes back. *)

\* The steps of main() and the end of a process leave every other server's state alone.
Lives(s) == Listens(s) /\ Listens(s)'

LEMMA LivesOrRuns ==
    ASSUME ClusterInv, [ClusterNext]_clusterVars, NEW s \in Server, Lives(s)
    PROVE  \/ UNCHANGED <<smr_log[s], commit_length[s], current_term[s]>>
           \/ Next
<1>1. TypeOK /\ PhaseOK
  BY DEF ClusterInv, IInv, LinkInv
<1>2. CASE UNCHANGED clusterVars
  BY <1>2 DEF clusterVars, vars, logVars, electionVars
<1>3. ASSUME NEW t \in Server, ServerMain(t)
      PROVE  UNCHANGED <<smr_log[s], commit_length[s], current_term[s]>>
  BY <1>3 DEF ServerMain, Boot, InitNeighbor, StartThreads, vars, logVars, electionVars
<1>4. ASSUME NEW t \in Server, Stop(t) \/ BrokenPipe(t)
      PROVE  UNCHANGED <<smr_log[s], commit_length[s], current_term[s]>>
  <2>1. Forget(t) /\ phase' = [phase EXCEPT ![t] = "down"]
    BY <1>4 DEF Stop, BrokenPipe
  <2>2. s # t
    BY <1>1, <2>1 DEF Lives, Listens, PhaseOK
  <2> QED BY <2>1, <2>2 DEF Forget
<1>5. ASSUME NEW t \in Server, Runs(t)
      PROVE  Next
  BY <1>1, <1>5, RunsRaft
<1> QED BY <1>2, <1>3, <1>4, <1>5 DEF ClusterNext, Runs

LEMMA StepKeepsCommits ==
    ASSUME ClusterInv, [ClusterNext]_clusterVars, NEW s \in Server, Lives(s)
    PROVE  /\ commit_length'[s] >= commit_length[s]
           /\ Len(smr_log'[s]) >= commit_length[s]
           /\ \A i \in 1..commit_length[s] : smr_log'[s][i] = smr_log[s][i]
<1>1. IInv /\ TypeOK /\ LengthsWithinLog
  BY DEF ClusterInv, IInv
<1>2. /\ commit_length[s] \in Nat /\ Len(smr_log[s]) \in Nat
      /\ commit_length[s] <= Len(smr_log[s])
  BY <1>1 DEF TypeOK, LengthsWithinLog, LogSize
<1>3. CASE UNCHANGED <<smr_log[s], commit_length[s], current_term[s]>>
  BY <1>2, <1>3
<1>4. CASE Next
  <2>1. Grows(s) /\ commit_length'[s] \in Nat /\ commit_length[s] <= commit_length'[s]
    BY <1>1, <1>4, NextLogStep, LogStepGrows DEF vars
  <2> QED BY <1>2, <2>1 DEF Grows
<1> QED BY <1>3, <1>4, LivesOrRuns

\* No request of a leader that came back with less, and no loss of what a majority held,
\* makes a server that lives take back an entry it committed.
THEOREM LivingServersKeepCommits == ClusterSpec => CommitsKept
<1>1. ClusterInv /\ [ClusterNext]_clusterVars =>
        [\A s \in Server :
           Listens(s) /\ Listens(s)' =>
               /\ commit_length'[s] >= commit_length[s]
               /\ Len(smr_log'[s]) >= commit_length[s]
               /\ \A i \in 1..commit_length[s] : smr_log'[s][i] = smr_log[s][i]]_clusterVars
  BY StepKeepsCommits DEF Lives
<1> QED BY <1>1, ClusterInvariant, PTL DEF ClusterSpec, CommitsKept

\* A leader that lives stays in its term, though the servers that voted for it may have
\* forgotten the term and call elections in it again.
THEOREM LivingLeadersKeepTheirTerm ==
    ClusterSpec =>
        [][\A s \in Server : Leads(s) /\ Leads(s)' => current_term'[s] = current_term[s]]_clusterVars
<1>1. ASSUME ClusterInv, [ClusterNext]_clusterVars, NEW s \in Server, Leads(s), Leads(s)'
      PROVE  current_term'[s] = current_term[s]
  <2>1. Lives(s)
    BY <1>1 DEF Leads, Lives, Listens
  <2>2. CASE Next
    <3>1. LeaderStep
      BY <1>1, <2>2, NextLeaderStep DEF ClusterInv
    <3> QED BY <1>1, <3>1 DEF LeaderStep, LeadsOn, Leads
  <2> QED BY <1>1, <2>1, <2>2, LivesOrRuns
<1>2. ClusterInv /\ [ClusterNext]_clusterVars =>
        [\A s \in Server : Leads(s) /\ Leads(s)' => current_term'[s] = current_term[s]]_clusterVars
  BY <1>1
<1> QED BY <1>2, ClusterInvariant, PTL DEF ClusterSpec
=============================================================================

----------------------------- MODULE RaftProofs -----------------------------
(* What holds of Raft for every cluster, whatever its size, its boot graph *)
(* and the bounds.                                                         *)
EXTENDS Raft, FiniteSetTheorems, WellFoundedInduction, TLAPS

-----------------------------------------------------------------------------
(* The helpers of ServerMetadata. *)

\* MaxOf finds the greatest element of a non-empty set of indices: the elements above a
\* greatest one are the fewest, and inclusion of finite sets is well founded.
LEMMA MaxOfIndices ==
    ASSUME NEW a \in Int, NEW b \in Int, NEW S \in SUBSET (a..b), S # {}
    PROVE  MaxOf(S) \in S /\ \A n \in S : MaxOf(S) >= n
<1> DEFINE Above(m) == {n \in S : n > m}
           R == StrictSubsetOrdering(a..b)
           T == {Above(m) : m \in S}
<1>1. IsWellFoundedOn(R, SUBSET (a..b))
  BY FS_Interval, FS_StrictSubsetOrderingWellFounded, FS_FiniteSubsetsOfFinite
<1>2. T \subseteq SUBSET (a..b) /\ T # {}
  OBVIOUS
<1>3. \E X \in T : \A Y \in T : <<Y, X>> \notin R
  <2> HIDE DEF T, R
  <2> QED BY <1>1, <1>2, WFMin
<1>4. PICK m \in S : \A n \in S : <<Above(n), Above(m)>> \notin R
  BY <1>3
<1>5. ASSUME NEW n \in S, ~(m >= n)
      PROVE  FALSE
  <2>0. n > m /\ ~(n > n) /\ \A i \in S : i > n => i > m
    BY <1>5
  <2>1. n \in Above(m) /\ n \notin Above(n) /\ Above(n) \subseteq Above(m)
    BY <2>0
  <2>2. Above(n) \in SUBSET (a..b) /\ Above(m) \in SUBSET (a..b)
    OBVIOUS
  <2>3. <<Above(n), Above(m)>> \in R
    <3> HIDE DEF Above
    <3> QED BY <2>1, <2>2 DEF StrictSubsetOrdering
  <2> QED BY <2>3, <1>4
<1> QED BY <1>5 DEF MaxOf

\* CommitUntil never goes back, stays in the log, and what it reaches beyond the
\* committed length is acknowledged by a majority.
LEMMA CommitUntilBounds ==
    ASSUME NEW s \in Server, NEW ack, commit_length[s] \in Nat, LogSize(s) \in Nat,
           commit_length[s] <= LogSize(s)
    PROVE  LET until == CommitUntil(s, ack)
           IN  /\ until \in Nat /\ commit_length[s] <= until /\ until <= LogSize(s)
               /\ until = commit_length[s] \/ AckedByMajority(ack, until)
<1> DEFINE reached == {n \in commit_length[s] .. LogSize(s) : AckedByMajority(ack, n)}
<1>1. CASE reached = {}
  BY <1>1 DEF CommitUntil
<1>2. CASE reached # {}
  <2>1. /\ reached \in SUBSET (commit_length[s] .. LogSize(s))
        /\ commit_length[s] \in Int /\ LogSize(s) \in Int
    OBVIOUS
  <2>2. MaxOf(reached) \in reached
    <3> HIDE DEF reached
    <3> QED BY <1>2, <2>1, MaxOfIndices, Zenon
  <2>3. CommitUntil(s, ack) = MaxOf(reached)
    BY <1>2 DEF CommitUntil
  <2> QED BY <2>2, <2>3
<1> QED BY <1>1, <1>2

\* ExecuteLog leaves a record, as long as it stays in the log.
LEMMA ExecuteLogType ==
    ASSUME NEW record \in [Key -> Value \cup {NoValue}], NEW log \in Seq(Ops),
           NEW from \in Nat, NEW to \in Nat, to <= Len(log)
    PROVE  ExecuteLog(record, log, from, to) \in [Key -> Value \cup {NoValue}]
<1> SUFFICES ASSUME NEW k \in Key
             PROVE  ExecuteLog(record, log, from, to)[k] \in Value \cup {NoValue}
  BY DEF ExecuteLog
<1> DEFINE writes == {i \in from + 1 .. to : log[i].arg1 = k}
<1>1. CASE writes = {}
  BY <1>1 DEF ExecuteLog
<1>2. CASE writes # {}
  <2>1. MaxOf(writes) \in writes
    <3>1. writes \in SUBSET (from + 1 .. to) /\ from + 1 \in Int /\ to \in Int
      OBVIOUS
    <3> HIDE DEF writes
    <3> QED BY <1>2, <3>1, MaxOfIndices, Zenon
  <2>2. log[MaxOf(writes)] \in Ops
    BY <2>1
  <2>3. ExecuteLog(record, log, from, to)[k] = log[MaxOf(writes)].arg2
    BY <1>2 DEF ExecuteLog
  <2> QED BY <2>2, <2>3 DEF Ops
<1> QED BY <1>1, <1>2

-----------------------------------------------------------------------------
(* The inductive invariant.  Types alone are not inductive: an index taken *)
(* from a response is a length of the log only because the log and the     *)
(* lengths kept for the peer did not change since the request was made,    *)
(* and they did not because meta_lock was held all along.                  *)

\* A call is made under the lock, and has at most one message in its connection.
CallOK(s) ==
    /\ callee[s] = NoServer => request[s] = NoMsg /\ reply[s] = NoMsg
    /\ callee[s] # NoServer => holder[s] # "free"
    /\ reply[s] # NoMsg => request[s] = NoMsg

\* A request on its way was made by the RPC loop that is running, from the log and the
\* lengths the server still has.
RequestOK(s) ==
    /\ request[s].kind = "vote" => holder[s] = "RequestVote"
    /\ request[s].kind = "append" =>
         /\ Replicating(s)
         /\ request[s].prefix_length = sent_length[s][callee[s]]
         /\ request[s].op = NoOp <=> IsHeartbeatTo(s, callee[s])

\* A response on its way answers such a request.
ReplyOK(s) ==
    /\ reply[s].kind = "vote" => holder[s] = "RequestVote"
    /\ reply[s].kind = "append" =>
         /\ Replicating(s)
         /\ reply[s].success => reply[s].ack = sent_length[s][callee[s]] + 1

\* A heartbeat says no more is committed than it has a prefix for.
HeartbeatOK(m) == m.kind = "append" /\ m.op = NoOp => m.commit_length <= m.prefix_length

ServerCallOK(s) == CallOK(s) /\ RequestOK(s) /\ ReplyOK(s) /\ HeartbeatOK(request[s])

CallsOK ==
    /\ \A s \in Server : ServerCallOK(s)
    /\ \A o \in orphans : HeartbeatOK(o.req)

IInv == TypeOK /\ LengthsWithinLog /\ CallsOK

-----------------------------------------------------------------------------
(* The types, by the group of variables they are about. *)

ElectionTypes ==
    /\ current_term \in [Server -> Nat]
    /\ status \in [Server -> {FOLLOWER, LEADER, CANDIDATE}]
    /\ voted_for \in [Server -> Server \cup {NoServer}]
    /\ vote_received \in [Server -> SUBSET (Server \cup {NoServer})]
    /\ leader_id \in [Server -> Server \cup {NoServer}]
    /\ heartbeat \in [Server -> BOOLEAN]
LogTypes ==
    /\ smr_log \in [Server -> Seq(Ops)]
    /\ commit_length \in [Server -> Nat]
    /\ customer_record \in [Server -> [Key -> Value \cup {NoValue}]]
LeaderTypes ==
    /\ allocated \in [Server -> BOOLEAN]
    /\ sent_length \in [Server -> [Server -> Nat]]
    /\ ack_length \in [Server -> [Server -> Nat]]
ConnectionTypes ==
    /\ node_socket \in [Server -> SUBSET Server]
    /\ failed_neighbors \in [Server -> SUBSET Server]
    /\ repeated \in [Server -> SUBSET Server]
    /\ conn \in [Server -> SUBSET Server]
    /\ drops \in Nat
    /\ broken \subseteq Server
ThreadTypes ==
    /\ seen \in [Server -> {Unread, FOLLOWER, LEADER, CANDIDATE}]
    /\ holder \in [Server -> {"free", "RequestVote", "Heartbeat", "Update"}]
    /\ todo \in [Server -> SUBSET Server]
    /\ num_change \in [Server -> BOOLEAN]
    /\ new_node_socket \in [Server -> SUBSET Server]
CallTypes ==
    /\ callee \in [Server -> Server \cup {NoServer}]
    /\ request \in [Server -> Requests \cup {NoMsg}]
    /\ reply \in [Server -> Replies \cup {NoMsg}]
    /\ orphans \subseteq [to : Server, req : Requests]

LEMMA TypeGroups ==
    TypeOK <=> /\ ElectionTypes /\ LogTypes /\ LeaderTypes
               /\ ConnectionTypes /\ ThreadTypes /\ CallTypes
BY DEF TypeOK, ElectionTypes, LogTypes, LeaderTypes, ConnectionTypes, ThreadTypes, CallTypes

-----------------------------------------------------------------------------
(* Messages. *)

\* A message of each kind has the fields of its kind.
LEMMA MessageKinds ==
    /\ NoMsg.kind = "none"
    /\ \A m \in Requests \cup {NoMsg} :
         /\ m.kind = "vote" => m \in RequestVoteMessages
         /\ m.kind = "append" => m \in LogRequests
         /\ m # NoMsg => m.kind \in {"vote", "append"}
    /\ \A m \in Replies \cup {NoMsg} :
         /\ m.kind = "vote" => m \in RequestVoteResponses
         /\ m.kind = "append" => m \in LogResponses
         /\ m # NoMsg => m.kind \in {"vote", "append"}
BY DEF NoMsg, Requests, Replies, RequestVoteMessages, LogRequests, RequestVoteResponses,
       LogResponses

\* The requests a server makes from its log, and the responses to them, are well formed.
LEMMA LogRequestType ==
    ASSUME TypeOK, LengthsWithinLog, NEW s \in Server, NEW j \in Server
    PROVE  /\ LogRequest(s, j) \in LogRequests
           /\ LogRequest(s, j).kind = "append"
           /\ LogRequest(s, j).prefix_length = sent_length[s][j]
           /\ LogRequest(s, j).op = NoOp <=> IsHeartbeatTo(s, j)
           /\ HeartbeatOK(LogRequest(s, j))
<1> DEFINE prefix == sent_length[s][j]
<1>1. /\ prefix \in Nat /\ prefix <= LogSize(s) /\ smr_log[s] \in Seq(Ops)
      /\ commit_length[s] \in Nat /\ commit_length[s] <= LogSize(s) /\ current_term[s] \in Nat
  BY DEF TypeOK, LengthsWithinLog
<1>2. GetPrefixTerm(s, prefix) \in Nat
  <2>1. prefix > 0 => smr_log[s][prefix] \in Ops
    BY <1>1 DEF LogSize
  <2> QED BY <2>1 DEF GetPrefixTerm, Ops
<1>3. prefix # LogSize(s) => smr_log[s][prefix + 1] \in Ops
  BY <1>1 DEF LogSize
<1>4. NoOp \notin Ops
  BY DEF NoOp, Ops
<1> QED BY <1>1, <1>2, <1>3, <1>4 DEF LogRequest, LogRequests, IsHeartbeatTo, HeartbeatOK

LEMMA RequestVoteMessageType ==
    ASSUME TypeOK, NEW s \in Server
    PROVE  RequestVoteMessage(s) \in RequestVoteMessages /\ RequestVoteMessage(s).kind = "vote"
<1>1. smr_log[s] \in Seq(Ops) /\ current_term[s] \in Nat /\ LogSize(s) \in Nat
  BY DEF TypeOK, LogSize
<1>2. GetLastTerm(s) \in Nat
  <2>1. LogSize(s) # 0 => smr_log[s][LogSize(s)] \in Ops
    BY <1>1 DEF LogSize
  <2> QED BY <2>1 DEF GetLastTerm, Ops
<1> QED BY <1>1, <1>2 DEF RequestVoteMessage, RequestVoteMessages

LEMMA GarbageResponseType == GarbageResponses \subseteq RequestVoteResponses
BY GarbageAssumption DEF GarbageResponses, RequestVoteResponses

-----------------------------------------------------------------------------
LEMMA InitIInv == Init => IInv
<1> SUFFICES ASSUME Init PROVE IInv
  OBVIOUS
<1>1. TypeOK
  BY BootAssumption, ServerAssumption
     DEF Init, TypeOK, FOLLOWER, LEADER, CANDIDATE, Unread
<1>2. LengthsWithinLog
  BY DEF Init, LengthsWithinLog, LogSize
<1>3. CallsOK
  BY DEF Init, CallsOK, ServerCallOK, CallOK, RequestOK, ReplyOK, HeartbeatOK, NoMsg
<1> QED BY <1>1, <1>2, <1>3 DEF IInv

LEMMA FollowerTimeoutIInv ==
    ASSUME IInv, NEW s \in Server, FollowerTimeout(s)
    PROVE  IInv'
<1> USE DEF FollowerTimeout, electionVars, logVars, leaderVars, connVars, netVars, loopVars, rpcVars
<1>1. TypeOK'
  BY DEF IInv, TypeOK
<1>2. LengthsWithinLog'
  BY DEF IInv, LengthsWithinLog, LogSize
<1>3. CallsOK'
  BY DEF IInv, CallsOK, ServerCallOK, CallOK, RequestOK, ReplyOK, HeartbeatOK, Replicating, IsHeartbeatTo, LogSize
<1> QED BY <1>1, <1>2, <1>3 DEF IInv

\* The call of a server is undisturbed by a step that leaves its own variables alone.
LEMMA Undisturbed ==
    ASSUME CallsOK, NEW i \in Server,
           callee'[i] = callee[i], request'[i] = request[i], reply'[i] = reply[i],
           holder'[i] = holder[i], sent_length'[i] = sent_length[i], smr_log'[i] = smr_log[i]
    PROVE  ServerCallOK(i)'
BY DEF CallsOK, ServerCallOK, CallOK, RequestOK, ReplyOK, HeartbeatOK, Replicating,
       IsHeartbeatTo, LogSize

LEMMA ReadStatusIInv ==
    ASSUME IInv, NEW s \in Server, ReadStatus(s)
    PROVE  IInv'
<1> USE DEF ReadStatus, electionVars, logVars, leaderVars, connVars, netVars, threadVars, loopVars, rpcVars
<1>1. TypeOK'
  BY DEF IInv, TypeOK, FOLLOWER, LEADER, CANDIDATE, Unread
<1>2. LengthsWithinLog'
  BY DEF IInv, TypeOK, LengthsWithinLog, LogSize
<1>3. CallsOK'
  BY DEF IInv, TypeOK, CallsOK, ServerCallOK, CallOK, RequestOK, ReplyOK,
         HeartbeatOK, Replicating, IsHeartbeatTo, LogSize, NoMsg
<1> QED BY <1>1, <1>2, <1>3 DEF IInv

LEMMA BeginVoteIInv ==
    ASSUME IInv, NEW s \in Server, BeginVote(s)
    PROVE  IInv'
<1> USE DEF BeginVote, Acquire, electionVars, logVars, leaderVars, connVars, netVars, threadVars, loopVars, rpcVars
<1>1. TypeOK'
  <2>1. ElectionTypes'
    BY DEF IInv, TypeOK, ElectionTypes
  <2>2. ThreadTypes'
    BY DEF IInv, TypeOK, ThreadTypes
  <2>3. LogTypes' /\ LeaderTypes' /\ ConnectionTypes' /\ CallTypes'
    BY DEF IInv, TypeOK, LogTypes, LeaderTypes, ConnectionTypes, CallTypes
  <2> QED BY <2>1, <2>2, <2>3 DEF TypeOK, ElectionTypes, LogTypes, LeaderTypes,
                                  ConnectionTypes, ThreadTypes, CallTypes
<1>2. LengthsWithinLog'
  BY DEF IInv, TypeOK, LengthsWithinLog, LogSize
<1>3. CallsOK'
  BY DEF IInv, TypeOK, CallsOK, ServerCallOK, CallOK, RequestOK, ReplyOK,
         HeartbeatOK, Replicating, IsHeartbeatTo, LogSize, NoMsg
<1> QED BY <1>1, <1>2, <1>3 DEF IInv

LEMMA EndVoteIInv ==
    ASSUME IInv, NEW s \in Server, EndVote(s)
    PROVE  IInv'
<1> USE DEF EndVote, Release, electionVars, logVars, leaderVars, connVars, netVars, threadVars, loopVars, rpcVars
<1>1. TypeOK'
  BY DEF IInv, TypeOK, FOLLOWER, LEADER, CANDIDATE, Unread
<1>2. LengthsWithinLog'
  BY DEF IInv, TypeOK, LengthsWithinLog, LogSize
<1>3. CallsOK'
  BY DEF IInv, TypeOK, CallsOK, ServerCallOK, CallOK, RequestOK, ReplyOK,
         HeartbeatOK, Replicating, IsHeartbeatTo, LogSize, NoMsg
<1> QED BY <1>1, <1>2, <1>3 DEF IInv

LEMMA TryReconnectType ==
    ASSUME TypeOK, NEW s \in Server, TryReconnect(s)
    PROVE  /\ node_socket' \in [Server -> SUBSET Server]
           /\ failed_neighbors' \in [Server -> SUBSET Server]
           /\ repeated' \in [Server -> SUBSET Server]
           /\ broken' \subseteq Server
           /\ conn' \in [Server -> SUBSET Server]
<1>1. PICK ok \in SUBSET failed_neighbors[s], still \in SUBSET failed_neighbors[s] :
          /\ node_socket' = [node_socket EXCEPT ![s] = @ \cup ok]
          /\ conn' = [conn EXCEPT ![s] = @ \cup ok]
          /\ failed_neighbors' = [failed_neighbors EXCEPT ![s] = still]
          /\ \E again \in SUBSET (ok \cap still) :
               repeated' = [repeated EXCEPT ![s] = (@ \ ok) \cup again]
          /\ \E twice \in SUBSET (ok \cap still) :
               broken' = broken \cup ((repeated[s] \cap ok) \ (ok \cap still)) \cup twice
  BY DEF TryReconnect
<1>2. /\ failed_neighbors[s] \subseteq Server /\ broken \subseteq Server
      /\ repeated \in [Server -> SUBSET Server] /\ repeated[s] \subseteq Server
  BY DEF TypeOK
<1>3. node_socket' \in [Server -> SUBSET Server] /\ conn' \in [Server -> SUBSET Server]
      /\ failed_neighbors' \in [Server -> SUBSET Server]
  BY <1>1, <1>2 DEF TypeOK
<1>4. repeated' \in [Server -> SUBSET Server]
  <2>1. PICK again \in SUBSET (ok \cap still) :
           repeated' = [repeated EXCEPT ![s] = (repeated[s] \ ok) \cup again]
    BY <1>1
  <2>2. (repeated[s] \ ok) \cup again \in SUBSET Server
    BY <1>2
  <2> QED BY <1>2, <2>1, <2>2
<1>5. broken' \subseteq Server
  BY <1>1, <1>2
<1> QED BY <1>3, <1>4, <1>5

LEMMA BeginHeartbeatIInv ==
    ASSUME IInv, NEW s \in Server, BeginHeartbeat(s)
    PROVE  IInv'
<1> USE DEF BeginHeartbeat, Acquire, electionVars, logVars, leaderVars, connVars, netVars, threadVars,
           loopVars, rpcVars
<1>1. TypeOK /\ LengthsWithinLog /\ CallsOK /\ TryReconnect(s)
  BY DEF IInv
<1>2. TypeOK'
  BY <1>1, TryReconnectType DEF TypeOK
<1>3. LengthsWithinLog'
  BY <1>1 DEF LengthsWithinLog, LogSize
<1>4. CallsOK'
  BY <1>1 DEF CallsOK, ServerCallOK, CallOK, RequestOK, ReplyOK, HeartbeatOK,
            Replicating, IsHeartbeatTo, LogSize, NoMsg, TypeOK
<1> QED BY <1>2, <1>3, <1>4 DEF IInv

LEMMA NextRoundIInv ==
    ASSUME IInv, NEW s \in Server, NextRound(s)
    PROVE  IInv'
<1> USE DEF NextRound, RoundDone, electionVars, logVars, leaderVars, connVars, netVars, threadVars, loopVars, rpcVars
<1>1. TypeOK'
  BY DEF IInv, TypeOK, FOLLOWER, LEADER, CANDIDATE, Unread
<1>2. LengthsWithinLog'
  BY DEF IInv, TypeOK, LengthsWithinLog, LogSize
<1>3. CallsOK'
  BY DEF IInv, TypeOK, CallsOK, ServerCallOK, CallOK, RequestOK, ReplyOK,
         HeartbeatOK, Replicating, IsHeartbeatTo, LogSize, NoMsg
<1> QED BY <1>1, <1>2, <1>3 DEF IInv

LEMMA EndReplicateIInv ==
    ASSUME IInv, NEW s \in Server, EndReplicate(s)
    PROVE  IInv'
<1> USE DEF EndReplicate, RoundDone, Release, electionVars, logVars, leaderVars, connVars, netVars, threadVars, loopVars, rpcVars
<1>1. TypeOK'
  BY DEF IInv, TypeOK, FOLLOWER, LEADER, CANDIDATE, Unread
<1>2. LengthsWithinLog'
  BY DEF IInv, TypeOK, LengthsWithinLog, LogSize
<1>3. CallsOK'
  BY DEF IInv, TypeOK, CallsOK, ServerCallOK, CallOK, RequestOK, ReplyOK,
         HeartbeatOK, Replicating, IsHeartbeatTo, LogSize, NoMsg
<1> QED BY <1>1, <1>2, <1>3 DEF IInv

LEMMA KeepNodeType ==
    ASSUME TypeOK, NEW s \in Server, NEW op \in BOOLEAN, callee[s] \in Server, KeepNode(s, op)
    PROVE  /\ new_node_socket' \in [Server -> SUBSET Server]
           /\ num_change' \in [Server -> BOOLEAN]
           /\ UNCHANGED <<seen, holder, todo>>
<1>1. new_node_socket' \in [Server -> SUBSET Server]
  BY DEF KeepNode, TypeOK
<1>2. num_change' \in [Server -> BOOLEAN]
  <2>1. num_change' = [num_change EXCEPT ![s] = num_change[s] \/ op]
    BY Zenon DEF KeepNode
  <2>2. (num_change[s] \/ op) \in BOOLEAN
    OBVIOUS
  <2>3. num_change \in [Server -> BOOLEAN]
    BY DEF TypeOK
  <2> QED BY <2>1, <2>2, <2>3, Zenon
<1>3. UNCHANGED <<seen, holder, todo>>
  BY DEF KeepNode
<1> QED BY <1>1, <1>2, <1>3

LEMMA ReceiveHeartbeatResponseIInv ==
    ASSUME IInv, NEW s \in Server, ReceiveHeartbeatResponse(s)
    PROVE  IInv'
<1> USE DEF ReceiveHeartbeatResponse, EndCall, Answered, electionVars, logVars, leaderVars, connVars, netVars, threadVars,
           loopVars, rpcVars
<1>1. TypeOK /\ LengthsWithinLog /\ CallsOK
  BY DEF IInv
<1>2. callee[s] \in Server
  BY <1>1 DEF TypeOK
<1>3. TypeOK'
  <2>1. /\ new_node_socket' \in [Server -> SUBSET Server]
        /\ num_change' \in [Server -> BOOLEAN]
        /\ UNCHANGED <<seen, holder, todo>>
    BY <1>1, <1>2, KeepNodeType
  <2> QED BY <1>1, <1>2, <2>1 DEF TypeOK
<1>4. LengthsWithinLog'
  BY <1>1, <1>2 DEF LengthsWithinLog, LogSize
<1>5. CallsOK'
  <2>1. ASSUME NEW i \in Server, i # s
        PROVE  ServerCallOK(i)'
    BY <1>1, <2>1, Undisturbed DEF TypeOK, KeepNode
  <2>2. ServerCallOK(s)'
    BY <1>1, <1>2 DEF CallsOK, ServerCallOK, CallOK, RequestOK, ReplyOK, HeartbeatOK,
            Replicating, IsHeartbeatTo, LogSize, NoMsg, TypeOK, KeepNode
  <2>3. \A o \in orphans' : HeartbeatOK(o.req)
    BY <1>1 DEF CallsOK
  <2> QED BY <2>1, <2>2, <2>3 DEF CallsOK, HeartbeatOK
<1> QED BY <1>3, <1>4, <1>5 DEF IInv

LEMMA CallVoteIInv ==
    ASSUME IInv, NEW s \in Server, NEW j \in Server, CallVote(s, j)
    PROVE  IInv'
<1> USE DEF CallVote, StartCall, electionVars, logVars, leaderVars, connVars, netVars, threadVars,
           loopVars, rpcVars
<1>1. TypeOK /\ LengthsWithinLog /\ CallsOK
  BY DEF IInv
<1>2. /\ RequestVoteMessage(s) \in Requests /\ RequestVoteMessage(s).kind = "vote"
      /\ j # NoServer
  BY <1>1, ServerAssumption, RequestVoteMessageType DEF Requests
<1>3. TypeOK'
  BY <1>1, <1>2 DEF TypeOK
<1>4. LengthsWithinLog'
  BY <1>1, <1>2 DEF LengthsWithinLog, LogSize
<1>5. CallsOK'
  <2>1. ASSUME NEW i \in Server, i # s
        PROVE  ServerCallOK(i)'
    BY <1>1, <2>1, Undisturbed DEF TypeOK
  <2>2. ServerCallOK(s)'
    BY <1>1, <1>2 DEF CallsOK, ServerCallOK, CallOK, RequestOK, ReplyOK, HeartbeatOK,
            Replicating, IsHeartbeatTo, LogSize, NoMsg, TypeOK
  <2>3. \A o \in orphans' : HeartbeatOK(o.req)
    BY <1>1 DEF CallsOK
  <2> QED BY <2>1, <2>2, <2>3 DEF CallsOK, HeartbeatOK
<1> QED BY <1>3, <1>4, <1>5 DEF IInv

LEMMA CallAppendIInv ==
    ASSUME IInv, NEW s \in Server, NEW j \in Server, CallAppend(s, j)
    PROVE  IInv'
<1> USE DEF CallAppend, StartCall, electionVars, logVars, leaderVars, connVars, netVars, threadVars,
           loopVars, rpcVars
<1>1. TypeOK /\ LengthsWithinLog /\ CallsOK
  BY DEF IInv
<1>2. /\ LogRequest(s, j) \in Requests /\ LogRequest(s, j).kind = "append"
      /\ LogRequest(s, j).prefix_length = sent_length[s][j]
      /\ LogRequest(s, j).op = NoOp <=> IsHeartbeatTo(s, j)
      /\ HeartbeatOK(LogRequest(s, j))
      /\ j # NoServer
  BY <1>1, ServerAssumption, LogRequestType DEF Requests
<1>3. TypeOK'
  BY <1>1, <1>2 DEF TypeOK
<1>4. LengthsWithinLog'
  BY <1>1, <1>2 DEF LengthsWithinLog, LogSize
<1>5. CallsOK'
  <2>1. ASSUME NEW i \in Server, i # s
        PROVE  ServerCallOK(i)'
    BY <1>1, <2>1, Undisturbed DEF TypeOK
  <2>2. ServerCallOK(s)'
    BY <1>1, <1>2 DEF CallsOK, ServerCallOK, CallOK, RequestOK, ReplyOK, HeartbeatOK,
            Replicating, IsHeartbeatTo, LogSize, NoMsg, TypeOK
  <2>3. \A o \in orphans' : HeartbeatOK(o.req)
    BY <1>1 DEF CallsOK
  <2> QED BY <2>1, <2>2, <2>3 DEF CallsOK, HeartbeatOK
<1> QED BY <1>3, <1>4, <1>5 DEF IInv

LEMMA LoseLogResponseIInv ==
    ASSUME IInv, NEW s \in Server, LoseLogResponse(s)
    PROVE  IInv'
<1> USE DEF LoseLogResponse, EndCall, Lost, electionVars, logVars, leaderVars, connVars,
           netVars, threadVars, loopVars, rpcVars
<1>1. TypeOK /\ LengthsWithinLog /\ CallsOK
  BY DEF IInv
<1>2. callee[s] \in Server
  BY <1>1 DEF TypeOK
<1>3. TypeOK'
  <2>1. sent_length' \in [Server -> [Server -> Nat]] /\ ack_length' \in [Server -> [Server -> Nat]]
    BY <1>1, <1>2 DEF TypeOK
  <2>2. failed_neighbors' \in [Server -> SUBSET Server]
    BY <1>1, <1>2 DEF TypeOK
  <2> QED BY <1>1, <1>2, <2>1, <2>2 DEF TypeOK
<1>4. LengthsWithinLog'
  <2>1. \A i, j \in Server :
           /\ sent_length'[i][j] \in {0, sent_length[i][j]}
           /\ ack_length'[i][j] \in {0, ack_length[i][j]}
    BY <1>1, <1>2 DEF TypeOK
  <2>2. \A i \in Server : LogSize(i) \in Nat /\ LogSize(i)' = LogSize(i)
    BY <1>1 DEF TypeOK, LogSize
  <2> QED BY <1>1, <2>1, <2>2 DEF LengthsWithinLog
<1>5. CallsOK'
  <2>1. ASSUME NEW i \in Server, i # s
        PROVE  ServerCallOK(i)'
    BY <1>1, <2>1, Undisturbed DEF TypeOK
  <2>2. ServerCallOK(s)'
    BY <1>1, <1>2 DEF CallsOK, ServerCallOK, CallOK, RequestOK, ReplyOK, HeartbeatOK,
            Replicating, IsHeartbeatTo, LogSize, NoMsg, TypeOK
  <2>3. \A o \in orphans' : HeartbeatOK(o.req)
    BY <1>1 DEF CallsOK
  <2> QED BY <2>1, <2>2, <2>3 DEF CallsOK, HeartbeatOK
<1> QED BY <1>3, <1>4, <1>5 DEF IInv

\* Counting a vote keeps the types, and touches the lengths of the candidate only.
LEMMA CountVoteOutcome ==
    ASSUME TypeOK, NEW s \in Server, NEW res \in RequestVoteResponses, CountVote(s, res)
    PROVE  /\ ElectionTypes' /\ LeaderTypes' /\ ThreadTypes'
           /\ \A i \in Server \ {s} :
                holder'[i] = holder[i] /\ sent_length'[i] = sent_length[i]
           /\ \A i, j \in Server :
                /\ sent_length'[i][j] \in {sent_length[i][j], LogSize(i)}
                /\ ack_length'[i][j] \in {ack_length[i][j], 0}
<1> USE DEF threadVars, loopVars, electionVars, leaderVars
<1>1. /\ ElectionTypes /\ LeaderTypes /\ ThreadTypes
      /\ \A i \in Server : LogSize(i) \in Nat
  <2>1. \A i \in Server : LogSize(i) \in Nat
    BY DEF TypeOK, LogSize
  <2> QED BY <2>1, TypeGroups
<1>2. /\ res.id \in Server \cup {NoServer} /\ res.current_term \in Nat
  BY DEF RequestVoteResponses
<1>3. Release(s) => ThreadTypes' /\ \A i \in Server \ {s} : holder'[i] = holder[i]
  BY <1>1 DEF Release, ThreadTypes, Unread
<1>4. UNCHANGED threadVars => ThreadTypes' /\ \A i \in Server : holder'[i] = holder[i]
  BY <1>1 DEF ThreadTypes
<1>5. UNCHANGED leaderVars =>
        /\ LeaderTypes'
        /\ \A i \in Server : sent_length'[i] = sent_length[i] /\ ack_length'[i] = ack_length[i]
  BY <1>1 DEF LeaderTypes
<1>6. InitLeader(s) =>
        /\ LeaderTypes'
        /\ \A i \in Server \ {s} : sent_length'[i] = sent_length[i]
        /\ \A i, j \in Server :
             /\ sent_length'[i][j] \in {sent_length[i][j], LogSize(i)}
             /\ ack_length'[i][j] \in {ack_length[i][j], 0}
  BY <1>1 DEF InitLeader, LeaderTypes
<1>7. CASE Demote(s, res.current_term) /\ Release(s) /\ UNCHANGED leaderVars
  <2>1. ElectionTypes'
    BY <1>1, <1>2, <1>7 DEF ElectionTypes, Demote
  <2> QED BY <1>3, <1>5, <1>7, <2>1
<1>8. CASE UNCHANGED <<electionVars, leaderVars, threadVars>>
  <2>1. ElectionTypes'
    BY <1>1, <1>8 DEF ElectionTypes
  <2> QED BY <1>4, <1>5, <1>8, <2>1
<1>9. CASE /\ vote_received' = [vote_received EXCEPT ![s] = vote_received[s] \cup {res.id}]
           /\ UNCHANGED <<current_term, voted_for, heartbeat>>
           /\ \/ InitLeader(s) /\ Release(s)
              \/ UNCHANGED <<leaderVars, leader_id, status, threadVars>>
  <2>1. CASE InitLeader(s) /\ Release(s)
    <3>1. ElectionTypes'
      BY <1>1, <1>2, <1>9, <2>1 DEF ElectionTypes, InitLeader
    <3> QED BY <1>3, <1>6, <2>1, <3>1
  <2>2. CASE UNCHANGED <<leaderVars, leader_id, status, threadVars>>
    <3>1. ElectionTypes'
      BY <1>1, <1>2, <1>9, <2>2 DEF ElectionTypes
    <3> QED BY <1>4, <1>5, <2>2, <3>1
  <2> QED BY <1>9, <2>1, <2>2
<1> QED BY <1>7, <1>8, <1>9 DEF CountVote

\* Counting a vote ends the call the vote came with.
LEMMA VoteCountedIInv ==
    ASSUME IInv, NEW s \in Server, NEW res \in RequestVoteResponses, CountVote(s, res),
           request[s] = NoMsg, EndCall(s), UNCHANGED <<logVars, connVars, netVars>>
    PROVE  IInv'
<1> USE DEF EndCall, logVars, connVars, netVars
<1>1. TypeOK /\ LengthsWithinLog /\ CallsOK
  BY DEF IInv
<1>2. /\ ElectionTypes' /\ LeaderTypes' /\ ThreadTypes'
      /\ \A i \in Server \ {s} :
           holder'[i] = holder[i] /\ sent_length'[i] = sent_length[i]
      /\ \A i, j \in Server :
           /\ sent_length'[i][j] \in {sent_length[i][j], LogSize(i)}
           /\ ack_length'[i][j] \in {ack_length[i][j], 0}
  BY <1>1, CountVoteOutcome
<1>3. TypeOK'
  <2>1. LogTypes' /\ ConnectionTypes' /\ CallTypes'
    BY <1>1 DEF TypeOK, LogTypes, ConnectionTypes, CallTypes
  <2> QED BY <1>2, <2>1 DEF TypeOK, ElectionTypes, LogTypes, LeaderTypes, ConnectionTypes,
                            ThreadTypes, CallTypes
<1>4. LengthsWithinLog'
  <2>1. \A i \in Server : LogSize(i) \in Nat /\ LogSize(i)' = LogSize(i)
    BY <1>1 DEF TypeOK, LogSize
  <2>2. \A i, j \in Server : sent_length[i][j] <= LogSize(i) /\ ack_length[i][j] <= LogSize(i)
    BY <1>1 DEF LengthsWithinLog
  <2>3. \A i, j \in Server :
           sent_length'[i][j] <= LogSize(i) /\ ack_length'[i][j] <= LogSize(i)
    BY <1>2, <2>1, <2>2
  <2> QED BY <1>1, <2>1, <2>3 DEF LengthsWithinLog
<1>5. CallsOK'
  <2>1. ASSUME NEW i \in Server, i # s
        PROVE  ServerCallOK(i)'
    BY <1>1, <1>2, <2>1, Undisturbed DEF TypeOK
  <2>2. callee'[s] = NoServer /\ request'[s] = NoMsg /\ reply'[s] = NoMsg
    BY <1>1 DEF TypeOK
  <2>3. ServerCallOK(s)'
    BY <2>2 DEF ServerCallOK, CallOK, RequestOK, ReplyOK, HeartbeatOK, NoMsg
  <2> QED BY <1>1, <2>1, <2>3 DEF CallsOK, HeartbeatOK
<1> QED BY <1>3, <1>4, <1>5 DEF IInv

LEMMA ReceiveVoteResponseIInv ==
    ASSUME IInv, NEW s \in Server, ReceiveVoteResponse(s)
    PROVE  IInv'
<1>1. reply[s] # NoMsg /\ reply[s] \in Replies \cup {NoMsg} /\ holder[s] = "RequestVote"
  BY DEF ReceiveVoteResponse, Answered, IInv, TypeOK
<1>2. ServerCallOK(s)
  BY DEF IInv, CallsOK
<1>3. request[s] = NoMsg /\ reply[s].kind # "append"
  BY <1>1, <1>2 DEF ServerCallOK, CallOK, ReplyOK, Replicating
<1>4. reply[s] \in RequestVoteResponses
  BY <1>1, <1>3, MessageKinds
<1> QED BY <1>3, <1>4, VoteCountedIInv DEF ReceiveVoteResponse

LEMMA LoseVoteResponseIInv ==
    ASSUME IInv, NEW s \in Server, LoseVoteResponse(s)
    PROVE  IInv'
<1>1. PICK res \in GarbageResponses : CountVote(s, res)
  BY DEF LoseVoteResponse
<1>2. request[s] = NoMsg
  BY DEF LoseVoteResponse, Lost
<1> QED BY <1>1, <1>2, GarbageResponseType, VoteCountedIInv DEF LoseVoteResponse

LEMMA BeginUpdateIInv ==
    ASSUME IInv, NEW s \in Server, NEW k \in Key, NEW v \in Value, BeginUpdate(s, k, v)
    PROVE  IInv'
<1> USE DEF BeginUpdate, Acquire, netVars, rpcVars, electionVars
<1> DEFINE op == [term |-> current_term[s], arg1 |-> k, arg2 |-> v]
<1>1. TypeOK /\ LengthsWithinLog /\ CallsOK /\ TryReconnect(s)
  BY DEF IInv
<1>2. \A i \in Server : smr_log[i] \in Seq(Ops) /\ LogSize(i) \in Nat
  BY <1>1 DEF TypeOK, LogSize
<1>3. op \in Ops
  BY <1>1 DEF TypeOK, Ops
<1>4. /\ smr_log' \in [Server -> Seq(Ops)]
      /\ smr_log'[s] = Append(smr_log[s], op)
      /\ LogSize(s)' = LogSize(s) + 1
      /\ \A i \in Server \ {s} : smr_log'[i] = smr_log[i]
  <2>1. smr_log' = [smr_log EXCEPT ![s] = Append(smr_log[s], op)]
    OBVIOUS
  <2>2. Append(smr_log[s], op) \in Seq(Ops) /\ Len(Append(smr_log[s], op)) = LogSize(s) + 1
    BY <1>2, <1>3 DEF LogSize
  <2>3. smr_log \in [Server -> Seq(Ops)]
    BY <1>1 DEF TypeOK
  <2> HIDE DEF op, BeginUpdate
  <2> QED BY <2>1, <2>2, <2>3 DEF LogSize
<1>5. /\ ack_length' \in [Server -> [Server -> Nat]]
      /\ \A i, j \in Server :
           ack_length'[i][j] = IF i = s /\ j = s THEN LogSize(s) + 1 ELSE ack_length[i][j]
  <2>1. ack_length' = [ack_length EXCEPT ![s][s] = LogSize(s) + 1]
    OBVIOUS
  <2>2. ack_length \in [Server -> [Server -> Nat]] /\ LogSize(s) + 1 \in Nat
    BY <1>1, <1>2 DEF TypeOK
  <2> HIDE DEF BeginUpdate
  <2> QED BY <2>1, <2>2
<1>6. TypeOK'
  <2>1. LogTypes'
    BY <1>1, <1>4 DEF TypeOK, LogTypes
  <2>2. ElectionTypes' /\ CallTypes'
    BY <1>1 DEF TypeOK, ElectionTypes, CallTypes
  <2>3. ThreadTypes'
    BY <1>1, TryReconnectType DEF TypeOK, ThreadTypes
  <2>4. ConnectionTypes'
    BY <1>1, TryReconnectType DEF TypeOK, ConnectionTypes
  <2>5. LeaderTypes'
    BY <1>1, <1>5 DEF TypeOK, LeaderTypes
  <2> QED BY <2>1, <2>2, <2>3, <2>4, <2>5
          DEF TypeOK, ElectionTypes, LogTypes, LeaderTypes, ConnectionTypes, ThreadTypes, CallTypes
<1>7. LengthsWithinLog'
  <2>1. \A i \in Server :
           LogSize(i)' \in Nat /\ LogSize(i)' >= LogSize(i) /\ LogSize(s)' = LogSize(s) + 1
    BY <1>2, <1>4 DEF LogSize
  <2>2. UNCHANGED <<commit_length, sent_length>>
    OBVIOUS
  <2>3. /\ \A i \in Server : commit_length[i] \in Nat /\ commit_length[i] <= LogSize(i)
        /\ \A i, j \in Server : /\ sent_length[i][j] \in Nat /\ sent_length[i][j] <= LogSize(i)
                                /\ ack_length[i][j] \in Nat /\ ack_length[i][j] <= LogSize(i)
    BY <1>1 DEF TypeOK, LengthsWithinLog
  <2> HIDE DEF BeginUpdate
  <2>4. ASSUME NEW i \in Server, NEW j \in Server
        PROVE  ack_length'[i][j] <= LogSize(i)'
    <3>1. CASE i = s /\ j = s
      BY <1>2, <1>5, <2>1, <3>1 DEF LogSize
    <3>2. CASE ~(i = s /\ j = s)
      <4>1. ack_length'[i][j] = ack_length[i][j]
        BY <1>5, <3>2
      <4> QED BY <1>2, <2>1, <2>3, <4>1
    <3> QED BY <3>1, <3>2
  <2> QED BY <1>2, <2>1, <2>2, <2>3, <2>4 DEF LengthsWithinLog
<1>8. CallsOK'
  <2>1. ASSUME NEW i \in Server, i # s
        PROVE  ServerCallOK(i)'
    BY <1>1, <1>4, <2>1, Undisturbed DEF TypeOK
  <2>2. callee'[s] = NoServer /\ request'[s] = NoMsg /\ reply'[s] = NoMsg
    BY <1>1 DEF CallsOK, ServerCallOK, CallOK
  <2>3. ServerCallOK(s)'
    BY <2>2 DEF ServerCallOK, CallOK, RequestOK, ReplyOK, HeartbeatOK, NoMsg
  <2> QED BY <1>1, <2>1, <2>3 DEF CallsOK, HeartbeatOK
<1> QED BY <1>6, <1>7, <1>8 DEF IInv

\* The leader's commit stays in its log, and what it commits anew a majority acknowledged.
LEMMA CommitLogOutcome ==
    ASSUME TypeOK, LengthsWithinLog, NEW s \in Server, NEW ack, CommitLog(s, ack)
    PROVE  /\ LogTypes' /\ UNCHANGED smr_log
           /\ \A i \in Server \ {s} : commit_length'[i] = commit_length[i]
           /\ commit_length[s] <= commit_length'[s] /\ commit_length'[s] <= LogSize(s)
           /\ \/ commit_length'[s] = commit_length[s]
              \/ AckedByMajority(ack, commit_length'[s])
<1> DEFINE until == CommitUntil(s, ack)
<1>1. /\ smr_log \in [Server -> Seq(Ops)] /\ commit_length \in [Server -> Nat]
      /\ customer_record \in [Server -> [Key -> Value \cup {NoValue}]]
      /\ LogSize(s) \in Nat /\ commit_length[s] <= LogSize(s)
  BY DEF TypeOK, LengthsWithinLog, LogSize
<1>2. /\ until \in Nat /\ commit_length[s] <= until /\ until <= LogSize(s)
      /\ until = commit_length[s] \/ AckedByMajority(ack, until)
  BY <1>1, CommitUntilBounds
<1> HIDE DEF until
<1>3. ExecuteLog(customer_record[s], smr_log[s], commit_length[s], until)
        \in [Key -> Value \cup {NoValue}]
  BY <1>1, <1>2, ExecuteLogType DEF LogSize
<1>4. /\ commit_length' = [commit_length EXCEPT ![s] = until]
      /\ customer_record' = [customer_record EXCEPT
            ![s] = ExecuteLog(customer_record[s], smr_log[s], commit_length[s], until)]
      /\ UNCHANGED smr_log
  BY DEF CommitLog, until
<1>5. LogTypes'
  BY <1>1, <1>2, <1>3, <1>4 DEF LogTypes
<1> QED BY <1>1, <1>2, <1>4, <1>5

\* Recording a response keeps every length within the log.
LEMMA RecordResponseOutcome ==
    ASSUME TypeOK, LengthsWithinLog, NEW s \in Server, NEW j \in Server,
           NEW res \in LogResponses, res.success => res.ack <= LogSize(s),
           RecordResponse(s, j, res)
    PROVE  /\ LogTypes' /\ UNCHANGED smr_log
           /\ sent_length' \in [Server -> [Server -> Nat]]
           /\ ack_length' \in [Server -> [Server -> Nat]]
           /\ \A i \in Server \ {s} :
                commit_length'[i] = commit_length[i] /\ sent_length'[i] = sent_length[i]
           /\ \A i, k \in Server :
                /\ sent_length'[i][k] <= LogSize(i)
                /\ \/ ack_length'[i][k] = ack_length[i][k]
                   \/ i = s /\ k = j /\ res.success /\ ack_length'[i][k] = res.ack
           /\ commit_length[s] <= commit_length'[s] /\ commit_length'[s] <= LogSize(s)
           /\ \/ commit_length'[s] = commit_length[s]
              \/ AckedByMajority(ack_length'[s], commit_length'[s])
<1>1. /\ sent_length \in [Server -> [Server -> Nat]]
      /\ ack_length \in [Server -> [Server -> Nat]]
      /\ \A i \in Server : LogSize(i) \in Nat
      /\ \A i, k \in Server : sent_length[i][k] <= LogSize(i) /\ ack_length[i][k] <= LogSize(i)
      /\ res.ack \in Nat
  <2>1. \A i \in Server : LogSize(i) \in Nat
    BY DEF TypeOK, LogSize
  <2> QED BY <2>1 DEF TypeOK, LengthsWithinLog, LogResponses
<1>2. CASE /\ res.success
           /\ sent_length' = [sent_length EXCEPT ![s][j] = res.ack]
           /\ ack_length' = [ack_length EXCEPT ![s][j] = res.ack]
           /\ CommitLog(s, ack_length'[s])
  <2>1. /\ sent_length' \in [Server -> [Server -> Nat]]
        /\ ack_length' \in [Server -> [Server -> Nat]]
    BY <1>1, <1>2
  <2>2. \A i, k \in Server :
           /\ sent_length'[i][k] = IF i = s /\ k = j THEN res.ack ELSE sent_length[i][k]
           /\ ack_length'[i][k] = IF i = s /\ k = j THEN res.ack ELSE ack_length[i][k]
    BY <1>1, <1>2
  <2>3. \A i \in Server \ {s} : sent_length'[i] = sent_length[i]
    BY <1>1, <1>2
  <2> QED BY <1>1, <1>2, <2>1, <2>2, <2>3, CommitLogOutcome
<1>3. CASE /\ ~res.success
           /\ sent_length' = [sent_length EXCEPT ![s][j] = IF @ > 0 THEN @ - 1 ELSE @]
           /\ UNCHANGED <<ack_length, logVars>>
  <2> DEFINE back == IF sent_length[s][j] > 0 THEN sent_length[s][j] - 1 ELSE sent_length[s][j]
  <2>1. back \in Nat /\ back <= LogSize(s)
    BY <1>1
  <2>2. sent_length' = [sent_length EXCEPT ![s][j] = back]
    BY <1>3
  <2> HIDE DEF back
  <2>3. /\ sent_length' \in [Server -> [Server -> Nat]]
        /\ \A i \in Server \ {s} : sent_length'[i] = sent_length[i]
        /\ \A i, k \in Server : sent_length'[i][k] <= LogSize(i)
    BY <1>1, <2>1, <2>2
  <2>4. LogTypes' /\ commit_length[s] <= commit_length[s] /\ commit_length[s] <= LogSize(s)
    BY <1>3 DEF TypeOK, LengthsWithinLog, LogTypes, logVars
  <2> QED BY <1>1, <1>3, <2>3, <2>4 DEF logVars
<1> QED BY <1>2, <1>3 DEF RecordResponse

\* What an RPC loop of ReplicateLog knows of the response it has received.
LEMMA LogResponseReceived ==
    ASSUME IInv, NEW s \in Server, Replicating(s), Answered(s)
    PROVE  /\ callee[s] \in Server /\ reply[s] \in LogResponses /\ request[s] = NoMsg
           /\ reply[s].success => reply[s].ack = sent_length[s][callee[s]] + 1
<1>1. callee[s] \in Server /\ reply[s] # NoMsg /\ reply[s] \in Replies \cup {NoMsg}
  BY DEF Answered, IInv, TypeOK
<1>2. ServerCallOK(s)
  BY DEF IInv, CallsOK
<1>3. request[s] = NoMsg /\ reply[s].kind # "vote"
  BY <1>1, <1>2 DEF ServerCallOK, CallOK, ReplyOK, Replicating
<1>4. reply[s] \in LogResponses /\ reply[s].kind = "append"
  BY <1>1, <1>3, MessageKinds
<1> QED BY <1>1, <1>2, <1>3, <1>4 DEF ServerCallOK, ReplyOK

LEMMA ReceiveLogResponseIInv ==
    ASSUME IInv, NEW s \in Server, ReceiveLogResponse(s)
    PROVE  IInv'
<1> DEFINE j == callee[s]
           res == reply[s]
<1>1. TypeOK /\ LengthsWithinLog /\ CallsOK
  BY DEF IInv
<1>2. /\ j \in Server /\ res \in LogResponses /\ request[s] = NoMsg
      /\ res.success => res.ack <= LogSize(s)
  <2>1. /\ j \in Server /\ res \in LogResponses /\ request[s] = NoMsg
        /\ res.success => res.ack = sent_length[s][j] + 1
    BY LogResponseReceived DEF ReceiveLogResponse
  <2>2. sent_length[s][j] # LogSize(s)
    BY DEF ReceiveLogResponse, IsHeartbeatTo
  <2>3. sent_length[s][j] \in Nat /\ LogSize(s) \in Nat /\ sent_length[s][j] <= LogSize(s)
    BY <1>1, <2>1 DEF TypeOK, LengthsWithinLog, LogSize
  <2> HIDE DEF j, res
  <2> QED BY <2>1, <2>2, <2>3
<1>3. /\ EndCall(s) /\ UNCHANGED <<allocated, connVars, netVars>>
      /\ \/ RecordResponse(s, j, res) /\ KeepNode(s, TRUE) /\ UNCHANGED electionVars
         \/ /\ Demote(s, res.current_term) /\ Release(s)
            /\ UNCHANGED <<sent_length, ack_length, logVars>>
         \/ KeepNode(s, TRUE) /\ UNCHANGED <<electionVars, sent_length, ack_length, logVars>>
  BY DEF ReceiveLogResponse
<1>4. /\ LogTypes /\ ElectionTypes /\ ThreadTypes /\ LeaderTypes /\ res.current_term \in Nat
  BY <1>1, <1>2, TypeGroups DEF LogResponses
<1> HIDE DEF j, res
<1>5. /\ LogTypes' /\ UNCHANGED smr_log
      /\ sent_length' \in [Server -> [Server -> Nat]]
      /\ ack_length' \in [Server -> [Server -> Nat]]
      /\ \A i \in Server \ {s} : sent_length'[i] = sent_length[i]
      /\ \A i \in Server : commit_length'[i] <= LogSize(i)
      /\ \A i, k \in Server : sent_length'[i][k] <= LogSize(i) /\ ack_length'[i][k] <= LogSize(i)
  <2>1. CASE RecordResponse(s, j, res)
    <3>1. /\ LogTypes' /\ UNCHANGED smr_log
          /\ sent_length' \in [Server -> [Server -> Nat]]
          /\ ack_length' \in [Server -> [Server -> Nat]]
          /\ \A i \in Server \ {s} :
               commit_length'[i] = commit_length[i] /\ sent_length'[i] = sent_length[i]
          /\ \A i, k \in Server :
               /\ sent_length'[i][k] <= LogSize(i)
               /\ \/ ack_length'[i][k] = ack_length[i][k]
                  \/ i = s /\ k = j /\ res.success /\ ack_length'[i][k] = res.ack
          /\ commit_length'[s] <= LogSize(s)
      BY <1>1, <1>2, <2>1, RecordResponseOutcome
    <3>2. \A i \in Server : commit_length'[i] <= LogSize(i)
      BY <1>1, <3>1 DEF LengthsWithinLog
    <3>3. \A i, k \in Server : ack_length'[i][k] <= LogSize(i)
      BY <1>1, <1>2, <3>1 DEF LengthsWithinLog
    <3> QED BY <3>1, <3>2, <3>3
  <2>2. CASE UNCHANGED <<sent_length, ack_length, logVars>>
    BY <1>1, <1>4, <2>2 DEF LengthsWithinLog, LogTypes, LeaderTypes, logVars
  <2> QED BY <1>3, <2>1, <2>2
<1>6. /\ ElectionTypes' /\ ThreadTypes'
      /\ \A i \in Server \ {s} : holder'[i] = holder[i]
  <2>1. CASE Demote(s, res.current_term) /\ Release(s)
    <3>1. ElectionTypes'
      BY <1>4, <2>1 DEF ElectionTypes, Demote
    <3> QED BY <1>4, <2>1, <3>1 DEF Release, ThreadTypes, Unread
  <2>2. CASE KeepNode(s, TRUE) /\ UNCHANGED electionVars
    <3>1. /\ new_node_socket' \in [Server -> SUBSET Server]
          /\ num_change' \in [Server -> BOOLEAN]
          /\ UNCHANGED <<seen, holder, todo>>
      BY <1>1, <1>2, <2>2, KeepNodeType DEF j
    <3> QED BY <1>4, <2>2, <3>1 DEF ElectionTypes, ThreadTypes, electionVars
  <2> QED BY <1>3, <2>1, <2>2
<1>7. TypeOK'
  <2>1. LeaderTypes' /\ ConnectionTypes' /\ CallTypes'
    BY <1>1, <1>3, <1>5
       DEF TypeOK, LeaderTypes, ConnectionTypes, CallTypes, EndCall, connVars, netVars
  <2> QED BY <1>5, <1>6, <2>1 DEF TypeOK, ElectionTypes, LogTypes, LeaderTypes,
                                ConnectionTypes, ThreadTypes, CallTypes
<1>8. LengthsWithinLog'
  BY <1>5 DEF LengthsWithinLog, LogSize
<1>9. CallsOK'
  <2>1. ASSUME NEW i \in Server, i # s
        PROVE  ServerCallOK(i)'
    BY <1>1, <1>3, <1>5, <1>6, <2>1, Undisturbed DEF TypeOK, EndCall
  <2>2. callee'[s] = NoServer /\ request'[s] = NoMsg /\ reply'[s] = NoMsg
    BY <1>1, <1>2, <1>3 DEF TypeOK, EndCall
  <2>3. ServerCallOK(s)'
    BY <2>2 DEF ServerCallOK, CallOK, RequestOK, ReplyOK, HeartbeatOK, NoMsg
  <2> QED BY <1>1, <1>3, <2>1, <2>3 DEF CallsOK, HeartbeatOK, EndCall
<1> QED BY <1>7, <1>8, <1>9 DEF IInv

-----------------------------------------------------------------------------
(* The handlers. *)

\* What a handler of server j leaves behind, whichever request it handled.
Handled(j) ==
    /\ ElectionTypes' /\ LogTypes'
    /\ UNCHANGED <<leaderVars, connVars, threadVars>>
    /\ \A i \in Server \ {j} : smr_log'[i] = smr_log[i] /\ commit_length'[i] = commit_length[i]
    /\ smr_log'[j] = smr_log[j] \/ \E op \in Ops : smr_log'[j] = Append(smr_log[j], op)
    /\ commit_length[j] <= commit_length'[j]
    /\ commit_length'[j] <= LogSize(j)'

LEMMA VoteHandled ==
    ASSUME TypeOK, LengthsWithinLog, NEW j \in Server, NEW m, m.current_term \in Nat,
           m.id \in Server \cup {NoServer}, GetVoteResponse(j, m)
    PROVE  Handled(j) /\ UNCHANGED logVars
<1> DEFINE higher == m.current_term > current_term[j]
<1>1. /\ current_term' = [current_term EXCEPT ![j] = IF higher THEN m.current_term ELSE @]
      /\ status' = [status EXCEPT ![j] = IF higher THEN FOLLOWER ELSE @]
      /\ vote_received' = [vote_received EXCEPT ![j] = IF higher THEN {} ELSE @]
      /\ voted_for' = [voted_for EXCEPT ![j] = IF higher THEN m.id ELSE @]
      /\ heartbeat' = [heartbeat EXCEPT ![j] = TRUE]
      /\ UNCHANGED <<leader_id, logVars, leaderVars, connVars, threadVars>>
  BY DEF GetVoteResponse
<1> HIDE DEF higher
<1>2. ElectionTypes'
  BY <1>1 DEF TypeOK, ElectionTypes
<1>3. LogTypes'
  BY <1>1 DEF TypeOK, LogTypes, logVars
<1>4. /\ commit_length[j] <= commit_length'[j] /\ commit_length'[j] <= LogSize(j)'
      /\ UNCHANGED <<smr_log, commit_length>>
  BY <1>1 DEF TypeOK, LengthsWithinLog, LogSize, logVars
<1> QED BY <1>1, <1>2, <1>3, <1>4 DEF Handled

\* StoreLog appends at most the operation it received, executes at most one entry more
\* and no more than the request says is committed, and when it succeeds with an
\* operation the log covers it.
LEMMA StoreLogOutcome ==
    ASSUME TypeOK, LengthsWithinLog, NEW j \in Server, NEW m \in LogRequests,
           HeartbeatOK(m), StoreLog(j, m)
    PROVE  /\ LogTypes'
           /\ \A i \in Server \ {j} :
                smr_log'[i] = smr_log[i] /\ commit_length'[i] = commit_length[i]
           /\ smr_log'[j] = smr_log[j] \/ \E op \in Ops : smr_log'[j] = Append(smr_log[j], op)
           /\ commit_length[j] <= commit_length'[j]
           /\ commit_length'[j] <= LogSize(j)'
           /\ commit_length'[j] = commit_length[j] \/ commit_length'[j] <= m.commit_length
           /\ Succeeds(j, m) /\ m.op # NoOp => LogSize(j)' >= m.prefix_length + 1
<1> DEFINE extends == Succeeds(j, m) /\ LogSize(j) = m.prefix_length
           commits == extends /\ m.commit_length > commit_length[j]
           log     == IF extends /\ m.op # NoOp THEN Append(smr_log[j], m.op) ELSE smr_log[j]
           commit  == IF commits THEN commit_length[j] + 1 ELSE commit_length[j]
           record  == IF commits
                      THEN ExecuteLog(customer_record[j], smr_log'[j],
                                      commit_length[j], commit_length[j] + 1)
                      ELSE customer_record[j]
<1>1. /\ smr_log' = [smr_log EXCEPT ![j] = log]
      /\ commit_length' = [commit_length EXCEPT ![j] = commit]
      /\ customer_record' = [customer_record EXCEPT ![j] = record]
  BY DEF StoreLog
<1>2. /\ smr_log \in [Server -> Seq(Ops)] /\ commit_length \in [Server -> Nat]
      /\ customer_record \in [Server -> [Key -> Value \cup {NoValue}]]
      /\ LogSize(j) = Len(smr_log[j]) /\ LogSize(j) \in Nat /\ commit_length[j] <= LogSize(j)
      /\ m.op \in Ops \cup {NoOp} /\ m.prefix_length \in Nat /\ m.commit_length \in Nat
      /\ m.kind = "append"
  BY DEF TypeOK, LengthsWithinLog, LogSize, LogRequests
<1>3. /\ log \in Seq(Ops)
      /\ log = smr_log[j] \/ \E op \in Ops : log = Append(smr_log[j], op)
      /\ Len(log) = IF extends /\ m.op # NoOp THEN LogSize(j) + 1 ELSE LogSize(j)
  BY <1>2
<1>4. /\ commit \in Nat /\ commit_length[j] <= commit /\ commit <= Len(log)
      /\ commit = commit_length[j] \/ commit <= m.commit_length
  <2>1. CASE commits /\ m.op = NoOp
    BY <1>2, <1>3, <2>1 DEF HeartbeatOK
  <2>2. CASE commits /\ m.op # NoOp
    BY <1>2, <1>3, <2>2
  <2>3. CASE ~commits
    BY <1>2, <1>3, <2>3
  <2> QED BY <2>1, <2>2, <2>3
<1>5. Succeeds(j, m) /\ m.op # NoOp => Len(log) >= m.prefix_length + 1
  <2>1. Succeeds(j, m) => LogSize(j) >= m.prefix_length
    BY DEF Succeeds, CanLog
  <2> QED BY <1>2, <1>3, <2>1
<1>6. smr_log'[j] = log
  BY <1>1, <1>2
<1>7. record \in [Key -> Value \cup {NoValue}]
  <2>1. CASE commits
    <3>1. commit_length[j] + 1 <= Len(log) /\ commit_length[j] \in Nat
      BY <1>2, <1>4, <2>1
    <3>2. ExecuteLog(customer_record[j], log, commit_length[j], commit_length[j] + 1)
            \in [Key -> Value \cup {NoValue}]
      <4> HIDE DEF log
      <4> QED BY <1>2, <1>3, <3>1, ExecuteLogType
    <3> QED BY <1>6, <2>1, <3>2
  <2>2. CASE ~commits
    BY <1>2, <2>2
  <2> QED BY <2>1, <2>2
<1> HIDE DEF log, commit, record
<1>8. LogTypes'
  BY <1>1, <1>2, <1>3, <1>4, <1>7 DEF LogTypes
<1> QED BY <1>1, <1>2, <1>3, <1>4, <1>5, <1>6, <1>8 DEF LogSize

LEMMA LogHandled ==
    ASSUME TypeOK, LengthsWithinLog, NEW j \in Server, NEW m \in LogRequests,
           HeartbeatOK(m), GetLogResponse(j, m)
    PROVE  Handled(j)
<1>1. StoreLog(j, m) /\ UNCHANGED <<leaderVars, connVars, threadVars>>
  BY DEF GetLogResponse
<1>2. m.current_term \in Nat /\ m.leader_id \in Server
  BY DEF LogRequests
<1>3. ElectionTypes'
  <2>1. ElectionTypes /\ heartbeat' = [heartbeat EXCEPT ![j] = TRUE]
    BY TypeGroups DEF GetLogResponse
  <2>2. CASE Accepts(j, m)
    BY <1>2, <2>1, <2>2 DEF GetLogResponse, ElectionTypes
  <2>3. CASE ~Accepts(j, m)
    BY <2>1, <2>3 DEF GetLogResponse, ElectionTypes
  <2> QED BY <2>2, <2>3
<1> QED BY <1>1, <1>3, StoreLogOutcome DEF Handled

\* A handler runs while no call of its own server is in progress, and disturbs no call
\* but the one it answers.
LEMMA HandledCalls ==
    ASSUME IInv, NEW j \in Server, holder[j] = "free", Handled(j), UNCHANGED callee
    PROVE  /\ LengthsWithinLog'
           /\ callee[j] = NoServer
           /\ (request'[j] = request[j] /\ reply'[j] = reply[j]) => ServerCallOK(j)'
           /\ \A i \in Server \ {j} :
                request'[i] = request[i] /\ reply'[i] = reply[i] => ServerCallOK(i)'
<1>1. TypeOK /\ LengthsWithinLog /\ CallsOK
  BY DEF IInv
<1>2. LengthsWithinLog'
  <2>1. ASSUME NEW i \in Server
        PROVE  LogSize(i) \in Nat /\ LogSize(i)' \in Nat /\ LogSize(i)' >= LogSize(i)
    <3>1. smr_log[i] \in Seq(Ops)
      BY <1>1 DEF TypeOK
    <3>2. smr_log'[i] = smr_log[i] \/ \E op \in Ops : smr_log'[i] = Append(smr_log[i], op)
      BY DEF Handled
    <3> QED BY <3>1, <3>2 DEF LogSize
  <2>2. \A i \in Server : commit_length'[i] <= LogSize(i)'
    BY <1>1 DEF Handled, LengthsWithinLog, LogSize
  <2>3. UNCHANGED <<sent_length, ack_length>>
    BY DEF Handled, leaderVars
  <2>4. \A i, k \in Server : /\ sent_length[i][k] \in Nat /\ sent_length[i][k] <= LogSize(i)
                             /\ ack_length[i][k] \in Nat /\ ack_length[i][k] <= LogSize(i)
    BY <1>1 DEF TypeOK, LengthsWithinLog
  <2> QED BY <2>1, <2>2, <2>3, <2>4 DEF LengthsWithinLog
<1>3. UNCHANGED <<sent_length, holder>>
  BY DEF Handled, leaderVars, threadVars
<1>4. callee[j] = NoServer /\ request[j] = NoMsg /\ reply[j] = NoMsg
  BY <1>1 DEF CallsOK, ServerCallOK, CallOK
<1>5. request'[j] = request[j] /\ reply'[j] = reply[j] => ServerCallOK(j)'
  BY <1>3, <1>4 DEF ServerCallOK, CallOK, RequestOK, ReplyOK, HeartbeatOK, NoMsg
<1>6. ASSUME NEW i \in Server \ {j}, request'[i] = request[i], reply'[i] = reply[i]
      PROVE  ServerCallOK(i)'
  BY <1>1, <1>3, <1>6, Undisturbed DEF Handled
<1> QED BY <1>2, <1>4, <1>5, <1>6

\* A handler that answers the call of s leaves the invariant as it was.
LEMMA AnsweredIInv ==
    ASSUME IInv, NEW j \in Server, NEW s \in Server, holder[j] = "free", callee[s] = j,
           NEW res \in Replies, Handled(j), Respond(s, res), ReplyOK(s)'
    PROVE  IInv'
<1>1. TypeOK /\ CallsOK
  BY DEF IInv
<1>2. /\ UNCHANGED <<callee, orphans, netVars>>
      /\ request' = [request EXCEPT ![s] = NoMsg]
      /\ reply' = [reply EXCEPT ![s] = res]
  BY DEF Respond
<1>3. res # NoMsg /\ callee[s] # NoServer /\ s # j
  BY <1>1, ServerAssumption, MessageKinds
     DEF NoMsg, Replies, RequestVoteResponses, LogResponses, CallsOK, ServerCallOK, CallOK
<1>4. TypeOK'
  <2>1. CallTypes'
    BY <1>1, <1>2 DEF TypeOK, CallTypes
  <2>2. LeaderTypes' /\ ConnectionTypes' /\ ThreadTypes'
    BY <1>1, <1>2 DEF Handled, TypeOK, LeaderTypes, ConnectionTypes, ThreadTypes,
                      leaderVars, connVars, threadVars, loopVars, netVars
  <2> QED BY <2>1, <2>2 DEF Handled, TypeOK, ElectionTypes, LogTypes, LeaderTypes,
                            ConnectionTypes, ThreadTypes, CallTypes
<1>5. CallsOK'
  <2>1. ASSUME NEW i \in Server, i # s
        PROVE  ServerCallOK(i)'
    <3>1. request'[i] = request[i] /\ reply'[i] = reply[i]
      BY <1>1, <1>2, <2>1 DEF TypeOK
    <3> QED BY <1>2, <3>1, HandledCalls
  <2>2. ServerCallOK(s)'
    <3>1. request'[s] = NoMsg /\ reply'[s] = res /\ callee'[s] = callee[s] /\ holder'[s] = holder[s]
      BY <1>1, <1>2 DEF TypeOK, Handled, threadVars
    <3>2. CallOK(s)'
      BY <1>1, <1>3, <3>1 DEF CallsOK, ServerCallOK, CallOK
    <3> QED BY <3>1, <3>2 DEF ServerCallOK, RequestOK, HeartbeatOK, NoMsg
  <2> QED BY <1>1, <1>2, <2>1, <2>2 DEF CallsOK, HeartbeatOK
<1> QED BY <1>2, <1>4, <1>5, HandledCalls DEF IInv

LEMMA CandidateVoteHandlerIInv ==
    ASSUME IInv, NEW j \in Server, NEW s \in Server, CandidateVoteHandler(j, s)
    PROVE  IInv'
<1> DEFINE m == request[s]
           res == VoteResponse(j, m, current_term'[j], voted_for'[j])
<1>1. /\ TypeOK /\ LengthsWithinLog /\ CallsOK
      /\ holder[j] = "free" /\ callee[s] = j /\ m.kind = "vote"
      /\ GetVoteResponse(j, m) /\ Respond(s, res)
  BY DEF IInv, CandidateVoteHandler
<1>2. m \in RequestVoteMessages
  BY <1>1, MessageKinds DEF TypeOK
<1>3. m.current_term \in Nat /\ m.id \in Server \cup {NoServer}
  BY <1>2 DEF RequestVoteMessages
<1>4. Handled(j)
  BY <1>1, <1>3, VoteHandled
<1>5. res \in RequestVoteResponses /\ res.kind = "vote"
  <2>1. current_term'[j] \in Nat
    BY <1>4 DEF Handled, ElectionTypes
  <2>2. (LogUpToDate(j, m) /\ m.current_term = current_term'[j] /\ voted_for'[j] = m.id) \in BOOLEAN
    OBVIOUS
  <2> QED BY <2>1, <2>2 DEF VoteResponse, RequestVoteResponses
<1>6. ReplyOK(s)'
  <2>1. reply'[s] = res /\ holder'[s] = holder[s]
    BY <1>1, <1>4 DEF Respond, TypeOK, Handled, threadVars
  <2>2. holder[s] = "RequestVote"
    BY <1>1 DEF CallsOK, ServerCallOK, RequestOK
  <2> QED BY <1>5, <2>1, <2>2 DEF ReplyOK
<1> HIDE DEF res
<1> QED BY <1>1, <1>4, <1>5, <1>6, AnsweredIInv DEF Replies

LEMMA AppendLogHandlerIInv ==
    ASSUME IInv, NEW j \in Server, NEW s \in Server, AppendLogHandler(j, s)
    PROVE  IInv'
<1> DEFINE m == request[s]
           res == LogResponse(j, m, current_term'[j])
<1>1. /\ TypeOK /\ LengthsWithinLog /\ CallsOK
      /\ holder[j] = "free" /\ callee[s] = j /\ m.kind = "append"
      /\ GetLogResponse(j, m) /\ Respond(s, res)
  BY DEF IInv, AppendLogHandler
<1>2. m \in LogRequests /\ HeartbeatOK(m)
  BY <1>1, MessageKinds DEF TypeOK, CallsOK, ServerCallOK
<1>3. Handled(j)
  BY <1>1, <1>2, LogHandled
<1>4. /\ res \in LogResponses /\ res.kind = "append"
      /\ res.success => res.ack = m.prefix_length + 1
  <2>1. current_term'[j] \in Nat /\ m.prefix_length \in Nat
    BY <1>2, <1>3 DEF Handled, ElectionTypes, LogRequests
  <2>2. Succeeds(j, m) \in BOOLEAN
    BY DEF Succeeds
  <2>3. (IF Succeeds(j, m) THEN m.prefix_length + 1 ELSE 0) \in Nat
    BY <2>1
  <2> QED BY <2>1, <2>2, <2>3 DEF LogResponse, LogResponses
<1>5. ReplyOK(s)'
  <2>1. /\ reply'[s] = res /\ holder'[s] = holder[s]
        /\ sent_length'[s] = sent_length[s] /\ callee'[s] = callee[s]
    BY <1>1, <1>3 DEF Respond, TypeOK, Handled, threadVars, leaderVars
  <2>2. Replicating(s) /\ m.prefix_length = sent_length[s][callee[s]]
    BY <1>1 DEF CallsOK, ServerCallOK, RequestOK
  <2> HIDE DEF res, m
  <2> QED BY <1>4, <2>1, <2>2 DEF ReplyOK, Replicating
<1> HIDE DEF res
<1> QED BY <1>1, <1>3, <1>4, <1>5, AnsweredIInv DEF Replies

\* A handler that answers nobody leaves the invariant as it was.
LEMMA UnansweredIInv ==
    ASSUME IInv, NEW j \in Server, holder[j] = "free", Handled(j),
           UNCHANGED <<callee, request, reply, drops>>,
           orphans' \subseteq orphans, broken' \subseteq broken \cup {j}
    PROVE  IInv'
<1>1. TypeOK /\ CallsOK
  BY DEF IInv
<1>2. TypeOK'
  <2>1. CallTypes'
    BY <1>1 DEF TypeOK, CallTypes
  <2>2. LeaderTypes' /\ ConnectionTypes' /\ ThreadTypes'
    BY <1>1 DEF Handled, TypeOK, LeaderTypes, ConnectionTypes, ThreadTypes,
                leaderVars, connVars, threadVars, loopVars
  <2> QED BY <2>1, <2>2 DEF Handled, TypeOK, ElectionTypes, LogTypes, LeaderTypes,
                            ConnectionTypes, ThreadTypes, CallTypes
<1>3. \A i \in Server : ServerCallOK(i)'
  BY HandledCalls
<1> QED BY <1>1, <1>2, <1>3, HandledCalls DEF IInv, CallsOK, HeartbeatOK

LEMMA HandleOrphanIInv ==
    ASSUME IInv, NEW j \in Server, NEW o \in orphans, HandleOrphan(j, o)
    PROVE  IInv'
<1>1. /\ TypeOK /\ LengthsWithinLog /\ o.req \in Requests /\ HeartbeatOK(o.req)
  BY DEF IInv, TypeOK, CallsOK
<1>2. Handled(j)
  <2>1. CASE o.req.kind = "vote" /\ GetVoteResponse(j, o.req)
    <3>1. o.req.current_term \in Nat /\ o.req.id \in Server \cup {NoServer}
      BY <1>1, <2>1, MessageKinds DEF RequestVoteMessages
    <3> QED BY <1>1, <2>1, <3>1, VoteHandled
  <2>2. CASE o.req.kind = "append" /\ GetLogResponse(j, o.req)
    BY <1>1, <2>2, MessageKinds, LogHandled
  <2> QED BY <2>1, <2>2 DEF HandleOrphan
<1> QED BY <1>2, UnansweredIInv DEF HandleOrphan

LEMMA GhostVoteIInv ==
    ASSUME IInv, NEW j \in Server, GhostVote(j)
    PROVE  IInv'
<1>1. PICK id \in Server \cup {NoServer}, term \in GarbageTerms :
          GetVoteResponse(j, [kind |-> "vote", id |-> id, current_term |-> term])
  BY DEF GhostVote
<1>2. Handled(j)
  BY <1>1, GarbageAssumption, VoteHandled DEF IInv
<1> QED BY <1>2, UnansweredIInv DEF GhostVote, netVars, rpcVars

LEMMA DropLinkIInv ==
    ASSUME IInv, NEW s \in Server, NEW j \in Server, DropLink(s, j)
    PROVE  IInv'
<1> USE DEF electionVars, logVars, leaderVars, threadVars, loopVars
<1>1. /\ TypeOK /\ LengthsWithinLog /\ CallsOK
      /\ UNCHANGED <<electionVars, logVars, leaderVars, node_socket, failed_neighbors, repeated,
                     threadVars, callee>>
      /\ conn' = [conn EXCEPT ![s] = @ \ {j}]
      /\ drops' = drops + 1
  BY DEF IInv, DropLink
<1>2. /\ request' \in {request, [request EXCEPT ![s] = NoMsg]}
      /\ reply' \in {reply, [reply EXCEPT ![s] = NoMsg]}
      /\ broken' \in {broken, broken \cup {j}}
      /\ \/ orphans' = orphans
         \/ request[s] # NoMsg /\ orphans' = orphans \cup {[to |-> j, req |-> request[s]]}
  BY DEF DropLink
<1>3. TypeOK'
  <2>1. ElectionTypes' /\ LogTypes' /\ LeaderTypes' /\ ThreadTypes'
    BY <1>1 DEF TypeOK, ElectionTypes, LogTypes, LeaderTypes, ThreadTypes
  <2>2. ConnectionTypes'
    BY <1>1, <1>2 DEF TypeOK, ConnectionTypes
  <2>3. CallTypes'
    <3>1. /\ callee' \in [Server -> Server \cup {NoServer}]
          /\ request' \in [Server -> Requests \cup {NoMsg}]
          /\ reply' \in [Server -> Replies \cup {NoMsg}]
      BY <1>1, <1>2 DEF TypeOK
    <3>2. request[s] # NoMsg => [to |-> j, req |-> request[s]] \in [to : Server, req : Requests]
      BY <1>1 DEF TypeOK
    <3> QED BY <1>1, <1>2, <3>1, <3>2 DEF TypeOK, CallTypes
  <2> QED BY <2>1, <2>2, <2>3 DEF TypeOK, ElectionTypes, LogTypes, LeaderTypes,
                                  ConnectionTypes, ThreadTypes, CallTypes
<1>4. LengthsWithinLog'
  BY <1>1 DEF LengthsWithinLog, LogSize
<1>5. CallsOK'
  <2>1. ASSUME NEW i \in Server
        PROVE  ServerCallOK(i)'
    <3>1. request'[i] \in {request[i], NoMsg} /\ reply'[i] \in {reply[i], NoMsg}
      BY <1>1, <1>2 DEF TypeOK
    <3>2. ServerCallOK(i)
      BY <1>1 DEF CallsOK
    <3> QED BY <1>1, <3>1, <3>2 DEF ServerCallOK, CallOK, RequestOK, ReplyOK, HeartbeatOK,
                                    Replicating, IsHeartbeatTo, LogSize, NoMsg
  <2>2. \A o \in orphans' : HeartbeatOK(o.req)
    BY <1>1, <1>2 DEF CallsOK, ServerCallOK
  <2> QED BY <2>1, <2>2 DEF CallsOK, HeartbeatOK
<1> QED BY <1>3, <1>4, <1>5 DEF IInv

-----------------------------------------------------------------------------
(* The invariant holds. *)

LEMMA StutterIInv == IInv /\ UNCHANGED vars => IInv'
BY DEF vars, electionVars, logVars, leaderVars, connVars, netVars, threadVars, loopVars, rpcVars,
       IInv, TypeOK, LengthsWithinLog, LogSize, CallsOK, ServerCallOK, CallOK, RequestOK, ReplyOK,
       HeartbeatOK, Replicating, IsHeartbeatTo

LEMMA NextIInv == IInv /\ [Next]_vars => IInv'
<1> SUFFICES ASSUME IInv, [Next]_vars PROVE IInv'
  OBVIOUS
<1>1. CASE UNCHANGED vars
  BY <1>1, StutterIInv
<1>2. ASSUME NEW s \in Server, TimeoutThread(s) PROVE IInv'
  BY <1>2, ReadStatusIInv, FollowerTimeoutIInv, BeginVoteIInv, BeginHeartbeatIInv DEF TimeoutThread
<1>3. ASSUME NEW s \in Server, RequestVote(s) PROVE IInv'
  BY <1>3, CallVoteIInv, ReceiveVoteResponseIInv, LoseVoteResponseIInv, EndVoteIInv
     DEF RequestVote
<1>4. ASSUME NEW s \in Server, ReplicateLog(s) PROVE IInv'
  BY <1>4, CallAppendIInv, ReceiveHeartbeatResponseIInv, ReceiveLogResponseIInv,
     LoseLogResponseIInv, NextRoundIInv, EndReplicateIInv DEF ReplicateLog
<1>5. ASSUME NEW j \in Server, ServerHandler(j) PROVE IInv'
  BY <1>5, CandidateVoteHandlerIInv, AppendLogHandlerIInv, HandleOrphanIInv, GhostVoteIInv
     DEF ServerHandler
<1>6. ASSUME NEW s \in Server, LeaderThread(s) PROVE IInv'
  BY <1>6, BeginUpdateIInv DEF LeaderThread
<1>7. ASSUME NEW s \in Server, NEW j \in Server, DropLink(s, j) PROVE IInv'
  BY <1>7, DropLinkIInv
<1> QED BY <1>1, <1>2, <1>3, <1>4, <1>5, <1>6, <1>7 DEF Next

\* The inductive invariant holds of every behaviour.
THEOREM InductiveInvariant == Spec => []IInv
<1>1. Init => IInv
  BY InitIInv
<1>2. IInv /\ [Next]_vars => IInv'
  BY NextIInv
<1> QED BY <1>1, <1>2, PTL DEF Spec

\* Every variable keeps its type, in particular the record that ExecuteLog computes, the
\* lengths the responses carry and the requests left in broken connections.
THEOREM TypeCorrect == Spec => []TypeOK
<1>1. IInv => TypeOK
  BY DEF IInv
<1> QED BY <1>1, InductiveInvariant, PTL

\* The lengths a server keeps never leave its log, so that CommitLog, ReplicateLog and
\* GetLogResponse index smr_log within its bounds.
THEOREM LengthsStayWithinLog == Spec => []LengthsWithinLog
<1>1. IInv => LengthsWithinLog
  BY DEF IInv
<1> QED BY <1>1, InductiveInvariant, PTL

=============================================================================

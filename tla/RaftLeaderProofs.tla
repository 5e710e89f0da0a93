-------------------------- MODULE RaftLeaderProofs --------------------------
(* Leaders, for every cluster: who is named as leader has been one, and a  *)
(* leader stays in its term.                                               *)
EXTENDS RaftProofs

\* A server that leads, or whose threads still act as if it did, made its arrays; so did
\* the sender of every log request.
Reigned ==
    /\ \A s \in Server : status[s] = LEADER => allocated[s]
    /\ \A s \in Server : seen[s] = LEADER => allocated[s]
    /\ \A s \in Server : Replicating(s) => allocated[s]
    /\ \A m \in AppendsInFlight : allocated[m.leader_id]

\* TimeoutThread's copy of the status is stale, but it cannot have missed that the server
\* was elected: the thread that read CANDIDATE is the one that runs the election.
NotElectedYet == \A s \in Server : seen[s] = CANDIDATE => status[s] # LEADER

LeaderInv == IInv /\ LeaderIdInitialised /\ Reigned /\ NotElectedYet

-----------------------------------------------------------------------------
(* What one step may do to the leaders. *)

\* A server becomes leader only by making its arrays, and TimeoutThread then reads the
\* status again; one that stays leader keeps its term.
LeadsOn(i) ==
    /\ allocated[i] => allocated'[i]
    /\ status'[i] = LEADER /\ status[i] # LEADER => allocated'[i] /\ seen'[i] = Unread
    /\ status'[i] = LEADER /\ status[i] = LEADER => current_term'[i] = current_term[i]

\* A server names as leader itself, once elected, or the sender of a log request.
Names(i) ==
    \/ leader_id'[i] = leader_id[i]
    \/ leader_id'[i] = i /\ allocated'[i]
    \/ \E m \in AppendsInFlight : leader_id'[i] = m.leader_id

\* The threads act on a status they have read.
Acts(i) ==
    /\ seen'[i] \in {seen[i], Unread} \/ (seen'[i] = status[i] /\ status'[i] = status[i])
    /\ Replicating(i)' => Replicating(i) \/ seen[i] = LEADER \/ allocated[i]

Sends(m) == m \in AppendsInFlight \/ (m.leader_id \in Server /\ Replicating(m.leader_id))

LeaderStep ==
    /\ \A i \in Server : LeadsOn(i) /\ Names(i) /\ Acts(i)
    /\ \A m \in AppendsInFlight' : Sends(m)

\* Messages are answered or lost, or turn into orphans of a broken connection.
NoNewAppends ==
    /\ \A i \in Server : request'[i] \in {request[i], NoMsg} \/ request'[i].kind = "vote"
    /\ \A o \in orphans' : o \in orphans \/ \E i \in Server : o.req = request[i]

LEMMA NothingNew ==
    ASSUME NoNewAppends, NEW m \in AppendsInFlight'
    PROVE  m \in AppendsInFlight
<1>1. CASE \E i \in Server : m = request'[i]
  BY <1>1 DEF NoNewAppends, AppendsInFlight, InFlight, NoMsg
<1>2. CASE \E o \in orphans' : m = o.req
  BY <1>2 DEF NoNewAppends, AppendsInFlight, InFlight
<1> QED BY <1>1, <1>2 DEF AppendsInFlight, InFlight

LEMMA NothingSent ==
    ASSUME NoNewAppends
    PROVE  \A m \in AppendsInFlight' : Sends(m)
BY NothingNew DEF Sends

\* Steps of the RPC loops that leave the election alone.
LEMMA LoopStep ==
    ASSUME IInv, UNCHANGED <<electionVars, allocated>>, NoNewAppends,
           \A i \in Server : seen'[i] \in {seen[i], Unread} /\ holder'[i] \in {holder[i], "free"}
    PROVE  LeaderStep
<1>1. \A i \in Server : LeadsOn(i) /\ Names(i) /\ Acts(i)
  BY DEF LeadsOn, Names, Acts, Replicating, electionVars
<1> QED BY <1>1, NothingSent DEF LeaderStep

LEMMA TimeoutThreadStep ==
    ASSUME IInv, NotElectedYet, NEW s \in Server, TimeoutThread(s)
    PROVE  LeaderStep
<1> USE DEF electionVars, leaderVars, netVars, loopVars, rpcVars
<1>1. TypeOK
  BY DEF IInv
<1>2. UNCHANGED <<allocated, leader_id, request, orphans>>
  BY DEF TimeoutThread, ReadStatus, FollowerTimeout, BeginVote, BeginHeartbeat
<1>3. \A i \in Server : Names(i)
  BY <1>2 DEF Names
<1>4. NoNewAppends
  BY <1>2 DEF NoNewAppends
<1>5. CASE ReadStatus(s)
  BY <1>1, <1>3, <1>4, <1>5, NothingSent DEF ReadStatus, TypeOK, LeaderStep, LeadsOn, Acts, Replicating
<1>6. CASE FollowerTimeout(s)
  <2>1. \A i \in Server : status'[i] \in {status[i], CANDIDATE} /\ seen'[i] \in {seen[i], Unread}
    BY <1>1, <1>6 DEF FollowerTimeout, TypeOK
  <2>2. UNCHANGED <<current_term, allocated, holder>>
    BY <1>6 DEF FollowerTimeout
  <2>3. \A i \in Server : LeadsOn(i) /\ Acts(i)
    BY <2>1, <2>2 DEF LeadsOn, Acts, Replicating, LEADER, CANDIDATE
  <2> QED BY <1>3, <1>4, <2>3, NothingSent DEF LeaderStep
<1>7. CASE BeginVote(s)
  <2>1. /\ UNCHANGED <<status, allocated, seen>>
        /\ \A i \in Server \ {s} : current_term'[i] = current_term[i]
        /\ \A i \in Server : holder'[i] \in {holder[i], "RequestVote"}
        /\ status[s] # LEADER
    BY <1>1, <1>7 DEF BeginVote, Acquire, TypeOK, NotElectedYet
  <2>2. \A i \in Server : LeadsOn(i) /\ Acts(i)
    BY <2>1 DEF LeadsOn, Acts, Replicating
  <2> QED BY <1>3, <1>4, <2>2, NothingSent DEF LeaderStep
<1>8. CASE BeginHeartbeat(s)
  <2>1. /\ UNCHANGED <<electionVars, allocated, seen>>
        /\ \A i \in Server \ {s} : holder'[i] = holder[i]
        /\ seen[s] = LEADER
    BY <1>1, <1>8 DEF BeginHeartbeat, Acquire, TypeOK
  <2>2. \A i \in Server : LeadsOn(i) /\ Acts(i)
    BY <2>1 DEF LeadsOn, Acts, Replicating
  <2> QED BY <1>3, <1>4, <2>2, NothingSent DEF LeaderStep
<1> QED BY <1>5, <1>6, <1>7, <1>8 DEF TimeoutThread

LEMMA CountVoteStep ==
    ASSUME IInv, NEW s \in Server, NEW res \in RequestVoteResponses, CountVote(s, res), EndCall(s),
           holder[s] = "RequestVote"
    PROVE  LeaderStep
<1>1. TypeOK /\ UNCHANGED <<request, orphans>>
  BY DEF IInv, EndCall
<1>2. NoNewAppends
  BY <1>1 DEF NoNewAppends
<1>3. Release(s) => \A i \in Server : /\ seen'[i] \in {seen[i], Unread}
                                      /\ holder'[i] \in {holder[i], "free"}
  BY <1>1 DEF Release, TypeOK
<1>4. UNCHANGED threadVars => \A i \in Server : seen'[i] = seen[i] /\ holder'[i] = holder[i]
  BY DEF threadVars
<1>5. CASE Demote(s, res.current_term) /\ Release(s) /\ UNCHANGED leaderVars
  <2>1. /\ UNCHANGED <<leader_id, allocated>>
        /\ \A i \in Server \ {s} : current_term'[i] = current_term[i] /\ status'[i] = status[i]
        /\ status'[s] = FOLLOWER
    BY <1>1, <1>5 DEF Demote, TypeOK, leaderVars
  <2>2. \A i \in Server : LeadsOn(i) /\ Names(i) /\ Acts(i)
    BY <1>3, <1>5, <2>1 DEF LeadsOn, Names, Acts, Replicating, LEADER, FOLLOWER
  <2> QED BY <1>2, <2>2, NothingSent DEF LeaderStep
<1>6. CASE UNCHANGED <<status, leader_id, current_term, allocated, threadVars>>
  <2>1. \A i \in Server : LeadsOn(i) /\ Names(i) /\ Acts(i)
    BY <1>4, <1>6 DEF LeadsOn, Names, Acts, Replicating
  <2> QED BY <1>2, <2>1, NothingSent DEF LeaderStep
<1>7. CASE InitLeader(s) /\ Release(s) /\ UNCHANGED current_term /\ holder[s] = "RequestVote"
  <2>1. /\ \A i \in Server \ {s} : /\ status'[i] = status[i] /\ leader_id'[i] = leader_id[i]
                                   /\ allocated'[i] = allocated[i]
        /\ status'[s] = LEADER /\ leader_id'[s] = s /\ allocated'[s]
        /\ seen'[s] = Unread
    BY <1>1, <1>7 DEF InitLeader, Release, TypeOK
  <2>2. \A i \in Server : LeadsOn(i) /\ Names(i) /\ Acts(i)
    BY <1>3, <1>7, <2>1 DEF LeadsOn, Names, Acts, Replicating
  <2> QED BY <1>2, <2>2, NothingSent DEF LeaderStep
<1> QED BY <1>5, <1>6, <1>7 DEF CountVote, electionVars, leaderVars

LEMMA RequestVoteStep ==
    ASSUME IInv, NEW s \in Server, RequestVote(s)
    PROVE  LeaderStep
<1>1. TypeOK
  BY DEF IInv
<1>2. CASE \E j \in Server : CallVote(s, j)
  <2>1. PICK j \in Server : CallVote(s, j)
    BY <1>2
  <2>2. /\ UNCHANGED <<electionVars, allocated, seen, holder, orphans>>
        /\ request' = [request EXCEPT ![s] = IF j \in conn[s] THEN RequestVoteMessage(s) ELSE NoMsg]
    BY <2>1 DEF CallVote, StartCall, leaderVars
  <2>3. NoNewAppends
    <3>1. RequestVoteMessage(s).kind = "vote"
      BY DEF RequestVoteMessage
    <3>2. request \in [Server -> Requests \cup {NoMsg}]
      BY <1>1 DEF TypeOK
    <3> QED BY <2>2, <3>1, <3>2 DEF NoNewAppends
  <2> QED BY <2>2, <2>3, LoopStep
<1>3. CASE ReceiveVoteResponse(s)
  <2>1. reply[s] \in RequestVoteResponses
    BY <1>3, MessageKinds DEF ReceiveVoteResponse, Answered, IInv, TypeOK, CallsOK, ServerCallOK,
                              ReplyOK, Replicating
  <2> QED BY <1>3, <2>1, CountVoteStep DEF ReceiveVoteResponse
<1>4. CASE LoseVoteResponse(s)
  BY <1>4, GarbageResponseType, CountVoteStep DEF LoseVoteResponse
<1>5. CASE EndVote(s)
  <2>1. /\ UNCHANGED <<electionVars, allocated>> /\ NoNewAppends
        /\ \A i \in Server : seen'[i] \in {seen[i], Unread} /\ holder'[i] \in {holder[i], "free"}
    BY <1>1, <1>5 DEF EndVote, Release, TypeOK, leaderVars, rpcVars, NoNewAppends
  <2> QED BY <2>1, LoopStep
<1> QED BY <1>2, <1>3, <1>4, <1>5 DEF RequestVote

LEMMA ReplicateLogStep ==
    ASSUME IInv, NEW s \in Server, ReplicateLog(s)
    PROVE  LeaderStep
<1>1. TypeOK /\ LengthsWithinLog
  BY DEF IInv
<1>2. CASE \E j \in Server : CallAppend(s, j)
  <2>1. PICK j \in Server : CallAppend(s, j)
    BY <1>2
  <2>2. /\ UNCHANGED <<electionVars, allocated, seen, holder, orphans>>
        /\ request' = [request EXCEPT ![s] = IF j \in conn[s] THEN LogRequest(s, j) ELSE NoMsg]
        /\ Replicating(s)
    BY <2>1 DEF CallAppend, StartCall, leaderVars
  <2>3. \A i \in Server : LeadsOn(i) /\ Names(i) /\ Acts(i)
    BY <2>2 DEF LeadsOn, Names, Acts, Replicating, electionVars
  <2>4. ASSUME NEW m \in AppendsInFlight'
        PROVE  Sends(m)
    <3>1. LogRequest(s, j).leader_id = s
      BY DEF LogRequest
    <3>2. request \in [Server -> Requests \cup {NoMsg}]
      BY <1>1 DEF TypeOK
    <3>3. \A i \in Server : request'[i] \in {request[i], NoMsg, LogRequest(s, j)}
      BY <2>2, <3>2
    <3>4. m \in AppendsInFlight \/ m = LogRequest(s, j)
      BY <2>2, <3>3 DEF AppendsInFlight, InFlight, NoMsg
    <3> QED BY <2>2, <3>1, <3>4 DEF Sends
  <2> QED BY <2>3, <2>4 DEF LeaderStep
<1>3. CASE UNCHANGED <<electionVars, allocated, request, orphans, seen, holder>>
  BY <1>3, LoopStep DEF NoNewAppends
<1>4. CASE ReceiveHeartbeatResponse(s) \/ LoseLogResponse(s) \/ NextRound(s)
  BY <1>3, <1>4 DEF ReceiveHeartbeatResponse, LoseLogResponse, NextRound, KeepNode, EndCall,
                    leaderVars, threadVars, rpcVars
<1>5. CASE EndReplicate(s)
  <2>1. /\ UNCHANGED <<electionVars, allocated>> /\ NoNewAppends
        /\ \A i \in Server : seen'[i] \in {seen[i], Unread} /\ holder'[i] \in {holder[i], "free"}
    BY <1>1, <1>5 DEF EndReplicate, Release, TypeOK, leaderVars, rpcVars, NoNewAppends
  <2> QED BY <2>1, LoopStep
<1>6. CASE ReceiveLogResponse(s)
  <2>1. /\ UNCHANGED <<allocated, request, orphans>>
        /\ \/ KeepNode(s, TRUE) /\ UNCHANGED electionVars
           \/ Demote(s, reply[s].current_term) /\ Release(s)
    BY <1>6 DEF ReceiveLogResponse, EndCall
  <2>2. CASE KeepNode(s, TRUE) /\ UNCHANGED electionVars
    BY <1>3, <2>1, <2>2 DEF KeepNode
  <2>3. CASE Demote(s, reply[s].current_term) /\ Release(s)
    <3>1. /\ UNCHANGED leader_id
          /\ \A i \in Server \ {s} : current_term'[i] = current_term[i] /\ status'[i] = status[i]
          /\ status'[s] = FOLLOWER
          /\ \A i \in Server : seen'[i] \in {seen[i], Unread} /\ holder'[i] \in {holder[i], "free"}
      BY <1>1, <2>3 DEF Demote, Release, TypeOK
    <3>2. \A i \in Server : LeadsOn(i) /\ Names(i) /\ Acts(i)
      BY <2>1, <3>1 DEF LeadsOn, Names, Acts, Replicating, LEADER, FOLLOWER
    <3>3. NoNewAppends
      BY <2>1 DEF NoNewAppends
    <3> QED BY <3>2, <3>3, NothingSent DEF LeaderStep
  <2> QED BY <2>1, <2>2, <2>3
<1> QED BY <1>2, <1>4, <1>5, <1>6 DEF ReplicateLog

\* A vote request may end a reign, and does so when it changes the term.
LEMMA GetVoteResponseStep ==
    ASSUME IInv, NEW j \in Server, NEW m, GetVoteResponse(j, m), NoNewAppends
    PROVE  LeaderStep
<1> DEFINE higher == m.current_term > current_term[j]
<1>1. /\ current_term' = [current_term EXCEPT ![j] = IF higher THEN m.current_term ELSE @]
      /\ status' = [status EXCEPT ![j] = IF higher THEN FOLLOWER ELSE @]
      /\ UNCHANGED <<leader_id, allocated, seen, holder>>
  BY DEF GetVoteResponse, leaderVars, threadVars
<1>2. current_term \in [Server -> Nat] /\ status \in [Server -> {FOLLOWER, LEADER, CANDIDATE}]
  BY DEF IInv, TypeOK
<1> HIDE DEF higher
<1>3. \A i \in Server :
         \/ current_term'[i] = current_term[i] /\ status'[i] = status[i]
         \/ status'[i] = FOLLOWER
  BY <1>1, <1>2
<1>4. \A i \in Server : LeadsOn(i) /\ Names(i) /\ Acts(i)
  BY <1>1, <1>3 DEF LeadsOn, Names, Acts, Replicating, LEADER, FOLLOWER
<1> QED BY <1>4, NothingSent DEF LeaderStep

\* A log request names its sender as leader, and makes a follower of whoever accepts it.
LEMMA GetLogResponseStep ==
    ASSUME IInv, NEW j \in Server, NEW m \in AppendsInFlight, GetLogResponse(j, m), NoNewAppends
    PROVE  LeaderStep
<1>1. UNCHANGED <<allocated, seen, holder>>
  BY DEF GetLogResponse, leaderVars, threadVars
<1>2. /\ status \in [Server -> {FOLLOWER, LEADER, CANDIDATE}]
      /\ leader_id \in [Server -> Server \cup {NoServer}]
      /\ current_term \in [Server -> Nat]
  BY DEF IInv, TypeOK
<1>3. \A i \in Server :
         \/ status'[i] = FOLLOWER /\ leader_id'[i] = m.leader_id
         \/ status'[i] = status[i] /\ current_term'[i] = current_term[i] /\ leader_id'[i] = leader_id[i]
  <2>1. CASE Accepts(j, m)
    BY <1>2, <2>1 DEF GetLogResponse
  <2>2. CASE ~Accepts(j, m)
    BY <2>2 DEF GetLogResponse
  <2> QED BY <2>1, <2>2
<1>4. \A i \in Server : LeadsOn(i) /\ Names(i) /\ Acts(i)
  BY <1>1, <1>3 DEF LeadsOn, Names, Acts, Replicating, LEADER, FOLLOWER
<1> QED BY <1>4, NothingSent DEF LeaderStep

LEMMA ServerHandlerStep ==
    ASSUME IInv, NEW j \in Server, ServerHandler(j)
    PROVE  LeaderStep
<1>1. ASSUME NEW s \in Server, NEW res, Respond(s, res)
      PROVE  NoNewAppends
  BY <1>1 DEF Respond, NoNewAppends, IInv, TypeOK
<1>2. ASSUME NEW s \in Server, CandidateVoteHandler(j, s)
      PROVE  LeaderStep
  BY <1>1, <1>2, GetVoteResponseStep DEF CandidateVoteHandler
<1>3. ASSUME NEW s \in Server, AppendLogHandler(j, s)
      PROVE  LeaderStep
  <2>1. request[s] \in AppendsInFlight
    BY <1>3 DEF AppendLogHandler, AppendsInFlight, InFlight
  <2> QED BY <1>1, <1>3, <2>1, GetLogResponseStep DEF AppendLogHandler
<1>4. ASSUME NEW o \in orphans, HandleOrphan(j, o)
      PROVE  LeaderStep
  <2>1. NoNewAppends
    BY <1>4 DEF HandleOrphan, NoNewAppends
  <2>2. o.req.kind = "append" => o.req \in AppendsInFlight
    BY DEF AppendsInFlight, InFlight
  <2> QED BY <1>4, <2>1, <2>2, GetVoteResponseStep, GetLogResponseStep DEF HandleOrphan
<1>5. CASE GhostVote(j)
  BY <1>5, GetVoteResponseStep DEF GhostVote, rpcVars, NoNewAppends
<1> QED BY <1>2, <1>3, <1>4, <1>5 DEF ServerHandler

LEMMA BeginUpdateStep ==
    ASSUME IInv, NEW s \in Server, NEW k \in Key, NEW v \in Value, BeginUpdate(s, k, v)
    PROVE  LeaderStep
<1>1. /\ UNCHANGED <<electionVars, allocated, seen, request, orphans>>
      /\ \A i \in Server \ {s} : holder'[i] = holder[i]
      /\ allocated[s]
  BY DEF BeginUpdate, Acquire, rpcVars, IInv, TypeOK
<1>2. \A i \in Server : LeadsOn(i) /\ Names(i) /\ Acts(i)
  BY <1>1 DEF LeadsOn, Names, Acts, Replicating, electionVars
<1> QED BY <1>1, <1>2, NothingSent DEF LeaderStep, NoNewAppends

LEMMA DropLinkStep ==
    ASSUME IInv, NEW s \in Server, NEW j \in Server, DropLink(s, j)
    PROVE  LeaderStep
<1>1. /\ UNCHANGED <<electionVars, leaderVars, threadVars>>
      /\ request' \in {request, [request EXCEPT ![s] = NoMsg]}
      /\ \/ orphans' = orphans
         \/ orphans' = orphans \cup {[to |-> j, req |-> request[s]]}
  BY DEF DropLink
<1>2. \A i \in Server : request'[i] \in {request[i], NoMsg}
  BY <1>1 DEF IInv, TypeOK
<1>3. \A o \in orphans' : o \in orphans \/ \E i \in Server : o.req = request[i]
  BY <1>1
<1>4. NoNewAppends
  BY <1>2, <1>3 DEF NoNewAppends
<1> QED BY <1>1, <1>4, LoopStep DEF leaderVars, threadVars

LEMMA NextLeaderStep ==
    ASSUME IInv, NotElectedYet, [Next]_vars
    PROVE  LeaderStep
<1>1. CASE UNCHANGED vars
  BY <1>1, LoopStep DEF vars, leaderVars, threadVars, rpcVars, NoNewAppends
<1> QED BY <1>1, TimeoutThreadStep, RequestVoteStep, ReplicateLogStep, ServerHandlerStep,
           BeginUpdateStep, DropLinkStep DEF Next, LeaderThread

LEMMA NextNotElected ==
    ASSUME IInv, NotElectedYet, [Next]_vars
    PROVE  NotElectedYet'
<1>1. \A i \in Server : LeadsOn(i) /\ Acts(i)
  BY NextLeaderStep DEF LeaderStep
<1> QED BY <1>1 DEF NotElectedYet, LeadsOn, Acts, Unread, LEADER, CANDIDATE

-----------------------------------------------------------------------------
(* The invariant. *)

LEMMA InitLeaderInv == Init => LeaderInv
<1>1. Init => IInv
  BY InitIInv
<1> QED BY <1>1 DEF Init, LeaderInv, LeaderIdInitialised, Reigned, NotElectedYet, Replicating,
                    AppendsInFlight, InFlight, NoMsg, FOLLOWER, LEADER, CANDIDATE, Unread

LEMMA NextLeaderInv == LeaderInv /\ [Next]_vars => LeaderInv'
<1> SUFFICES ASSUME LeaderInv, [Next]_vars PROVE LeaderInv'
  OBVIOUS
<1>1. IInv /\ IInv' /\ LeaderStep /\ TypeOK
  BY NextIInv, NextLeaderStep DEF LeaderInv, IInv
<1>2. \A i \in Server : LeadsOn(i) /\ Names(i) /\ Acts(i)
  BY <1>1 DEF LeaderStep
<1>3. \A m \in AppendsInFlight : m.leader_id \in Server
  BY <1>1, MessageKinds DEF AppendsInFlight, InFlight, TypeOK, LogRequests
<1>4. LeaderIdInitialised'
  <2> SUFFICES ASSUME NEW i \in Server, leader_id'[i] # NoServer
               PROVE  allocated'[leader_id'[i]]
    BY DEF LeaderIdInitialised
  <2>1. CASE leader_id'[i] = leader_id[i]
    <3>1. leader_id[i] \in Server /\ allocated[leader_id[i]]
      BY <1>1, <2>1 DEF LeaderInv, LeaderIdInitialised, TypeOK
    <3> QED BY <1>2, <2>1, <3>1 DEF LeadsOn
  <2>2. CASE leader_id'[i] = i /\ allocated'[i]
    BY <2>2
  <2>3. CASE \E m \in AppendsInFlight : leader_id'[i] = m.leader_id
    <3>1. leader_id'[i] \in Server /\ allocated[leader_id'[i]]
      BY <1>3, <2>3 DEF LeaderInv, Reigned
    <3> QED BY <1>2, <3>1 DEF LeadsOn
  <2> QED BY <1>2, <2>1, <2>2, <2>3 DEF Names
<1>5. Reigned'
  <2>1. \A i \in Server : status'[i] = LEADER => allocated'[i]
    BY <1>2 DEF LeaderInv, Reigned, LeadsOn
  <2>2. \A i \in Server : seen'[i] = LEADER => allocated'[i]
    BY <1>2 DEF LeaderInv, Reigned, LeadsOn, Acts, Unread, LEADER
  <2>3. \A i \in Server : Replicating(i)' => allocated'[i]
    BY <1>2 DEF LeaderInv, Reigned, LeadsOn, Acts
  <2>4. \A m \in AppendsInFlight' : allocated'[m.leader_id]
    BY <1>1, <1>2, <1>3 DEF LeaderInv, Reigned, LeaderStep, Sends, LeadsOn
  <2> QED BY <2>1, <2>2, <2>3, <2>4 DEF Reigned
<1>6. NotElectedYet'
  BY NextNotElected DEF LeaderInv
<1> QED BY <1>1, <1>4, <1>5, <1>6 DEF LeaderInv

LEMMA LeaderInvariant == Spec => []LeaderInv
<1>1. Init => LeaderInv
  BY InitLeaderInv
<1>2. LeaderInv /\ [Next]_vars => LeaderInv'
  BY NextLeaderInv
<1> QED BY <1>1, <1>2, PTL DEF Spec

-----------------------------------------------------------------------------

\* Whoever a server names as leader has made its leader arrays: an update sent there
\* finds them.
THEOREM LeadersAreInitialised == Spec => []LeaderIdInitialised
<1>1. LeaderInv => LeaderIdInitialised
  BY DEF LeaderInv
<1> QED BY <1>1, LeaderInvariant, PTL

\* No request, response or stale thread changes the term of a server that stays leader.
THEOREM LeadersKeepTheirTerm == Spec => LeaderKeepsTerm
<1>1. LeaderInv /\ [Next]_vars =>
        [\A s \in Server :
           status[s] = LEADER /\ status'[s] = LEADER => current_term'[s] = current_term[s]]_vars
  BY NextLeaderStep DEF LeaderInv, LeaderStep, LeadsOn
<1> QED BY <1>1, LeaderInvariant, PTL DEF Spec, LeaderKeepsTerm

=============================================================================

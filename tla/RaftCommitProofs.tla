-------------------------- MODULE RaftCommitProofs --------------------------
(* What a server commits is held by a majority, for every cluster: from    *)
(* the acknowledgement a follower gives, to the leader's count of it, to   *)
(* the commit length the leader announces, to the follower that executes.  *)
EXTENDS RaftProofs

\* An acknowledgement on its way counts entries the follower has.  The response to a
\* heartbeat says one more than that, and is the one the leader does not look at.
ReplyHeld(s) ==
    reply[s].kind = "append" /\ reply[s].success /\ ~IsHeartbeatTo(s, callee[s]) =>
        reply[s].ack <= LogSize(callee[s])

AckInv == AckedLengthHeld /\ \A s \in Server : ReplyHeld(s)

CommitInv == IInv /\ AckInv /\ CommittedOnMajority

-----------------------------------------------------------------------------
(* What one step may do to the logs, the acknowledgements and the commits. *)

Grows(i) == smr_log'[i] = smr_log[i] \/ \E op \in Ops : smr_log'[i] = Append(smr_log[i], op)

\* A server commits what the acknowledgements it counted or the request it handled allow.
Commits(i) ==
    /\ commit_length[i] <= commit_length'[i]
    /\ \/ commit_length'[i] = commit_length[i]
       \/ AckedByMajority(ack_length'[i], commit_length'[i])
       \/ \E m \in AppendsInFlight : commit_length'[i] <= m.commit_length

Announced(m) == m \in AppendsInFlight \/ \E i \in Server : m.commit_length = commit_length[i]

Progress ==
    /\ \A i \in Server : Grows(i) /\ Commits(i) /\ ReplyHeld(i)'
    /\ \A i, k \in Server :
         ack_length'[i][k] = ack_length[i][k] \/ ack_length'[i][k] <= LogSize(k)'
    /\ \A m \in AppendsInFlight' : Announced(m)

\* A step that appends, acknowledges and commits nothing.
Quiet ==
    /\ UNCHANGED <<smr_log, commit_length>>
    /\ \A i, k \in Server : ack_length'[i][k] \in {ack_length[i][k], 0}
    /\ \A i \in Server :
         \/ reply'[i] = NoMsg
         \/ reply'[i] = reply[i] /\ callee'[i] = callee[i] /\ sent_length'[i] = sent_length[i]
    /\ \A i \in Server :
         \/ request'[i] \in {request[i], NoMsg}
         \/ request'[i].kind = "vote"
         \/ request'[i].commit_length = commit_length[i]
    /\ \A o \in orphans' : o \in orphans \/ \E i \in Server : o.req = request[i]

LEMMA QuietProgress ==
    ASSUME IInv, AckInv, Quiet
    PROVE  Progress
<1>1. \A i \in Server : LogSize(i) \in Nat /\ commit_length[i] \in Nat
  BY DEF IInv, TypeOK, LogSize
<1>2. \A i \in Server : Grows(i) /\ Commits(i)
  BY <1>1 DEF Quiet, Grows, Commits
<1>3. \A i \in Server : ReplyHeld(i)'
  BY DEF Quiet, AckInv, ReplyHeld, IsHeartbeatTo, LogSize, NoMsg
<1>4. \A i, k \in Server :
         ack_length'[i][k] = ack_length[i][k] \/ ack_length'[i][k] <= LogSize(k)'
  BY <1>1 DEF Quiet, LogSize
<1>5. \A m \in AppendsInFlight' : Announced(m)
  <2> SUFFICES ASSUME NEW m \in AppendsInFlight'
               PROVE  Announced(m)
    OBVIOUS
  <2>1. CASE \E i \in Server : m = request'[i]
    BY <2>1 DEF Quiet, AppendsInFlight, InFlight, Announced, NoMsg
  <2>2. CASE \E o \in orphans' : m = o.req
    BY <2>2 DEF Quiet, AppendsInFlight, InFlight, Announced
  <2> QED BY <2>1, <2>2 DEF AppendsInFlight, InFlight
<1> QED BY <1>2, <1>3, <1>4, <1>5 DEF Progress

-----------------------------------------------------------------------------
(* The quiet steps. *)

LEMMA TimeoutThreadQuiet ==
    ASSUME IInv, NEW s \in Server, TimeoutThread(s)
    PROVE  Quiet
<1> USE DEF electionVars, logVars, leaderVars, connVars, netVars, loopVars, rpcVars
<1>1. UNCHANGED <<smr_log, commit_length, ack_length, reply, callee, sent_length, request, orphans>>
  BY DEF TimeoutThread, ReadStatus, FollowerTimeout, BeginVote, BeginHeartbeat
<1> QED BY <1>1 DEF Quiet

\* The step that makes or ends a call, of either kind, changes no log.
LEMMA CallQuiet ==
    ASSUME IInv, NEW s \in Server, NEW j \in Server, CallVote(s, j) \/ CallAppend(s, j)
    PROVE  Quiet
<1>1. /\ UNCHANGED <<smr_log, commit_length, ack_length, sent_length, reply, orphans>>
      /\ callee[s] = NoServer
      /\ callee' = [callee EXCEPT ![s] = j]
  BY DEF CallVote, CallAppend, StartCall, logVars, leaderVars
<1>2. reply[s] = NoMsg
  BY <1>1 DEF IInv, CallsOK, ServerCallOK, CallOK
<1>3. PICK m : /\ m.kind = "vote" \/ m.commit_length = commit_length[s]
               /\ request' = [request EXCEPT ![s] = IF j \in conn[s] THEN m ELSE NoMsg]
  <2>1. /\ RequestVoteMessage(s).kind = "vote"
        /\ LogRequest(s, j).commit_length = commit_length[s]
    BY DEF RequestVoteMessage, LogRequest
  <2>2. \/ request' = [request EXCEPT ![s] = IF j \in conn[s] THEN RequestVoteMessage(s) ELSE NoMsg]
        \/ request' = [request EXCEPT ![s] = IF j \in conn[s] THEN LogRequest(s, j) ELSE NoMsg]
    BY DEF CallVote, CallAppend, StartCall
  <2> QED BY <2>1, <2>2
<1>4. callee \in [Server -> Server \cup {NoServer}] /\ request \in [Server -> Requests \cup {NoMsg}]
  BY DEF IInv, TypeOK
<1> QED BY <1>1, <1>2, <1>3, <1>4 DEF Quiet

LEMMA EndCallQuiet ==
    ASSUME IInv, NEW s \in Server, EndCall(s), UNCHANGED logVars,
           \A i, k \in Server : ack_length'[i][k] \in {ack_length[i][k], 0},
           \A i \in Server \ {s} : sent_length'[i] = sent_length[i]
    PROVE  Quiet
BY DEF Quiet, EndCall, logVars, IInv, TypeOK

LEMMA RequestVoteQuiet ==
    ASSUME IInv, NEW s \in Server, RequestVote(s)
    PROVE  Quiet
<1>1. CASE \E j \in Server : CallVote(s, j)
  BY <1>1, CallQuiet
<1>2. ASSUME NEW res \in RequestVoteResponses, CountVote(s, res), EndCall(s),
             UNCHANGED <<logVars, connVars, netVars>>
      PROVE  Quiet
  BY <1>2, CountVoteOutcome, EndCallQuiet DEF IInv
<1>3. CASE ReceiveVoteResponse(s)
  <2>1. reply[s] \in RequestVoteResponses
    BY <1>3, MessageKinds DEF ReceiveVoteResponse, Answered, IInv, TypeOK, CallsOK, ServerCallOK,
                              ReplyOK, Replicating
  <2> QED BY <1>2, <1>3, <2>1 DEF ReceiveVoteResponse
<1>4. CASE LoseVoteResponse(s)
  BY <1>2, <1>4, GarbageResponseType DEF LoseVoteResponse
<1>5. CASE EndVote(s)
  BY <1>5 DEF EndVote, Quiet, logVars, leaderVars, rpcVars
<1> QED BY <1>1, <1>3, <1>4, <1>5 DEF RequestVote

LEMMA DropLinkQuiet ==
    ASSUME IInv, NEW s \in Server, NEW j \in Server, DropLink(s, j)
    PROVE  Quiet
<1>1. /\ UNCHANGED <<smr_log, commit_length, ack_length, sent_length, callee>>
      /\ request' \in {request, [request EXCEPT ![s] = NoMsg]}
      /\ reply' \in {reply, [reply EXCEPT ![s] = NoMsg]}
      /\ \/ orphans' = orphans
         \/ orphans' = orphans \cup {[to |-> j, req |-> request[s]]}
  BY DEF DropLink, logVars, leaderVars
<1>2. request \in [Server -> Requests \cup {NoMsg}] /\ reply \in [Server -> Replies \cup {NoMsg}]
  BY DEF IInv, TypeOK
<1> QED BY <1>1, <1>2 DEF Quiet

-----------------------------------------------------------------------------
(* The other steps. *)

\* An acknowledgement stays true while other logs grow.
LEMMA ReplyHeldKept ==
    ASSUME IInv, AckInv, NEW i \in Server,
           reply'[i] = reply[i], callee'[i] = callee[i], sent_length'[i] = sent_length[i],
           smr_log'[i] = smr_log[i],
           \A k \in Server : LogSize(k) \in Nat /\ LogSize(k)' \in Nat /\ LogSize(k)' >= LogSize(k)
    PROVE  ReplyHeld(i)'
<1>1. CASE reply[i].kind # "append"
  BY <1>1 DEF ReplyHeld
<1>2. CASE reply[i].kind = "append"
  <2>1. reply[i] \in LogResponses /\ callee[i] \in Server
    BY <1>2, MessageKinds DEF IInv, TypeOK, CallsOK, ServerCallOK, CallOK
  <2>2. reply[i].ack \in Nat
    BY <2>1 DEF LogResponses
  <2>3. reply[i].success /\ ~IsHeartbeatTo(i, callee[i]) => reply[i].ack <= LogSize(callee[i])
    BY <1>2 DEF AckInv, ReplyHeld
  <2>4. reply[i].success /\ ~IsHeartbeatTo(i, callee[i]) => reply[i].ack <= LogSize(callee[i])'
    BY <2>1, <2>2, <2>3
  <2> QED BY <2>4 DEF ReplyHeld, IsHeartbeatTo, LogSize
<1> QED BY <1>1, <1>2

LEMMA BeginUpdateProgress ==
    ASSUME IInv, AckInv, NEW s \in Server, NEW k \in Key, NEW v \in Value, BeginUpdate(s, k, v)
    PROVE  Progress
<1> DEFINE op == [term |-> current_term[s], arg1 |-> k, arg2 |-> v]
<1>1. /\ smr_log' = [smr_log EXCEPT ![s] = Append(smr_log[s], op)]
      /\ ack_length' = [ack_length EXCEPT ![s][s] = LogSize(s) + 1]
      /\ UNCHANGED <<commit_length, sent_length, callee, request, reply, orphans>>
      /\ holder[s] = "free"
  BY DEF BeginUpdate, Acquire, rpcVars
<1>2. /\ smr_log \in [Server -> Seq(Ops)] /\ commit_length \in [Server -> Nat]
      /\ ack_length \in [Server -> [Server -> Nat]]
      /\ \A i \in Server : callee[i] \in Server \cup {NoServer}
      /\ op \in Ops
  BY DEF IInv, TypeOK, Ops
<1> HIDE DEF op
<1>3. \A i \in Server : Grows(i) /\ Commits(i)
  <2>1. \A i \in Server : smr_log'[i] = IF i = s THEN Append(smr_log[i], op) ELSE smr_log[i]
    BY <1>1, <1>2
  <2>2. \A i \in Server : commit_length[i] \in Nat /\ commit_length'[i] = commit_length[i]
    BY <1>1, <1>2
  <2>3. op \in Ops
    BY <1>2
  <2>4. \A i \in Server : Grows(i)
    BY <2>1, <2>3, Zenon DEF Grows
  <2>5. \A i \in Server : Commits(i)
    <3>1. \A i \in Server : commit_length[i] <= commit_length[i]
      BY <2>2
    <3> QED BY <2>2, <3>1, Zenon DEF Commits
  <2> QED BY <2>4, <2>5
<1>4. \A i \in Server : LogSize(i) \in Nat /\ LogSize(i)' \in Nat /\ LogSize(i)' >= LogSize(i)
  BY <1>1, <1>2 DEF LogSize
<1>5. LogSize(s)' = LogSize(s) + 1
  BY <1>1, <1>2 DEF LogSize
<1>6. \A i, j \in Server :
         ack_length'[i][j] = ack_length[i][j] \/ ack_length'[i][j] <= LogSize(j)'
  <2> SUFFICES ASSUME NEW i \in Server, NEW j \in Server
               PROVE  ack_length'[i][j] = ack_length[i][j] \/ ack_length'[i][j] <= LogSize(j)'
    OBVIOUS
  <2>1. CASE i = s /\ j = s
    BY <1>1, <1>2, <1>4, <1>5, <2>1 DEF LogSize
  <2>2. CASE ~(i = s /\ j = s)
    BY <1>1, <1>2, <2>2
  <2> QED BY <2>1, <2>2
<1>7. ASSUME NEW i \in Server
      PROVE  ReplyHeld(i)'
  <2>1. CASE i = s
    BY <1>1, <2>1 DEF IInv, CallsOK, ServerCallOK, CallOK, ReplyHeld, NoMsg
  <2>2. CASE i # s
    <3>1. smr_log'[i] = smr_log[i]
      BY <1>1, <1>2, <2>2
    <3> QED BY <1>1, <1>4, <3>1, ReplyHeldKept
  <2> QED BY <2>1, <2>2
<1>8. \A m \in AppendsInFlight' : Announced(m)
  BY <1>1 DEF AppendsInFlight, InFlight, Announced
<1> QED BY <1>3, <1>6, <1>7, <1>8 DEF Progress

LEMMA ReplicateLogProgress ==
    ASSUME IInv, AckInv, NEW s \in Server, ReplicateLog(s)
    PROVE  Progress
<1>1. CASE \E j \in Server : CallAppend(s, j)
  BY <1>1, CallQuiet, QuietProgress
<1>2. CASE ReceiveHeartbeatResponse(s)
  <2>1. EndCall(s) /\ UNCHANGED <<logVars, ack_length, sent_length>>
    BY <1>2 DEF ReceiveHeartbeatResponse, leaderVars
  <2> QED BY <2>1, EndCallQuiet, QuietProgress
<1>3. CASE LoseLogResponse(s)
  <2>1. /\ EndCall(s) /\ UNCHANGED logVars
        /\ ack_length' = [ack_length EXCEPT ![s][callee[s]] = 0]
        /\ sent_length' = [sent_length EXCEPT ![s][callee[s]] = 0]
    BY <1>3 DEF LoseLogResponse
  <2>2. /\ ack_length \in [Server -> [Server -> Nat]]
        /\ sent_length \in [Server -> [Server -> Nat]]
    BY DEF IInv, TypeOK
  <2>3. /\ \A i, k \in Server : ack_length'[i][k] \in {ack_length[i][k], 0}
        /\ \A i \in Server \ {s} : sent_length'[i] = sent_length[i]
    BY <2>1, <2>2
  <2> QED BY <2>1, <2>3, EndCallQuiet, QuietProgress
<1>4. CASE NextRound(s) \/ EndReplicate(s)
  <2>1. Quiet
    BY <1>4 DEF NextRound, EndReplicate, Quiet, logVars, leaderVars, rpcVars
  <2> QED BY <2>1, QuietProgress
<1>5. CASE ReceiveLogResponse(s)
  <2>1. CASE UNCHANGED <<sent_length, ack_length, logVars>>
    BY <1>5, <2>1, EndCallQuiet, QuietProgress DEF ReceiveLogResponse
  <2>2. CASE RecordResponse(s, callee[s], reply[s])
    <3> DEFINE j == callee[s]
               res == reply[s]
    <3>1. /\ TypeOK /\ LengthsWithinLog /\ Replicating(s) /\ Answered(s) /\ EndCall(s)
          /\ ~IsHeartbeatTo(s, j)
      BY <1>5 DEF ReceiveLogResponse, IInv
    <3>2. /\ j \in Server /\ res \in LogResponses
          /\ res.success => res.ack = sent_length[s][j] + 1
      BY <3>1, LogResponseReceived
    <3>3. res.success => res.ack <= LogSize(s) /\ res.ack <= LogSize(j)
      <4>1. sent_length[s][j] \in Nat /\ sent_length[s][j] <= LogSize(s) /\ LogSize(s) \in Nat
        BY <3>1, <3>2 DEF TypeOK, LengthsWithinLog, LogSize
      <4>2. res.kind = "append"
        BY <3>2 DEF LogResponses
      <4>3. res.success => res.ack <= LogSize(j)
        BY <3>1, <4>2 DEF AckInv, ReplyHeld
      <4>4. sent_length[s][j] # LogSize(s)
        BY <3>1 DEF IsHeartbeatTo
      <4> HIDE DEF j, res
      <4> QED BY <3>2, <4>1, <4>3, <4>4
    <3>4. /\ UNCHANGED smr_log
          /\ \A i \in Server \ {s} :
               commit_length'[i] = commit_length[i] /\ sent_length'[i] = sent_length[i]
          /\ \A i, k \in Server :
               \/ ack_length'[i][k] = ack_length[i][k]
               \/ i = s /\ k = j /\ res.success /\ ack_length'[i][k] = res.ack
          /\ commit_length[s] <= commit_length'[s]
          /\ \/ commit_length'[s] = commit_length[s]
             \/ AckedByMajority(ack_length'[s], commit_length'[s])
      BY <2>2, <3>1, <3>2, <3>3, RecordResponseOutcome
    <3>5. \A i \in Server : commit_length[i] \in Nat
      BY <3>1 DEF TypeOK
    <3>6. /\ \A i \in Server \ {s} : reply'[i] = reply[i] /\ callee'[i] = callee[i]
          /\ reply'[s] = NoMsg /\ UNCHANGED <<request, orphans>>
      BY <3>1 DEF EndCall, TypeOK
    <3>7. \A i \in Server : Grows(i) /\ Commits(i)
      BY <3>4, <3>5 DEF Grows, Commits
    <3>8. \A i \in Server : ReplyHeld(i)'
      BY <3>4, <3>6 DEF AckInv, ReplyHeld, IsHeartbeatTo, LogSize, NoMsg
    <3>9. \A i, k \in Server :
             ack_length'[i][k] = ack_length[i][k] \/ ack_length'[i][k] <= LogSize(k)'
      BY <3>3, <3>4 DEF LogSize
    <3>10. \A m \in AppendsInFlight' : Announced(m)
      BY <3>6 DEF AppendsInFlight, InFlight, Announced
    <3> QED BY <3>7, <3>8, <3>9, <3>10 DEF Progress
  <2> QED BY <1>5, <2>1, <2>2 DEF ReceiveLogResponse
<1> QED BY <1>1, <1>2, <1>3, <1>4, <1>5 DEF ReplicateLog

LEMMA HandledProgress ==
    ASSUME IInv, AckInv, NEW j \in Server, holder[j] = "free", Handled(j), Commits(j),
           \A i \in Server : request'[i] \in {request[i], NoMsg},
           orphans' \subseteq orphans, UNCHANGED callee,
           \A i \in Server : reply'[i] = reply[i] \/ ReplyHeld(i)'
    PROVE  Progress
<1>1. /\ UNCHANGED <<sent_length, ack_length>>
      /\ \A i \in Server \ {j} : smr_log'[i] = smr_log[i] /\ commit_length'[i] = commit_length[i]
  BY DEF Handled, leaderVars
<1>2. \A i \in Server : Grows(i)
  BY DEF Handled, Grows
<1>3. \A i \in Server : smr_log[i] \in Seq(Ops) /\ commit_length[i] \in Nat
  BY DEF IInv, TypeOK
<1>4. \A i \in Server : LogSize(i) \in Nat /\ LogSize(i)' \in Nat /\ LogSize(i)' >= LogSize(i)
  BY <1>2, <1>3 DEF Grows, LogSize
<1>5. \A i \in Server : Commits(i)
  BY <1>1, <1>3 DEF Commits
<1>6. ASSUME NEW i \in Server
      PROVE  ReplyHeld(i)'
  <2>1. CASE i = j /\ reply'[i] = reply[i]
    BY <2>1 DEF IInv, CallsOK, ServerCallOK, CallOK, ReplyHeld, NoMsg
  <2>2. CASE i # j /\ reply'[i] = reply[i]
    BY <1>1, <1>4, <2>2, ReplyHeldKept
  <2> QED BY <2>1, <2>2
<1>7. \A m \in AppendsInFlight' : Announced(m)
  BY DEF AppendsInFlight, InFlight, Announced, NoMsg
<1> QED BY <1>1, <1>2, <1>5, <1>6, <1>7 DEF Progress

LEMMA LogHandledCommits ==
    ASSUME IInv, NEW j \in Server, NEW m \in AppendsInFlight, GetLogResponse(j, m)
    PROVE  /\ m \in LogRequests /\ Handled(j) /\ Commits(j)
           /\ Succeeds(j, m) /\ m.op # NoOp => LogSize(j)' >= m.prefix_length + 1
<1>1. TypeOK /\ LengthsWithinLog /\ CallsOK
  BY DEF IInv
<1>2. m \in Requests \cup {NoMsg} /\ m.kind = "append" /\ HeartbeatOK(m)
  BY <1>1 DEF AppendsInFlight, InFlight, TypeOK, CallsOK, ServerCallOK
<1>3. m \in LogRequests
  BY <1>2, MessageKinds
<1>4. StoreLog(j, m)
  BY DEF GetLogResponse
<1>5. Handled(j)
  BY <1>1, <1>2, <1>3, LogHandled
<1>6. Commits(j)
  BY <1>1, <1>2, <1>3, <1>4, StoreLogOutcome DEF Commits
<1> QED BY <1>1, <1>2, <1>3, <1>4, <1>5, <1>6, StoreLogOutcome

LEMMA VoteHandledCommits ==
    ASSUME IInv, NEW j \in Server, NEW m, m.current_term \in Nat,
           m.id \in Server \cup {NoServer}, GetVoteResponse(j, m)
    PROVE  Handled(j) /\ Commits(j)
<1>1. Handled(j) /\ UNCHANGED logVars
  BY VoteHandled DEF IInv
<1> QED BY <1>1 DEF Commits, Handled, logVars

LEMMA ServerHandlerProgress ==
    ASSUME IInv, AckInv, NEW j \in Server, ServerHandler(j)
    PROVE  Progress
<1>1. ASSUME NEW s \in Server, CandidateVoteHandler(j, s)
      PROVE  Progress
  <2> DEFINE m == request[s]
  <2>1. /\ GetVoteResponse(j, m) /\ holder[j] = "free"
        /\ m \in RequestVoteMessages
    BY <1>1, MessageKinds DEF CandidateVoteHandler, IInv, TypeOK
  <2>2. Handled(j) /\ Commits(j)
    BY <2>1, VoteHandledCommits DEF RequestVoteMessages
  <2>3. PICK res : /\ res.kind = "vote"
                   /\ request' = [request EXCEPT ![s] = NoMsg]
                   /\ reply' = [reply EXCEPT ![s] = res]
                   /\ UNCHANGED <<callee, orphans>>
    BY <1>1 DEF CandidateVoteHandler, Respond, VoteResponse
  <2>4. request \in [Server -> Requests \cup {NoMsg}] /\ reply \in [Server -> Replies \cup {NoMsg}]
    BY DEF IInv, TypeOK
  <2>5. \A i \in Server : request'[i] \in {request[i], NoMsg}
    BY <2>3, <2>4
  <2>6. \A i \in Server : reply'[i] = reply[i] \/ ReplyHeld(i)'
    BY <2>3, <2>4 DEF ReplyHeld
  <2> QED BY <2>1, <2>2, <2>3, <2>5, <2>6, HandledProgress
<1>2. ASSUME NEW s \in Server, AppendLogHandler(j, s)
      PROVE  Progress
  <2> DEFINE m == request[s]
             res == LogResponse(j, m, current_term'[j])
  <2>1. /\ GetLogResponse(j, m) /\ holder[j] = "free" /\ callee[s] = j /\ m.kind = "append"
        /\ request' = [request EXCEPT ![s] = NoMsg]
        /\ reply' = [reply EXCEPT ![s] = res]
        /\ UNCHANGED <<callee, orphans>>
    BY <1>2 DEF AppendLogHandler, Respond
  <2>2. m \in AppendsInFlight
    BY <2>1 DEF AppendsInFlight, InFlight
  <2>3. /\ m \in LogRequests /\ Handled(j) /\ Commits(j)
        /\ Succeeds(j, m) /\ m.op # NoOp => LogSize(j)' >= m.prefix_length + 1
    BY <2>1, <2>2, LogHandledCommits
  <2>4. request \in [Server -> Requests \cup {NoMsg}] /\ reply \in [Server -> Replies \cup {NoMsg}]
    BY DEF IInv, TypeOK
  <2>5. \A i \in Server : request'[i] \in {request[i], NoMsg}
    BY <2>1, <2>4
  <2>6. ReplyHeld(s)'
    <3>1. s # j
      BY <2>1, ServerAssumption DEF IInv, CallsOK, ServerCallOK, CallOK
    <3>2. IsHeartbeatTo(s, j)' <=> IsHeartbeatTo(s, j)
      BY <2>3, <3>1 DEF Handled, leaderVars, IsHeartbeatTo, LogSize
    <3>3. m.op = NoOp <=> IsHeartbeatTo(s, j)
      BY <2>1 DEF IInv, CallsOK, ServerCallOK, RequestOK
    <3>4. /\ reply'[s] = res /\ callee'[s] = j
          /\ res.success = Succeeds(j, m)
          /\ Succeeds(j, m) => res.ack = m.prefix_length + 1
      BY <2>1, <2>4 DEF LogResponse
    <3>5. m.prefix_length \in Nat /\ LogSize(j)' \in Nat
      BY <2>3 DEF LogRequests, Handled, LogTypes, LogSize
    <3>6. res.success /\ ~IsHeartbeatTo(s, j)' => res.ack <= LogSize(j)'
      BY <2>3, <3>2, <3>3, <3>4, <3>5
    <3> HIDE DEF res
    <3> QED BY <3>4, <3>6 DEF ReplyHeld, IsHeartbeatTo, LogSize
  <2>7. \A i \in Server : reply'[i] = reply[i] \/ ReplyHeld(i)'
    BY <2>1, <2>4, <2>6
  <2> QED BY <2>1, <2>3, <2>5, <2>7, HandledProgress
<1>3. ASSUME NEW o \in orphans, HandleOrphan(j, o)
      PROVE  Progress
  <2>1. /\ o.req \in Requests /\ holder[j] = "free" /\ orphans' \subseteq orphans
        /\ UNCHANGED <<callee, request, reply>>
    BY <1>3 DEF HandleOrphan, IInv, TypeOK
  <2>2. CASE o.req.kind = "vote" /\ GetVoteResponse(j, o.req)
    <3>1. o.req.current_term \in Nat /\ o.req.id \in Server \cup {NoServer}
      BY <2>1, <2>2, MessageKinds DEF RequestVoteMessages
    <3> QED BY <2>1, <2>2, <3>1, VoteHandledCommits, HandledProgress
  <2>3. CASE o.req.kind = "append" /\ GetLogResponse(j, o.req)
    <3>1. o.req \in AppendsInFlight
      BY <2>3 DEF AppendsInFlight, InFlight
    <3> QED BY <2>1, <2>3, <3>1, LogHandledCommits, HandledProgress
  <2> QED BY <1>3, <2>2, <2>3 DEF HandleOrphan
<1>4. CASE GhostVote(j)
  <2>1. PICK id \in Server \cup {NoServer}, term \in GarbageTerms :
            GetVoteResponse(j, [kind |-> "vote", id |-> id, current_term |-> term])
    BY <1>4 DEF GhostVote
  <2>2. Handled(j) /\ Commits(j)
    BY <2>1, GarbageAssumption, VoteHandledCommits
  <2> QED BY <1>4, <2>2, HandledProgress DEF GhostVote, rpcVars
<1> QED BY <1>1, <1>2, <1>3, <1>4 DEF ServerHandler

LEMMA NextProgress ==
    ASSUME IInv, AckInv, [Next]_vars
    PROVE  Progress
<1>1. CASE UNCHANGED vars
  <2>1. Quiet
    BY <1>1 DEF vars, logVars, leaderVars, rpcVars, Quiet
  <2> QED BY <2>1, QuietProgress
<1>2. CASE \E s \in Server : TimeoutThread(s) \/ RequestVote(s)
  BY <1>2, TimeoutThreadQuiet, RequestVoteQuiet, QuietProgress
<1>3. CASE \E s, j \in Server : DropLink(s, j)
  BY <1>3, DropLinkQuiet, QuietProgress
<1>4. CASE \E s \in Server : ReplicateLog(s)
  BY <1>4, ReplicateLogProgress
<1>5. CASE \E s \in Server : ServerHandler(s)
  BY <1>5, ServerHandlerProgress
<1>6. CASE \E s \in Server : LeaderThread(s)
  BY <1>6, BeginUpdateProgress DEF LeaderThread
<1> QED BY <1>1, <1>2, <1>3, <1>4, <1>5, <1>6 DEF Next

-----------------------------------------------------------------------------
(* The invariant. *)

\* MajorityHolds of the state a step leads to.
MajorityWillHold(n) ==
    Cardinality({j \in Server : Len(smr_log'[j]) >= n}) * 2 > Cardinality(Server)

\* What a majority holds it keeps, and it holds everything shorter.
LEMMA MajorityKept ==
    ASSUME NEW n \in Nat, NEW n2 \in Nat, n2 <= n, MajorityHolds(n),
           \A i \in Server : LogSize(i) \in Nat /\ LogSize(i)' \in Nat /\ LogSize(i)' >= LogSize(i)
    PROVE  MajorityWillHold(n2)
<1> DEFINE Now  == {j \in Server : LogSize(j) >= n}
           Then == {j \in Server : Len(smr_log'[j]) >= n2}
<1>1. Now \in SUBSET Then /\ Then \in SUBSET Server
  BY DEF LogSize
<1>2. IsFiniteSet(Then)
  BY <1>1, ServerAssumption, FS_Subset
<1>3. Cardinality(Now) <= Cardinality(Then)
  <2> HIDE DEF Now, Then
  <2> QED BY <1>1, <1>2, FS_Subset
<1>4. /\ Cardinality(Now) \in Nat /\ Cardinality(Then) \in Nat /\ Cardinality(Server) \in Nat
  <2> HIDE DEF Now, Then
  <2> QED BY <1>1, <1>2, ServerAssumption, FS_Subset, FS_CardinalityType
<1>5. Cardinality(Now) * 2 > Cardinality(Server)
  BY DEF MajorityHolds
<1>6. Cardinality(Then) * 2 > Cardinality(Server)
  <2> HIDE DEF Now, Then
  <2> QED BY <1>3, <1>4, <1>5
<1> QED BY <1>6 DEF MajorityWillHold

\* Entries a majority acknowledged are held by a majority.
LEMMA AckedMajorityHolds ==
    ASSUME NEW ack \in [Server -> Nat], NEW n \in Nat, AckedByMajority(ack, n),
           \A j \in Server : LogSize(j)' \in Nat /\ ack[j] <= LogSize(j)'
    PROVE  MajorityWillHold(n)
<1> DEFINE Acked == {j \in Server : ack[j] >= n}
           Held  == {j \in Server : Len(smr_log'[j]) >= n}
<1>1. Acked \in SUBSET Held /\ Held \in SUBSET Server
  BY DEF LogSize
<1>2. IsFiniteSet(Held)
  BY <1>1, ServerAssumption, FS_Subset
<1>3. Cardinality(Acked) <= Cardinality(Held)
  <2> HIDE DEF Acked, Held
  <2> QED BY <1>1, <1>2, FS_Subset
<1>4. /\ Cardinality(Acked) \in Nat /\ Cardinality(Held) \in Nat /\ Cardinality(Server) \in Nat
  <2> HIDE DEF Acked, Held
  <2> QED BY <1>1, <1>2, ServerAssumption, FS_Subset, FS_CardinalityType
<1>5. Cardinality(Acked) * 2 > Cardinality(Server)
  <2>1. Cardinality(Acked) * 2 > GetPeerSize + 1
    BY DEF AckedByMajority
  <2> HIDE DEF Acked
  <2> QED BY <1>4, <2>1 DEF GetPeerSize
<1>6. Cardinality(Held) * 2 > Cardinality(Server)
  <2> HIDE DEF Acked, Held
  <2> QED BY <1>3, <1>4, <1>5
<1> QED BY <1>6 DEF MajorityWillHold

LEMMA InitCommitInv == Init => CommitInv
<1> SUFFICES ASSUME Init PROVE CommitInv
  OBVIOUS
<1>1. IInv
  BY InitIInv
<1>2. AckInv
  BY DEF Init, AckInv, AckedLengthHeld, ReplyHeld, LogSize, NoMsg
<1>3. MajorityHolds(0)
  <2>1. {j \in Server : LogSize(j) >= 0} = Server
    BY DEF Init, LogSize
  <2>2. Cardinality(Server) \in Nat /\ Cardinality(Server) # 0
    BY ServerAssumption, FS_CardinalityType, FS_EmptySet
  <2> QED BY <2>1, <2>2 DEF MajorityHolds
<1>4. CommittedOnMajority
  BY <1>3 DEF Init, CommittedOnMajority, AppendsInFlight, InFlight, NoMsg
<1> QED BY <1>1, <1>2, <1>4 DEF CommitInv

LEMMA NextCommitInv == CommitInv /\ [Next]_vars => CommitInv'
<1> SUFFICES ASSUME CommitInv, [Next]_vars PROVE CommitInv'
  OBVIOUS
<1>1. /\ IInv /\ AckInv /\ CommittedOnMajority /\ TypeOK
      /\ IInv' /\ TypeOK' /\ LengthsWithinLog'
  BY NextIInv DEF CommitInv, IInv
<1>2. Progress
  BY <1>1, NextProgress
<1>3. \A i \in Server : LogSize(i) \in Nat /\ LogSize(i)' \in Nat /\ LogSize(i)' >= LogSize(i)
  <2>1. \A i \in Server : smr_log[i] \in Seq(Ops) /\ Grows(i)
    BY <1>1, <1>2 DEF TypeOK, Progress
  <2> QED BY <2>1 DEF Grows, LogSize
<1>4. AckInv'
  <2>1. AckedLengthHeld'
    <3> SUFFICES ASSUME NEW s \in Server, NEW j \in Server
                 PROVE  ack_length'[s][j] <= LogSize(j)'
      BY DEF AckedLengthHeld
    <3>1. ack_length[s][j] \in Nat /\ ack_length[s][j] <= LogSize(j)
      BY <1>1 DEF TypeOK, AckInv, AckedLengthHeld
    <3>2. ack_length'[s][j] = ack_length[s][j] \/ ack_length'[s][j] <= LogSize(j)'
      BY <1>2 DEF Progress
    <3>3. LogSize(j) \in Nat /\ LogSize(j)' \in Nat /\ LogSize(j)' >= LogSize(j)
      BY <1>3
    <3> QED BY <3>1, <3>2, <3>3
  <2> QED BY <1>2, <2>1 DEF AckInv, Progress
<1>5. \A n, n2 \in Nat : n2 <= n /\ MajorityHolds(n) => MajorityWillHold(n2)
  BY <1>3, MajorityKept
<1>6. ASSUME NEW m \in AppendsInFlight
      PROVE  m.commit_length \in Nat /\ MajorityHolds(m.commit_length)
  <2>1. m \in Requests \cup {NoMsg} /\ m.kind = "append"
    BY <1>1 DEF AppendsInFlight, InFlight, TypeOK
  <2>2. m.commit_length \in Nat
    BY <2>1, MessageKinds DEF LogRequests
  <2> QED BY <1>1, <2>2 DEF CommittedOnMajority
<1>7. \A i \in Server : commit_length[i] \in Nat /\ MajorityHolds(commit_length[i])
  BY <1>1 DEF TypeOK, CommittedOnMajority
<1>8. ASSUME NEW i \in Server
      PROVE  MajorityWillHold(commit_length'[i])
  <2>1. commit_length'[i] \in Nat
    BY <1>1 DEF TypeOK
  <2>2. CASE commit_length'[i] = commit_length[i]
    <3>1. commit_length[i] <= commit_length[i]
      BY <1>7
    <3> QED BY <1>5, <1>7, <2>1, <2>2, <3>1
  <2>3. CASE AckedByMajority(ack_length'[i], commit_length'[i])
    <3>1. /\ ack_length'[i] \in [Server -> Nat]
          /\ \A j \in Server : ack_length'[i][j] <= LogSize(j)'
      BY <1>1, <1>4 DEF TypeOK, AckInv, AckedLengthHeld
    <3> QED BY <1>3, <2>1, <2>3, <3>1, AckedMajorityHolds
  <2>4. CASE \E m \in AppendsInFlight : commit_length'[i] <= m.commit_length
    BY <1>5, <1>6, <2>1, <2>4
  <2> QED BY <1>2, <2>2, <2>3, <2>4 DEF Progress, Commits
<1>9. ASSUME NEW m \in AppendsInFlight'
      PROVE  MajorityWillHold(m.commit_length)
  <2>1. m.commit_length \in Nat /\ MajorityHolds(m.commit_length)
    BY <1>2, <1>6, <1>7 DEF Progress, Announced
  <2>2. m.commit_length <= m.commit_length
    BY <2>1
  <2> QED BY <1>5, <2>1, <2>2
<1>10. CommittedOnMajority'
  BY <1>8, <1>9 DEF CommittedOnMajority, MajorityHolds, MajorityWillHold, LogSize
<1> QED BY <1>1, <1>4, <1>10 DEF CommitInv

LEMMA CommitInvariant == Spec => []CommitInv
<1>1. Init => CommitInv
  BY InitCommitInv
<1>2. CommitInv /\ [Next]_vars => CommitInv'
  BY NextCommitInv
<1> QED BY <1>1, <1>2, PTL DEF Spec

-----------------------------------------------------------------------------

\* A leader never counts an entry for a peer whose log does not have it, whatever
\* responses were lost, late or answered by a peer that had restarted its connection.
THEOREM AcknowledgedIsHeld == Spec => []AckedLengthHeld
<1>1. CommitInv => AckedLengthHeld
  BY DEF CommitInv, AckInv
<1> QED BY <1>1, CommitInvariant, PTL

\* What a server has committed, or a request says is committed, is no longer than the
\* logs of a majority.
THEOREM CommittedIsOnMajority == Spec => []CommittedOnMajority
<1>1. CommitInv => CommittedOnMajority
  BY DEF CommitInv
<1> QED BY <1>1, CommitInvariant, PTL

\* No step takes back a committed length, or removes or replaces a committed entry.
THEOREM CommitsAreFinal == Spec => CommittedForever
<1>1. CommitInv /\ [Next]_vars =>
        [\A s \in Server :
           /\ commit_length'[s] >= commit_length[s]
           /\ Len(smr_log'[s]) >= commit_length[s]
           /\ \A i \in 1..commit_length[s] : smr_log'[s][i] = smr_log[s][i]]_vars
  <2> SUFFICES ASSUME CommitInv, [Next]_vars, NEW s \in Server
               PROVE  /\ commit_length'[s] >= commit_length[s]
                      /\ Len(smr_log'[s]) >= commit_length[s]
                      /\ \A i \in 1..commit_length[s] : smr_log'[s][i] = smr_log[s][i]
    OBVIOUS
  <2>1. /\ smr_log[s] \in Seq(Ops) /\ commit_length[s] \in Nat /\ commit_length'[s] \in Nat
        /\ commit_length[s] <= Len(smr_log[s])
    BY NextIInv DEF CommitInv, IInv, TypeOK, LengthsWithinLog, LogSize
  <2>2. Grows(s) /\ Commits(s)
    BY NextProgress DEF CommitInv, Progress
  <2>3. Len(smr_log'[s]) >= Len(smr_log[s])
    BY <2>1, <2>2 DEF Grows
  <2>4. \A i \in 1..Len(smr_log[s]) : smr_log'[s][i] = smr_log[s][i]
    BY <2>1, <2>2 DEF Grows
  <2>5. Len(smr_log[s]) \in Nat /\ Len(smr_log'[s]) \in Nat
    BY <2>1, <2>2 DEF Grows
  <2> QED BY <2>1, <2>2, <2>3, <2>4, <2>5 DEF Commits
<1> QED BY <1>1, CommitInvariant, PTL DEF Spec, CommittedForever

=============================================================================

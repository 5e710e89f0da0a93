--------------------------- MODULE RaftStoreProofs ---------------------------
(* The servers implement the replicated store, for every cluster.  Two     *)
(* things must be known of them beyond what is committed where: the        *)
(* operation in a request is in some log at the request's place, and the   *)
(* record is the replay of the committed operations, though ExecuteLog     *)
(* only ever replays what was committed since the last time.               *)
EXTENDS RaftStore, RaftCommitProofs

NoRecord == [k \in Key |-> NoValue]

\* A log request carries the operation its sender has at the request's place.
RequestsFromLogs ==
    \A m \in AppendsInFlight :
        m.op # NoOp => \E t \in Server : /\ m.prefix_length < LogSize(t)
                                         /\ m.op = smr_log[t][m.prefix_length + 1]

ReplicaInv == CommitInv /\ RequestsFromLogs /\ AppliedMatchesLog

-----------------------------------------------------------------------------
(* ExecuteLog. *)

\* What it leaves behind depends on the operations it executes and on nothing else.
LEMMA ExecuteLogKept ==
    ASSUME NEW record, NEW log, NEW log2, NEW from \in Nat, NEW to \in Nat,
           \A i \in from + 1 .. to : log2[i] = log[i]
    PROVE  ExecuteLog(record, log2, from, to) = ExecuteLog(record, log, from, to)
<1> DEFINE W(k)  == {i \in from + 1 .. to : log[i].arg1 = k}
           W2(k) == {i \in from + 1 .. to : log2[i].arg1 = k}
<1>1. ASSUME NEW k \in Key
      PROVE  W2(k) = W(k) /\ (W(k) # {} => log2[MaxOf(W(k))] = log[MaxOf(W(k))])
  <2>1. W2(k) = W(k)
    OBVIOUS
  <2>2. ASSUME W(k) # {}
        PROVE  log2[MaxOf(W(k))] = log[MaxOf(W(k))]
    <3>1. W(k) \in SUBSET (from + 1 .. to) /\ from + 1 \in Int /\ to \in Int
      OBVIOUS
    <3>2. MaxOf(W(k)) \in W(k)
      <4> HIDE DEF W
      <4> QED BY <2>2, <3>1, MaxOfIndices, Zenon
    <3> QED BY <3>2
  <2> QED BY <2>1, <2>2
<1>2. ASSUME NEW k \in Key
      PROVE  (IF W2(k) = {} THEN record[k] ELSE log2[MaxOf(W2(k))].arg2)
               = (IF W(k) = {} THEN record[k] ELSE log[MaxOf(W(k))].arg2)
  <2> HIDE DEF W, W2
  <2> QED BY <1>1
<1>3. /\ ExecuteLog(record, log2, from, to)
           = [k \in Key |-> IF W2(k) = {} THEN record[k] ELSE log2[MaxOf(W2(k))].arg2]
      /\ ExecuteLog(record, log, from, to)
           = [k \in Key |-> IF W(k) = {} THEN record[k] ELSE log[MaxOf(W(k))].arg2]
  BY DEF ExecuteLog
<1> HIDE DEF W, W2
<1> QED BY <1>2, <1>3

\* To execute a log up to a and then from there to b is to execute it up to b: of two
\* operations on one key the later one counts.
LEMMA ExecuteLogComposes ==
    ASSUME NEW record, NEW log, NEW a \in Nat, NEW b \in Nat, a <= b
    PROVE  ExecuteLog(ExecuteLog(record, log, 0, a), log, a, b) = ExecuteLog(record, log, 0, b)
<1> DEFINE first == ExecuteLog(record, log, 0, a)
           W1(k) == {i \in 0 + 1 .. a : log[i].arg1 = k}
           W2(k) == {i \in a + 1 .. b : log[i].arg1 = k}
           W(k)  == {i \in 0 + 1 .. b : log[i].arg1 = k}
<1>1. ASSUME NEW k \in Key
      PROVE  (IF W2(k) = {} THEN first[k] ELSE log[MaxOf(W2(k))].arg2)
               = (IF W(k) = {} THEN record[k] ELSE log[MaxOf(W(k))].arg2)
  <2>1. first[k] = IF W1(k) = {} THEN record[k] ELSE log[MaxOf(W1(k))].arg2
    BY DEF ExecuteLog
  <2>2. W(k) = W1(k) \cup W2(k)
    OBVIOUS
  <2>3. CASE W2(k) = {}
    <3>1. W(k) = W1(k)
      BY <2>2, <2>3
    <3> HIDE DEF W, W1, W2, first
    <3> QED BY <2>1, <2>3, <3>1
  <2>4. CASE W2(k) # {}
    <3>1. /\ W2(k) \in SUBSET (a + 1 .. b) /\ W(k) \in SUBSET (0 + 1 .. b)
          /\ a + 1 \in Int /\ 0 + 1 \in Int /\ b \in Int
      OBVIOUS
    <3>2. W(k) # {}
      BY <2>2, <2>4
    <3>3. /\ MaxOf(W2(k)) \in W2(k) /\ \A n \in W2(k) : MaxOf(W2(k)) >= n
          /\ MaxOf(W(k)) \in W(k) /\ \A n \in W(k) : MaxOf(W(k)) >= n
      <4> HIDE DEF W, W2
      <4> QED BY <2>4, <3>1, <3>2, MaxOfIndices, Zenon
    <3>4. MaxOf(W(k)) = MaxOf(W2(k))
      <4>1. MaxOf(W2(k)) \in W(k) /\ MaxOf(W2(k)) > a
        BY <2>2, <3>3
      <4>2. MaxOf(W(k)) >= MaxOf(W2(k)) /\ MaxOf(W(k)) \in Int /\ MaxOf(W2(k)) \in Int
        BY <3>3, <4>1
      <4>3. MaxOf(W(k)) \in W2(k)
        BY <2>2, <3>3, <4>1, <4>2
      <4> HIDE DEF W, W2
      <4> QED BY <3>3, <4>2, <4>3
    <3> HIDE DEF W, W2
    <3> QED BY <2>4, <3>2, <3>4
  <2> QED BY <2>3, <2>4
<1>2. /\ ExecuteLog(first, log, a, b)
           = [k \in Key |-> IF W2(k) = {} THEN first[k] ELSE log[MaxOf(W2(k))].arg2]
      /\ ExecuteLog(record, log, 0, b)
           = [k \in Key |-> IF W(k) = {} THEN record[k] ELSE log[MaxOf(W(k))].arg2]
  BY DEF ExecuteLog
<1> HIDE DEF W, W2, first
<1> QED BY <1>1, <1>2 DEF first

-----------------------------------------------------------------------------
(* What one step may do to the requests and to the logs. *)

\* A request is on its way already, or made from the log of its sender.
Requested(m) ==
    m \in AppendsInFlight
    \/ \E s, j \in Server : m = LogRequest(s, j) /\ UNCHANGED smr_log

LogStep ==
    \/ /\ UNCHANGED logVars
       /\ UNCHANGED allocated \/ \E s \in Server : allocated' = [allocated EXCEPT ![s] = TRUE]
    \/ /\ UNCHANGED <<allocated, commit_length, customer_record>>
       /\ \E s \in Server, op \in Ops :
            allocated[s] /\ smr_log' = [smr_log EXCEPT ![s] = Append(@, op)]
    \/ UNCHANGED allocated /\ \E s \in Server : CommitLog(s, ack_length'[s])
    \/ UNCHANGED allocated /\ \E j \in Server, m \in AppendsInFlight : StoreLog(j, m)

RequestsKept ==
    /\ \A i \in Server : request'[i] \in {request[i], NoMsg} \/ request'[i].kind = "vote"
    /\ \A o \in orphans' : o \in orphans \/ \E i \in Server : o.req = request[i]

LEMMA KeptRequested ==
    ASSUME RequestsKept
    PROVE  \A m \in AppendsInFlight' : Requested(m)
<1> SUFFICES ASSUME NEW m \in AppendsInFlight'
             PROVE  m \in AppendsInFlight
  BY DEF Requested
<1>1. CASE \E i \in Server : m = request'[i]
  BY <1>1 DEF RequestsKept, AppendsInFlight, InFlight, NoMsg
<1>2. CASE \E o \in orphans' : m = o.req
  BY <1>2 DEF RequestsKept, AppendsInFlight, InFlight
<1> QED BY <1>1, <1>2 DEF AppendsInFlight, InFlight

LEMMA CountVoteLeads ==
    ASSUME NEW s \in Server, NEW res, CountVote(s, res)
    PROVE  UNCHANGED allocated \/ allocated' = [allocated EXCEPT ![s] = TRUE]
BY DEF CountVote, InitLeader, leaderVars

LEMMA RequestVoteLogStep ==
    ASSUME TypeOK, NEW s \in Server, RequestVote(s)
    PROVE  LogStep /\ RequestsKept
<1>1. CASE \E j \in Server : CallVote(s, j)
  <2>1. PICK j \in Server : CallVote(s, j)
    BY <1>1
  <2>2. /\ UNCHANGED <<logVars, allocated, orphans>>
        /\ request' = [request EXCEPT ![s] = IF j \in conn[s] THEN RequestVoteMessage(s) ELSE NoMsg]
    BY <2>1 DEF CallVote, StartCall, leaderVars
  <2>3. RequestVoteMessage(s).kind = "vote" /\ request \in [Server -> Requests \cup {NoMsg}]
    BY DEF RequestVoteMessage, TypeOK
  <2> QED BY <2>2, <2>3 DEF LogStep, RequestsKept
<1>2. CASE ReceiveVoteResponse(s) \/ LoseVoteResponse(s)
  <2>1. /\ UNCHANGED logVars /\ EndCall(s)
        /\ \E res : CountVote(s, res)
    BY <1>2 DEF ReceiveVoteResponse, LoseVoteResponse
  <2> QED BY <2>1, CountVoteLeads DEF LogStep, EndCall, RequestsKept
<1>3. CASE EndVote(s)
  BY <1>3 DEF EndVote, LogStep, RequestsKept, leaderVars, rpcVars
<1> QED BY <1>1, <1>2, <1>3 DEF RequestVote

LEMMA ReplicateLogLogStep ==
    ASSUME TypeOK, NEW s \in Server, ReplicateLog(s)
    PROVE  LogStep /\ \A m \in AppendsInFlight' : Requested(m)
<1>1. CASE \E j \in Server : CallAppend(s, j)
  <2>1. PICK j \in Server : CallAppend(s, j)
    BY <1>1
  <2>2. /\ UNCHANGED <<logVars, allocated, orphans>>
        /\ request' = [request EXCEPT ![s] = IF j \in conn[s] THEN LogRequest(s, j) ELSE NoMsg]
    BY <2>1 DEF CallAppend, StartCall, leaderVars
  <2>3. \A i \in Server : request'[i] \in {request[i], NoMsg, LogRequest(s, j)}
    BY <2>2 DEF TypeOK
  <2>4. ASSUME NEW m \in AppendsInFlight'
        PROVE  Requested(m)
    <3>1. m \in AppendsInFlight \/ m = LogRequest(s, j)
      BY <2>2, <2>3 DEF AppendsInFlight, InFlight, NoMsg
    <3> QED BY <2>2, <3>1 DEF Requested, logVars
  <2> QED BY <2>2, <2>4 DEF LogStep
<1>2. CASE ReceiveHeartbeatResponse(s) \/ LoseLogResponse(s) \/ NextRound(s) \/ EndReplicate(s)
  <2>1. UNCHANGED <<logVars, allocated, request, orphans>>
    BY <1>2 DEF ReceiveHeartbeatResponse, LoseLogResponse, NextRound, EndReplicate, EndCall,
                leaderVars, rpcVars
  <2>2. RequestsKept
    BY <2>1 DEF RequestsKept
  <2> QED BY <2>1, <2>2, KeptRequested DEF LogStep
<1>3. CASE ReceiveLogResponse(s)
  <2>1. /\ UNCHANGED <<allocated, request, orphans>>
        /\ UNCHANGED logVars \/ CommitLog(s, ack_length'[s])
    BY <1>3 DEF ReceiveLogResponse, RecordResponse, EndCall
  <2>2. RequestsKept
    BY <2>1 DEF RequestsKept
  <2> QED BY <2>1, <2>2, KeptRequested DEF LogStep
<1> QED BY <1>1, <1>2, <1>3 DEF ReplicateLog

LEMMA ServerHandlerLogStep ==
    ASSUME TypeOK, NEW j \in Server, ServerHandler(j)
    PROVE  LogStep /\ RequestsKept
<1>1. ASSUME NEW m, GetVoteResponse(j, m)
      PROVE  LogStep
  BY <1>1 DEF GetVoteResponse, LogStep, leaderVars
<1>2. ASSUME NEW m \in AppendsInFlight, GetLogResponse(j, m)
      PROVE  LogStep
  BY <1>2 DEF GetLogResponse, LogStep, leaderVars
<1>3. ASSUME NEW s \in Server, CandidateVoteHandler(j, s) \/ AppendLogHandler(j, s)
      PROVE  LogStep /\ RequestsKept
  <2>1. \E res : Respond(s, res)
    BY <1>3 DEF CandidateVoteHandler, AppendLogHandler
  <2>2. RequestsKept
    BY <2>1 DEF Respond, RequestsKept, TypeOK
  <2>3. AppendLogHandler(j, s) => request[s] \in AppendsInFlight
    BY DEF AppendLogHandler, AppendsInFlight, InFlight
  <2> QED BY <1>1, <1>2, <1>3, <2>2, <2>3 DEF CandidateVoteHandler, AppendLogHandler
<1>4. ASSUME NEW o \in orphans, HandleOrphan(j, o)
      PROVE  LogStep /\ RequestsKept
  <2>1. o.req.kind = "append" => o.req \in AppendsInFlight
    BY DEF AppendsInFlight, InFlight
  <2>2. RequestsKept
    BY <1>4 DEF HandleOrphan, RequestsKept
  <2> QED BY <1>1, <1>2, <1>4, <2>1, <2>2 DEF HandleOrphan
<1>5. CASE GhostVote(j)
  BY <1>1, <1>5 DEF GhostVote, RequestsKept, rpcVars
<1> QED BY <1>3, <1>4, <1>5 DEF ServerHandler

LEMMA NextLogStep ==
    ASSUME TypeOK, [Next]_vars
    PROVE  LogStep /\ \A m \in AppendsInFlight' : Requested(m)
<1>1. CASE UNCHANGED vars
  <2>1. LogStep /\ RequestsKept
    BY <1>1 DEF vars, leaderVars, rpcVars, LogStep, RequestsKept
  <2> QED BY <2>1, KeptRequested
<1>2. ASSUME NEW s \in Server, TimeoutThread(s)
      PROVE  LogStep /\ RequestsKept
  BY <1>2 DEF TimeoutThread, ReadStatus, FollowerTimeout, BeginVote, BeginHeartbeat,
              LogStep, RequestsKept, leaderVars, rpcVars
<1>3. ASSUME NEW s \in Server, NEW k \in Key, NEW v \in Value, BeginUpdate(s, k, v)
      PROVE  LogStep /\ RequestsKept
  <2> DEFINE op == [term |-> current_term[s], arg1 |-> k, arg2 |-> v]
  <2>1. op \in Ops
    BY DEF TypeOK, Ops
  <2>2. /\ UNCHANGED <<allocated, commit_length, customer_record, request, orphans>>
        /\ allocated[s] /\ smr_log' = [smr_log EXCEPT ![s] = Append(@, op)]
    BY <1>3 DEF BeginUpdate, rpcVars
  <2> HIDE DEF op
  <2>3. RequestsKept
    BY <2>2 DEF RequestsKept
  <2> QED BY <2>1, <2>2, <2>3 DEF LogStep
<1>4. ASSUME NEW s \in Server, NEW j \in Server, DropLink(s, j)
      PROVE  LogStep /\ RequestsKept
  <2>1. /\ UNCHANGED <<logVars, allocated>>
        /\ request' \in {request, [request EXCEPT ![s] = NoMsg]}
        /\ \/ orphans' = orphans
           \/ orphans' = orphans \cup {[to |-> j, req |-> request[s]]}
    BY <1>4 DEF DropLink, leaderVars
  <2>2. \A i \in Server : request'[i] \in {request[i], NoMsg}
    BY <2>1 DEF TypeOK
  <2>3. \A o \in orphans' : o \in orphans \/ \E i \in Server : o.req = request[i]
    BY <2>1
  <2> QED BY <2>1, <2>2, <2>3 DEF LogStep, RequestsKept
<1> QED BY <1>1, <1>2, <1>3, <1>4, RequestVoteLogStep, ReplicateLogLogStep,
           ServerHandlerLogStep, KeptRequested DEF Next, LeaderThread

-----------------------------------------------------------------------------
(* The record. *)

\* What a log keeps when it grows.
LEMMA GrowsKeeps ==
    ASSUME TypeOK, NEW s \in Server, Grows(s)
    PROVE  /\ smr_log[s] \in Seq(Ops) /\ smr_log'[s] \in Seq(Ops)
           /\ Len(smr_log[s]) <= Len(smr_log'[s])
           /\ \A i \in 1..Len(smr_log[s]) : smr_log'[s][i] = smr_log[s][i]
<1>1. smr_log[s] \in Seq(Ops)
  BY DEF TypeOK
<1>2. CASE smr_log'[s] = smr_log[s]
  BY <1>1, <1>2
<1>3. ASSUME NEW op \in Ops, smr_log'[s] = Append(smr_log[s], op)
      PROVE  /\ smr_log'[s] \in Seq(Ops) /\ Len(smr_log[s]) <= Len(smr_log'[s])
             /\ \A i \in 1..Len(smr_log[s]) : smr_log'[s][i] = smr_log[s][i]
  BY <1>1, <1>3
<1> QED BY <1>1, <1>2, <1>3 DEF Grows

\* To execute what was committed since the last time is to execute all of it.
LEMMA ExecutesAll ==
    ASSUME TypeOK, LengthsWithinLog, AppliedMatchesLog, NEW s \in Server, Grows(s),
           NEW n \in Nat, commit_length[s] <= n
    PROVE  /\ ExecuteLog(customer_record[s], smr_log'[s], commit_length[s], n)
                = ExecuteLog(NoRecord, smr_log'[s], 0, n)
           /\ customer_record[s] = ExecuteLog(NoRecord, smr_log'[s], 0, commit_length[s])
<1>1. commit_length[s] \in Nat /\ commit_length[s] <= Len(smr_log[s])
  BY DEF TypeOK, LengthsWithinLog, LogSize
<1>2. \A i \in 0 + 1 .. commit_length[s] : smr_log'[s][i] = smr_log[s][i]
  BY <1>1, GrowsKeeps
<1>3. customer_record[s] = ExecuteLog(NoRecord, smr_log[s], 0, commit_length[s])
  BY DEF AppliedMatchesLog, NoRecord
<1>4. customer_record[s] = ExecuteLog(NoRecord, smr_log'[s], 0, commit_length[s])
  BY <1>1, <1>2, <1>3, ExecuteLogKept
<1> QED BY <1>1, <1>4, ExecuteLogComposes

\* Whatever the step: a server's record changes only by executing what it commits.
Executes(s) ==
    \/ commit_length'[s] = commit_length[s] /\ customer_record'[s] = customer_record[s]
    \/ customer_record'[s] =
         ExecuteLog(customer_record[s], smr_log'[s], commit_length[s], commit_length'[s])

LEMMA LogStepExecutes ==
    ASSUME TypeOK, LogStep, NEW s \in Server
    PROVE  Executes(s)
<1>1. /\ smr_log \in [Server -> Seq(Ops)] /\ commit_length \in [Server -> Nat]
      /\ customer_record \in [Server -> [Key -> Value \cup {NoValue}]]
  BY DEF TypeOK
<1>2. CASE UNCHANGED <<commit_length, customer_record>>
  BY <1>2 DEF Executes
<1>3. ASSUME NEW i \in Server, CommitLog(i, ack_length'[i])
      PROVE  Executes(s)
  <2> DEFINE until == CommitUntil(i, ack_length'[i])
             record == ExecuteLog(customer_record[i], smr_log[i], commit_length[i], until)
  <2>1. /\ commit_length' = [commit_length EXCEPT ![i] = until]
        /\ customer_record' = [customer_record EXCEPT ![i] = record]
        /\ UNCHANGED smr_log
    BY <1>3 DEF CommitLog
  <2>2. CASE s = i
    <3>1. record = ExecuteLog(customer_record[s], smr_log'[s], commit_length[s], until)
      BY <2>1, <2>2
    <3> HIDE DEF until, record
    <3>2. commit_length'[s] = until /\ customer_record'[s] = record
      BY <1>1, <2>1, <2>2
    <3> QED BY <3>1, <3>2 DEF Executes
  <2>3. CASE s # i
    <3> HIDE DEF until, record
    <3> QED BY <1>1, <2>1, <2>3 DEF Executes
  <2> QED BY <2>2, <2>3
<1>4. ASSUME NEW j \in Server, NEW m, StoreLog(j, m)
      PROVE  Executes(s)
  <2> DEFINE commits == /\ Succeeds(j, m) /\ LogSize(j) = m.prefix_length
                        /\ m.commit_length > commit_length[j]
             commit  == IF commits THEN commit_length[j] + 1 ELSE commit_length[j]
             record  == IF commits
                        THEN ExecuteLog(customer_record[j], smr_log'[j],
                                        commit_length[j], commit_length[j] + 1)
                        ELSE customer_record[j]
  <2>1. /\ commit_length' = [commit_length EXCEPT ![j] = commit]
        /\ customer_record' = [customer_record EXCEPT ![j] = record]
    BY <1>4 DEF StoreLog
  <2>2. \/ commit = commit_length[j] /\ record = customer_record[j]
        \/ record = ExecuteLog(customer_record[j], smr_log'[j], commit_length[j], commit)
    OBVIOUS
  <2> HIDE DEF commit, record
  <2>3. CASE s = j
    BY <1>1, <2>1, <2>2, <2>3 DEF Executes
  <2>4. CASE s # j
    BY <1>1, <2>1, <2>4 DEF Executes
  <2> QED BY <2>3, <2>4
<1> QED BY <1>2, <1>3, <1>4 DEF LogStep, logVars

\* A log grows at its end by one operation or not at all, and nothing is uncommitted.
LEMMA LogStepGrows ==
    ASSUME IInv, LogStep, NEW s \in Server
    PROVE  Grows(s) /\ commit_length'[s] \in Nat /\ commit_length[s] <= commit_length'[s]
<1>1. /\ smr_log \in [Server -> Seq(Ops)] /\ commit_length \in [Server -> Nat]
  BY DEF IInv, TypeOK
<1>2. CASE UNCHANGED logVars
  BY <1>1, <1>2 DEF logVars, Grows
<1>3. ASSUME NEW i \in Server, NEW op \in Ops, UNCHANGED commit_length,
             smr_log' = [smr_log EXCEPT ![i] = Append(@, op)]
      PROVE  Grows(s) /\ commit_length'[s] \in Nat /\ commit_length[s] <= commit_length'[s]
  <2>1. commit_length'[s] = commit_length[s]
    BY <1>3
  <2>2. smr_log'[s] = smr_log[s] \/ smr_log'[s] = Append(smr_log[s], op)
    BY <1>1, <1>3
  <2> QED BY <1>1, <1>3, <2>1, <2>2 DEF Grows
<1>4. ASSUME NEW i \in Server, CommitLog(i, ack_length'[i])
      PROVE  Grows(s) /\ commit_length'[s] \in Nat /\ commit_length[s] <= commit_length'[s]
  <2> DEFINE until == CommitUntil(i, ack_length'[i])
  <2>1. until \in Nat /\ commit_length[i] <= until
    <3>1. LogSize(i) \in Nat /\ commit_length[i] \in Nat /\ commit_length[i] <= LogSize(i)
      BY <1>1 DEF IInv, LengthsWithinLog, LogSize
    <3> QED BY <3>1, CommitUntilBounds
  <2>2. commit_length' = [commit_length EXCEPT ![i] = until] /\ UNCHANGED smr_log
    BY <1>4 DEF CommitLog
  <2> HIDE DEF until
  <2> QED BY <1>1, <2>1, <2>2 DEF Grows
<1>5. ASSUME NEW j \in Server, NEW m \in AppendsInFlight, StoreLog(j, m)
      PROVE  Grows(s) /\ commit_length'[s] \in Nat /\ commit_length[s] <= commit_length'[s]
  <2> DEFINE extends == Succeeds(j, m) /\ LogSize(j) = m.prefix_length
             commits == extends /\ m.commit_length > commit_length[j]
  <2>1. m.op \in Ops \cup {NoOp}
    <3>1. /\ request \in [Server -> Requests \cup {NoMsg}]
          /\ orphans \subseteq [to : Server, req : Requests]
      BY DEF IInv, TypeOK
    <3>2. m \in Requests \cup {NoMsg} /\ m.kind = "append"
      BY <3>1 DEF AppendsInFlight, InFlight
    <3> QED BY <3>2, MessageKinds DEF LogRequests
  <2>2. /\ smr_log' = [smr_log EXCEPT
                         ![j] = IF extends /\ m.op # NoOp THEN Append(@, m.op) ELSE @]
        /\ commit_length' = [commit_length EXCEPT ![j] = IF commits THEN @ + 1 ELSE @]
    BY <1>5 DEF StoreLog
  <2> HIDE DEF extends, commits
  <2>3. Grows(s)
    BY <1>1, <2>1, <2>2 DEF Grows
  <2>4. commit_length'[s] \in Nat /\ commit_length[s] <= commit_length'[s]
    <3>1. \E n \in {commit_length[j], commit_length[j] + 1} :
              commit_length' = [commit_length EXCEPT ![j] = n]
      BY <2>2
    <3> QED BY <1>1, <3>1
  <2> QED BY <2>3, <2>4
<1> QED BY <1>2, <1>3, <1>4, <1>5 DEF LogStep

LEMMA NextApplied ==
    ASSUME IInv, AppliedMatchesLog, [Next]_vars
    PROVE  AppliedMatchesLog'
<1> SUFFICES ASSUME NEW s \in Server
             PROVE  customer_record'[s] = ExecuteLog(NoRecord, smr_log'[s], 0, commit_length'[s])
  BY DEF AppliedMatchesLog, NoRecord
<1>1. TypeOK /\ LengthsWithinLog /\ LogStep
  BY NextLogStep DEF IInv
<1>2. /\ Grows(s) /\ commit_length[s] \in Nat /\ commit_length'[s] \in Nat
      /\ commit_length[s] <= commit_length'[s]
  BY <1>1, LogStepGrows DEF TypeOK
<1>3. Executes(s)
  BY <1>1, LogStepExecutes
<1> QED BY <1>1, <1>2, <1>3, ExecutesAll DEF Executes

-----------------------------------------------------------------------------
(* The requests. *)

LEMMA NextRequests ==
    ASSUME CommitInv, RequestsFromLogs, [Next]_vars
    PROVE  RequestsFromLogs'
<1> SUFFICES ASSUME NEW m \in AppendsInFlight', m.op # NoOp
             PROVE  \E t \in Server : /\ m.prefix_length < Len(smr_log'[t])
                                      /\ m.op = smr_log'[t][m.prefix_length + 1]
  BY DEF RequestsFromLogs, LogSize
<1>1. /\ TypeOK /\ LengthsWithinLog /\ Progress /\ Requested(m)
  BY NextProgress, NextLogStep DEF CommitInv, IInv
<1>2. PICK t \in Server : /\ m.prefix_length \in Nat /\ m.prefix_length < LogSize(t)
                          /\ m.op = smr_log[t][m.prefix_length + 1]
  <2>1. CASE m \in AppendsInFlight
    <3>1. m \in Requests \cup {NoMsg} /\ m.kind = "append"
      BY <1>1, <2>1 DEF AppendsInFlight, InFlight, TypeOK
    <3>2. m.prefix_length \in Nat
      BY <3>1, MessageKinds DEF LogRequests
    <3> QED BY <2>1, <3>2 DEF RequestsFromLogs
  <2>2. ASSUME NEW s \in Server, NEW j \in Server, m = LogRequest(s, j)
        PROVE  /\ m.prefix_length \in Nat /\ m.prefix_length < LogSize(s)
               /\ m.op = smr_log[s][m.prefix_length + 1]
    <3>1. /\ sent_length[s][j] \in Nat /\ LogSize(s) \in Nat /\ sent_length[s][j] <= LogSize(s)
      BY <1>1 DEF TypeOK, LengthsWithinLog, LogSize
    <3>2. /\ m.prefix_length = sent_length[s][j]
          /\ m.op = IF LogSize(s) = sent_length[s][j] THEN NoOp
                    ELSE smr_log[s][sent_length[s][j] + 1]
      BY <2>2 DEF LogRequest
    <3> QED BY <3>1, <3>2
  <2> QED BY <1>1, <2>1, <2>2 DEF Requested
<1>3. /\ Len(smr_log[t]) \in Nat /\ Len(smr_log'[t]) \in Nat
      /\ Len(smr_log[t]) <= Len(smr_log'[t])
      /\ \A i \in 1..Len(smr_log[t]) : smr_log'[t][i] = smr_log[t][i]
  BY <1>1, GrowsKeeps DEF Progress
<1>4. m.prefix_length < Len(smr_log'[t]) /\ m.op = smr_log'[t][m.prefix_length + 1]
  BY <1>2, <1>3 DEF LogSize
<1> QED BY <1>4

\* To execute nothing leaves no record.
LEMMA NothingExecuted == \A log : ExecuteLog(NoRecord, log, 0, 0) = NoRecord
<1>1. \A k \in Key : \A log : {i \in 0 + 1 .. 0 : log[i].arg1 = k} = {}
  OBVIOUS
<1> QED BY <1>1 DEF ExecuteLog, NoRecord

LEMMA InitReplicaInv == Init => ReplicaInv
<1> SUFFICES ASSUME Init PROVE ReplicaInv
  OBVIOUS
<1>1. CommitInv
  BY InitCommitInv
<1>2. RequestsFromLogs
  BY DEF Init, RequestsFromLogs, AppendsInFlight, InFlight, NoMsg
<1>3. AppliedMatchesLog
  BY NothingExecuted DEF Init, AppliedMatchesLog, NoRecord
<1> QED BY <1>1, <1>2, <1>3 DEF ReplicaInv

LEMMA NextReplicaInv == ReplicaInv /\ [Next]_vars => ReplicaInv'
BY NextCommitInv, NextRequests, NextApplied DEF ReplicaInv, CommitInv

LEMMA ReplicaInvariant == Spec => []ReplicaInv
BY InitReplicaInv, NextReplicaInv, PTL DEF Spec

\* What GetValue returns on a server is what its committed operations, each executed once
\* and in order, leave behind.
THEOREM RecordIsReplay == Spec => []AppliedMatchesLog
<1>1. ReplicaInv => AppliedMatchesLog
  BY DEF ReplicaInv
<1> QED BY <1>1, ReplicaInvariant, PTL

-----------------------------------------------------------------------------
(* The refinement. *)

LEMMA ReplayIsExecuteLog ==
    ASSUME NEW operations, NEW n \in Nat
    PROVE  Store!Replay(operations, n) = ExecuteLog(NoRecord, operations, 0, n)
BY DEF Store!Replay, ExecuteLog, NoRecord, MaxOf

\* A step that executes something is a commit of the store, which a majority allows.
LEMMA ExecutedIsCommit ==
    ASSUME ReplicaInv, ReplicaInv', NEW s \in Server, Grows(s), NEW n \in Nat, NEW record,
           commit_length[s] <= n,
           commit_length' = [commit_length EXCEPT ![s] = n],
           customer_record' = [customer_record EXCEPT ![s] = record]
    PROVE  Store!Commit(s) \/ UNCHANGED <<commit_length, customer_record>>
<1>1. /\ TypeOK /\ LengthsWithinLog /\ AppliedMatchesLog
      /\ LengthsWithinLog' /\ AppliedMatchesLog' /\ CommittedOnMajority'
  BY DEF ReplicaInv, CommitInv, IInv
<1>2. /\ commit_length \in [Server -> Nat]
      /\ customer_record \in [Server -> [Key -> Value \cup {NoValue}]]
  BY <1>1 DEF TypeOK
<1>3. commit_length'[s] = n /\ customer_record'[s] = record
  BY <1>2
<1>4. record = ExecuteLog(NoRecord, smr_log'[s], 0, n)
  BY <1>1, <1>3 DEF AppliedMatchesLog, NoRecord
<1>5. CASE n = commit_length[s]
  <2>1. record = customer_record[s]
    BY <1>1, <1>4, <1>5, ExecutesAll
  <2> QED BY <1>2, <1>5, <2>1
<1>6. CASE n > commit_length[s]
  <2>1. n \in commit_length[s] + 1 .. Len(smr_log'[s])
    <3>1. n <= Len(smr_log'[s])
      BY <1>1, <1>3 DEF LengthsWithinLog, LogSize
    <3>2. Len(smr_log'[s]) \in Nat /\ commit_length[s] \in Nat
      BY <1>1, <1>2, GrowsKeeps
    <3> QED BY <1>6, <3>1, <3>2
  <2>2. Store!HeldByMajority(smr_log', n)
    <3>1. MajorityWillHold(commit_length'[s])
      BY <1>1 DEF CommittedOnMajority, MajorityHolds, LogSize, MajorityWillHold
    <3>2. MajorityWillHold(n)
      BY <1>3, <3>1
    <3> DEFINE Q == {j \in Server : Len(smr_log'[j]) >= n}
    <3>3. Q \in MoreThanHalf
      BY <3>2 DEF MajorityWillHold, MoreThanHalf
    <3> QED BY <3>3 DEF Store!HeldByMajority
  <2>3. customer_record' = [customer_record EXCEPT ![s] = Store!Replay(smr_log'[s], n)]
    BY <1>4, ReplayIsExecuteLog
  <2> QED BY <1>3, <2>1, <2>2, <2>3 DEF Store!Commit
<1>7. n = commit_length[s] \/ n > commit_length[s]
  BY <1>2
<1> QED BY <1>5, <1>6, <1>7

\* A handler that appends the operation of a request copies it from the log the request
\* was made from.
LEMMA StoreLogIsCopy ==
    ASSUME ReplicaInv, ReplicaInv', UNCHANGED allocated, NEW j \in Server, Grows(j),
           commit_length[j] <= commit_length'[j], NEW m \in AppendsInFlight, StoreLog(j, m)
    PROVE  [Store!Next]_Store!storeVars
<1> DEFINE extends == Succeeds(j, m) /\ LogSize(j) = m.prefix_length
           record  == IF extends /\ m.commit_length > commit_length[j]
                      THEN ExecuteLog(customer_record[j], smr_log'[j],
                                      commit_length[j], commit_length[j] + 1)
                      ELSE customer_record[j]
           commit  == IF extends /\ m.commit_length > commit_length[j]
                      THEN commit_length[j] + 1 ELSE commit_length[j]
<1>1. /\ smr_log \in [Server -> Seq(Ops)] /\ commit_length \in [Server -> Nat]
  BY DEF ReplicaInv, CommitInv, IInv, TypeOK
<1>2. /\ smr_log' = [smr_log EXCEPT
                       ![j] = IF extends /\ m.op # NoOp THEN Append(@, m.op) ELSE @]
      /\ commit_length' = [commit_length EXCEPT ![j] = commit]
      /\ customer_record' = [customer_record EXCEPT ![j] = record]
  BY DEF StoreLog
<1>3. commit \in Nat /\ commit_length[j] <= commit
  BY <1>1
<1> HIDE DEF record, commit
<1>4. Store!Commit(j) \/ UNCHANGED <<commit_length, customer_record>>
  BY <1>2, <1>3, ExecutedIsCommit
<1>5. {s \in Server : allocated'[s]} = {s \in Server : allocated[s]}
  OBVIOUS
<1>6. CASE extends /\ m.op # NoOp
  <2>1. PICK t \in Server : m.prefix_length < LogSize(t) /\ m.op = smr_log[t][m.prefix_length + 1]
    BY <1>6 DEF ReplicaInv, RequestsFromLogs
  <2>2. Len(smr_log[j]) < Len(smr_log[t]) /\ m.op = smr_log[t][Len(smr_log[j]) + 1]
    BY <1>6, <2>1 DEF LogSize
  <2>3. smr_log' = [smr_log EXCEPT ![j] = Append(smr_log[j], smr_log[t][Len(smr_log[j]) + 1])]
    BY <1>2, <1>6, <2>2
  <2>4. Store!Copy(j, t)
    BY <1>4, <1>5, <2>2, <2>3 DEF Store!Copy
  <2> QED BY <2>4 DEF Store!Next
<1>7. CASE ~(extends /\ m.op # NoOp)
  <2>1. UNCHANGED smr_log
    BY <1>1, <1>2, <1>7
  <2>2. Store!Learn(j) \/ UNCHANGED Store!storeVars
    BY <1>4, <1>5, <2>1 DEF Store!Learn, Store!storeVars
  <2> QED BY <2>2 DEF Store!Next
<1> QED BY <1>6, <1>7

LEMMA StepIsStoreStep ==
    ASSUME ReplicaInv, ReplicaInv', [Next]_vars
    PROVE  [Store!Next]_Store!storeVars
<1>1. /\ TypeOK /\ LogStep /\ Progress
  BY NextProgress, NextLogStep DEF ReplicaInv, CommitInv, IInv
<1>2. /\ smr_log \in [Server -> Seq(Ops)] /\ allocated \in [Server -> BOOLEAN]
      /\ commit_length \in [Server -> Nat]
      /\ \A s \in Server : Grows(s) /\ commit_length[s] <= commit_length'[s]
  BY <1>1 DEF TypeOK, Progress, Commits
<1>3. CASE UNCHANGED <<logVars, allocated>>
  <2>1. {s \in Server : allocated'[s]} = {s \in Server : allocated[s]}
    BY <1>3
  <2> QED BY <1>3, <2>1 DEF Store!storeVars, logVars
<1>4. ASSUME NEW s \in Server, UNCHANGED logVars, allocated' = [allocated EXCEPT ![s] = TRUE]
      PROVE  [Store!Next]_Store!storeVars
  <2>1. {i \in Server : allocated'[i]} = {i \in Server : allocated[i]} \cup {s}
    BY <1>2, <1>4
  <2>2. Store!Lead(s)
    BY <1>4, <2>1 DEF Store!Lead, logVars
  <2> QED BY <2>2 DEF Store!Next
<1>5. ASSUME NEW s \in Server, NEW op \in Ops, allocated[s],
             UNCHANGED <<allocated, commit_length, customer_record>>,
             smr_log' = [smr_log EXCEPT ![s] = Append(@, op)]
      PROVE  [Store!Next]_Store!storeVars
  <2>1. {i \in Server : allocated'[i]} = {i \in Server : allocated[i]}
    BY <1>5
  <2>2. /\ smr_log'[s] = Append(smr_log[s], op) /\ smr_log[s] \in Seq(Ops)
        /\ Len(smr_log'[s]) = Len(smr_log[s]) + 1
        /\ smr_log'[s][Len(smr_log[s]) + 1] = op
    BY <1>2, <1>5
  <2>3. Store!Submit(s)
    BY <1>5, <2>1, <2>2 DEF Store!Submit, Store!Operations, Ops
  <2> QED BY <2>3 DEF Store!Next
<1>6. ASSUME NEW s \in Server, UNCHANGED allocated, CommitLog(s, ack_length'[s])
      PROVE  [Store!Next]_Store!storeVars
  <2> DEFINE n == CommitUntil(s, ack_length'[s])
             record == ExecuteLog(customer_record[s], smr_log[s], commit_length[s], n)
  <2>1. /\ commit_length' = [commit_length EXCEPT ![s] = n]
        /\ customer_record' = [customer_record EXCEPT ![s] = record]
        /\ UNCHANGED smr_log
    BY <1>6 DEF CommitLog
  <2> HIDE DEF n, record
  <2>2. n = commit_length'[s] /\ commit_length[s] <= n /\ n \in Nat
    <3>1. commit_length'[s] \in Nat
      BY DEF ReplicaInv, CommitInv, IInv, TypeOK
    <3> QED BY <1>2, <2>1, <3>1
  <2>3. Store!Commit(s) \/ UNCHANGED <<commit_length, customer_record>>
    BY <1>2, <2>1, <2>2, ExecutedIsCommit
  <2>4. {i \in Server : allocated'[i]} = {i \in Server : allocated[i]}
    BY <1>6
  <2>5. Store!Learn(s) \/ UNCHANGED Store!storeVars
    BY <2>1, <2>3, <2>4 DEF Store!Learn, Store!storeVars
  <2> QED BY <2>5 DEF Store!Next
<1>7. ASSUME NEW j \in Server, NEW m \in AppendsInFlight, UNCHANGED allocated, StoreLog(j, m)
      PROVE  [Store!Next]_Store!storeVars
  BY <1>2, <1>7, StoreLogIsCopy
<1> QED BY <1>1, <1>3, <1>4, <1>5, <1>6, <1>7 DEF LogStep

\* Every behaviour of the servers is one of the replicated store.
THEOREM RaftImplementsStore == Spec => ImplementsStore
<1>1. Init => Store!Init
  <2>1. Init => {s \in Server : allocated[s]} = {}
    BY DEF Init
  <2> QED BY <2>1 DEF Init, Store!Init
<1>2. ReplicaInv /\ ReplicaInv' /\ [Next]_vars => [Store!Next]_Store!storeVars
  BY StepIsStoreStep
<1> QED BY <1>1, <1>2, ReplicaInvariant, PTL DEF Spec, ImplementsStore, Store!Spec

\* As long as one server only has been elected, in however many terms and whatever
\* messages were lost, its log holds every other: this follows from the store's promise.
THEOREM OneReignKeepsLogs == Spec => []SingleReign
<1>1. Store!Spec => []Store!OneReign
  BY Store!OneReignHolds
<1>2. Store!OneReign => SingleReign
  BY DEF Store!OneReign, SingleReign, LogSize
<1> QED BY <1>1, <1>2, RaftImplementsStore, PTL DEF ImplementsStore

\* One server at most has ever been elected.
OneLeaderSoFar == \E l \in Server : \A s \in Server : allocated[s] => s = l

\* Servers that committed as much return the same values.
SameRecords ==
    \A s, t \in Server :
        commit_length[s] = commit_length[t] => customer_record[s] = customer_record[t]

\* Until a second server is elected, no two servers execute different operations at one
\* index, and servers that executed as many return the same: what the acknowledgement of
\* uncompared entries (GetLogResponse) can break takes two leaders.
THEOREM OneReignAgrees == Spec => [](OneLeaderSoFar => StateMachineSafety /\ SameRecords)
<1>1. ASSUME ReplicaInv, SingleReign, OneLeaderSoFar
      PROVE  StateMachineSafety /\ SameRecords
  <2>1. PICK l \in Server : \A s \in Server :
            /\ LogSize(s) <= LogSize(l)
            /\ \A i \in 1..LogSize(s) : smr_log[s][i] = smr_log[l][i]
    BY <1>1 DEF SingleReign, OneLeaderSoFar
  <2>2. \A s \in Server : /\ commit_length[s] \in Nat /\ LogSize(s) \in Nat
                          /\ commit_length[s] <= LogSize(s)
    BY <1>1 DEF ReplicaInv, CommitInv, IInv, TypeOK, LengthsWithinLog, LogSize
  <2>3. \A s \in Server : \A i \in 1..commit_length[s] : smr_log[s][i] = smr_log[l][i]
    BY <2>1, <2>2
  <2>4. StateMachineSafety
    <3> SUFFICES ASSUME NEW s \in Server, NEW t \in Server, NEW i \in 1..commit_length[s],
                        i <= commit_length[t]
                 PROVE  smr_log[s][i] = smr_log[t][i]
      BY DEF StateMachineSafety
    <3>1. i \in 1..commit_length[t]
      BY <2>2
    <3> QED BY <2>3, <3>1
  <2>5. SameRecords
    <3> SUFFICES ASSUME NEW s \in Server, NEW t \in Server,
                        commit_length[s] = commit_length[t]
                 PROVE  customer_record[s] = customer_record[t]
      BY DEF SameRecords
    <3> DEFINE n == commit_length[s]
    <3>1. n \in Nat /\ \A i \in 0 + 1 .. n : smr_log[s][i] = smr_log[t][i]
      BY <2>2, <2>3
    <3>2. /\ customer_record[s] = ExecuteLog(NoRecord, smr_log[s], 0, n)
          /\ customer_record[t] = ExecuteLog(NoRecord, smr_log[t], 0, n)
      BY <1>1 DEF ReplicaInv, AppliedMatchesLog, NoRecord
    <3> HIDE DEF n
    <3>3. ExecuteLog(NoRecord, smr_log[s], 0, n) = ExecuteLog(NoRecord, smr_log[t], 0, n)
      BY <3>1, ExecuteLogKept
    <3> QED BY <3>2, <3>3
  <2> QED BY <2>4, <2>5
<1> QED BY <1>1, ReplicaInvariant, OneReignKeepsLogs, PTL
=============================================================================

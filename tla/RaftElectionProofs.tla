------------------------- MODULE RaftElectionProofs -------------------------
(* Calls and elections: servers started one after another never wait for   *)
(* each other in a circle; and in clusters of up to three servers, who is  *)
(* elected by a response has a majority, and the first term has one leader *)
(* until a connection breaks.                                              *)
EXTENDS RaftLeaderProofs

-----------------------------------------------------------------------------
(* Whom a server can call. *)

\* The servers a server has a connection to, may connect to again, or is calling.
Known(i) ==
    node_socket[i] \cup failed_neighbors[i] \cup new_node_socket[i] \cup todo[i]
        \cup ({callee[i]} \ {NoServer})

\* Nothing is learnt about other servers.
NothingLearnt == \A i \in Server : Known(i)' \subseteq Known(i)

linkVars == <<node_socket, failed_neighbors, new_node_socket, todo, callee>>

LEMMA SameLinks ==
    ASSUME UNCHANGED linkVars
    PROVE  NothingLearnt
BY DEF linkVars, NothingLearnt, Known

\* What a step does to the links of server s, the other servers' being untouched.
LinksOf(s) == <<node_socket[s], failed_neighbors[s], new_node_socket[s], todo[s], callee[s]>>

LEMMA OtherLinks ==
    ASSUME NEW s \in Server, Known(s)' \subseteq Known(s),
           \A i \in Server \ {s} : UNCHANGED LinksOf(i)
    PROVE  NothingLearnt
BY DEF LinksOf, NothingLearnt, Known

\* A response, or its loss, ends a call; the RPC loop may end with it.
LEMMA EndCallLinks ==
    ASSUME TypeOK, NEW s \in Server, EndCall(s), UNCHANGED <<node_socket, failed_neighbors>>,
           Release(s) \/ UNCHANGED threadVars
    PROVE  NothingLearnt
<1>1. callee \in [Server -> Server \cup {NoServer}] /\ todo \in [Server -> SUBSET Server]
      /\ new_node_socket \in [Server -> SUBSET Server]
  BY DEF TypeOK
<1>2. callee'[s] = NoServer /\ \A i \in Server \ {s} : callee'[i] = callee[i]
  BY <1>1 DEF EndCall
<1>3. /\ todo'[s] \subseteq todo[s] /\ new_node_socket'[s] \subseteq new_node_socket[s]
      /\ \A i \in Server \ {s} : todo'[i] = todo[i] /\ new_node_socket'[i] = new_node_socket[i]
  BY <1>1 DEF Release, threadVars, loopVars
<1>4. Known(s)' \subseteq Known(s)
  BY <1>2, <1>3 DEF Known
<1> QED BY <1>2, <1>3, <1>4, OtherLinks DEF LinksOf

LEMMA TryReconnectLinks ==
    ASSUME TypeOK, NEW s \in Server, NEW thread, TryReconnect(s),
           Acquire(s, thread, node_socket'[s]), UNCHANGED callee
    PROVE  NothingLearnt
<1>1. PICK ok \in SUBSET failed_neighbors[s], still \in SUBSET failed_neighbors[s] :
          /\ node_socket' = [node_socket EXCEPT ![s] = @ \cup ok]
          /\ failed_neighbors' = [failed_neighbors EXCEPT ![s] = still]
  BY DEF TryReconnect
<1>2. /\ node_socket \in [Server -> SUBSET Server] /\ failed_neighbors \in [Server -> SUBSET Server]
      /\ todo \in [Server -> SUBSET Server]
  BY DEF TypeOK
<1>3. /\ node_socket'[s] = node_socket[s] \cup ok /\ failed_neighbors'[s] = still
      /\ todo'[s] = node_socket[s] \cup ok /\ UNCHANGED new_node_socket
      /\ \A i \in Server \ {s} : /\ node_socket'[i] = node_socket[i] /\ todo'[i] = todo[i]
                                 /\ failed_neighbors'[i] = failed_neighbors[i]
  BY <1>1, <1>2 DEF Acquire
<1>4. Known(s)' \subseteq Known(s)
  BY <1>3 DEF Known
<1> QED BY <1>3, <1>4, OtherLinks DEF LinksOf

LEMMA StartCallLinks ==
    ASSUME TypeOK, NEW s \in Server, NEW j \in todo[s], NEW m, StartCall(s, j, m),
           UNCHANGED <<node_socket, failed_neighbors, new_node_socket>>
    PROVE  NothingLearnt
<1>1. callee \in [Server -> Server \cup {NoServer}] /\ todo \in [Server -> SUBSET Server]
  BY DEF TypeOK
<1>2. /\ callee'[s] = j /\ todo'[s] \subseteq todo[s]
      /\ \A i \in Server \ {s} : callee'[i] = callee[i] /\ todo'[i] = todo[i]
  BY <1>1 DEF StartCall
<1>3. Known(s)' \subseteq Known(s)
  BY <1>2 DEF Known
<1> QED BY <1>2, <1>3, OtherLinks DEF LinksOf

LEMMA KeepNodeLinks ==
    ASSUME TypeOK, NEW s \in Server, NEW op, KeepNode(s, op), EndCall(s), Answered(s),
           UNCHANGED <<node_socket, failed_neighbors>>
    PROVE  NothingLearnt
<1>1. /\ callee \in [Server -> Server \cup {NoServer}]
      /\ new_node_socket \in [Server -> SUBSET Server]
  BY DEF TypeOK
<1>2. /\ callee'[s] = NoServer /\ callee[s] # NoServer
      /\ new_node_socket'[s] = new_node_socket[s] \cup {callee[s]}
      /\ UNCHANGED todo
      /\ \A i \in Server \ {s} :
            callee'[i] = callee[i] /\ new_node_socket'[i] = new_node_socket[i]
  BY <1>1 DEF EndCall, KeepNode, Answered
<1>3. Known(s)' \subseteq Known(s)
  BY <1>2 DEF Known
<1> QED BY <1>2, <1>3, OtherLinks DEF LinksOf

LEMMA ReplicateLogLinks ==
    ASSUME TypeOK, NEW s \in Server, ReplicateLog(s)
    PROVE  NothingLearnt
<1> USE DEF connVars
<1>1. CASE \E j \in Server : CallAppend(s, j)
  BY <1>1, StartCallLinks DEF CallAppend
<1>2. CASE ReceiveHeartbeatResponse(s)
  BY <1>2, KeepNodeLinks DEF ReceiveHeartbeatResponse
<1>3. CASE ReceiveLogResponse(s)
  BY <1>3, KeepNodeLinks, EndCallLinks DEF ReceiveLogResponse
<1>4. CASE LoseLogResponse(s)
  <2>1. /\ callee \in [Server -> Server \cup {NoServer}]
        /\ failed_neighbors \in [Server -> SUBSET Server]
    BY DEF TypeOK
  <2>2. /\ callee'[s] = NoServer /\ callee[s] # NoServer
        /\ failed_neighbors'[s] = failed_neighbors[s] \cup {callee[s]}
        /\ UNCHANGED <<todo, new_node_socket, node_socket>>
        /\ \A i \in Server \ {s} :
              callee'[i] = callee[i] /\ failed_neighbors'[i] = failed_neighbors[i]
    BY <1>4, <2>1 DEF LoseLogResponse, Lost, EndCall, threadVars, loopVars
  <2>3. Known(s)' \subseteq Known(s)
    BY <2>2 DEF Known
  <2> QED BY <2>2, <2>3, OtherLinks DEF LinksOf
<1>5. CASE NextRound(s) \/ EndReplicate(s)
  <2>1. /\ node_socket \in [Server -> SUBSET Server] /\ new_node_socket \in [Server -> SUBSET Server]
        /\ todo \in [Server -> SUBSET Server]
    BY DEF TypeOK
  <2>2. /\ node_socket'[s] = new_node_socket[s] /\ todo'[s] \subseteq new_node_socket[s]
        /\ new_node_socket'[s] \subseteq new_node_socket[s]
        /\ UNCHANGED <<failed_neighbors, callee>>
        /\ \A i \in Server \ {s} : /\ node_socket'[i] = node_socket[i] /\ todo'[i] = todo[i]
                                   /\ new_node_socket'[i] = new_node_socket[i]
    BY <1>5, <2>1 DEF NextRound, EndReplicate, Release, rpcVars
  <2>3. Known(s)' \subseteq Known(s)
    BY <2>2 DEF Known
  <2> QED BY <2>2, <2>3, OtherLinks DEF LinksOf
<1> QED BY <1>1, <1>2, <1>3, <1>4, <1>5 DEF ReplicateLog

LEMMA RequestVoteLinks ==
    ASSUME TypeOK, NEW s \in Server, RequestVote(s)
    PROVE  NothingLearnt
<1> USE DEF connVars
<1>1. CASE \E j \in Server : CallVote(s, j)
  BY <1>1, StartCallLinks DEF CallVote
<1>2. ASSUME NEW res, CountVote(s, res), EndCall(s), UNCHANGED connVars
      PROVE  NothingLearnt
  BY <1>2, EndCallLinks DEF CountVote
<1>3. CASE ReceiveVoteResponse(s) \/ LoseVoteResponse(s)
  BY <1>2, <1>3 DEF ReceiveVoteResponse, LoseVoteResponse
<1>4. CASE EndVote(s)
  <2>1. todo \in [Server -> SUBSET Server] /\ new_node_socket \in [Server -> SUBSET Server]
    BY DEF TypeOK
  <2>2. /\ UNCHANGED <<node_socket, failed_neighbors, callee>>
        /\ todo'[s] = {} /\ new_node_socket'[s] = {}
        /\ \A i \in Server \ {s} : todo'[i] = todo[i] /\ new_node_socket'[i] = new_node_socket[i]
    BY <1>4, <2>1 DEF EndVote, Release, rpcVars
  <2>3. Known(s)' \subseteq Known(s)
    BY <2>2 DEF Known
  <2> QED BY <2>2, <2>3, OtherLinks DEF LinksOf
<1> QED BY <1>1, <1>3, <1>4 DEF RequestVote

LEMMA TimeoutThreadLinks ==
    ASSUME TypeOK, NEW s \in Server, TimeoutThread(s)
    PROVE  NothingLearnt
<1>1. CASE ReadStatus(s) \/ FollowerTimeout(s)
  BY <1>1, SameLinks DEF ReadStatus, FollowerTimeout, linkVars, connVars, loopVars, rpcVars
<1>2. CASE BeginVote(s)
  <2>1. todo \in [Server -> SUBSET Server]
    BY DEF TypeOK
  <2>2. /\ UNCHANGED <<node_socket, failed_neighbors, new_node_socket, callee>>
        /\ todo'[s] = node_socket[s] /\ \A i \in Server \ {s} : todo'[i] = todo[i]
    BY <1>2, <2>1 DEF BeginVote, Acquire, connVars, rpcVars
  <2>3. Known(s)' \subseteq Known(s)
    BY <2>2 DEF Known
  <2> QED BY <2>2, <2>3, OtherLinks DEF LinksOf
<1>3. CASE BeginHeartbeat(s)
  BY <1>3, TryReconnectLinks DEF BeginHeartbeat, rpcVars
<1> QED BY <1>1, <1>2, <1>3 DEF TimeoutThread

LEMMA NextLearnsNothing ==
    ASSUME TypeOK, Next
    PROVE  NothingLearnt
<1>1. ASSUME NEW j \in Server, ServerHandler(j)
      PROVE  NothingLearnt
  BY <1>1, SameLinks
     DEF ServerHandler, CandidateVoteHandler, AppendLogHandler, HandleOrphan, GhostVote, Respond,
         GetVoteResponse, GetLogResponse, linkVars, connVars, threadVars, loopVars, rpcVars
<1>2. ASSUME NEW s \in Server, LeaderThread(s)
      PROVE  NothingLearnt
  BY <1>2, TryReconnectLinks DEF LeaderThread, BeginUpdate, rpcVars
<1>3. ASSUME NEW s \in Server, NEW j \in Server, DropLink(s, j)
      PROVE  NothingLearnt
  BY <1>3, SameLinks DEF DropLink, linkVars, threadVars, loopVars
<1> QED BY <1>1, <1>2, <1>3, TimeoutThreadLinks, RequestVoteLinks, ReplicateLogLinks DEF Next

\* The links that were made at boot are all there ever are.
BootedWith(links) == \A i \in Server : Known(i) \subseteq links[i]

LEMMA InitBootedWith == Init => \E links \in BootLinks : BootedWith(links)
<1> SUFFICES ASSUME Init PROVE BootedWith(node_socket)
  BY DEF Init
<1> QED BY DEF Init, BootedWith, Known

LEMMA NextBootedWith ==
    ASSUME TypeOK, [Next]_vars, NEW links, BootedWith(links)
    PROVE  BootedWith(links)'
<1>1. NothingLearnt
  <2>1. CASE UNCHANGED vars
    BY <2>1, SameLinks DEF vars, linkVars, connVars, threadVars, loopVars, rpcVars
  <2> QED BY <2>1, NextLearnsNothing
<1> QED BY <1>1 DEF NothingLearnt, BootedWith

\* Every server calls, for ever, only servers it connected to when it was started.
LEMMA LinksAreBootLinks == Spec => []\E links \in BootLinks : BootedWith(links)
<1>1. TypeOK /\ (\E links \in BootLinks : BootedWith(links)) /\ [Next]_vars
        => (\E links \in BootLinks : BootedWith(links))'
  BY NextBootedWith
<1> QED BY <1>1, InitBootedWith, TypeCorrect, PTL DEF Spec

-----------------------------------------------------------------------------
(* Servers that are started one after another. *)

\* A graph of connections as InitNeighbors makes them then: each to earlier servers.
StartedInOrder(links) ==
    \E order \in [Server -> Nat] : \A s \in Server : \A j \in links[s] : order[j] < order[s]

\* A set of servers has one that was started first.
LEMMA FirstStarted ==
    ASSUME NEW order \in [Server -> Nat], NEW circle \in SUBSET Server, circle # {}
    PROVE  \E s \in circle : \A j \in circle : ~(order[j] < order[s])
<1> DEFINE times == {order[s] : s \in circle}
<1>1. times \subseteq Nat /\ times # {}
  OBVIOUS
<1>2. \E n \in times : \A m \in times : <<m, n>> \notin OpToRel(<, Nat)
  <2> HIDE DEF times
  <2> QED BY <1>1, NatLessThanWellFounded, WFMin
<1>3. PICK s \in circle : \A m \in times : <<m, order[s]>> \notin OpToRel(<, Nat)
  BY <1>2
<1>4. ASSUME NEW j \in circle, order[j] < order[s]
      PROVE  FALSE
  <2>1. order[j] \in times /\ order[j] \in Nat /\ order[s] \in Nat
    OBVIOUS
  <2>2. <<order[j], order[s]>> \in OpToRel(<, Nat)
    BY <1>4, <2>1 DEF OpToRel
  <2> QED BY <1>3, <2>1, <2>2
<1> QED BY <1>4

LEMMA OrderBreaksCircles ==
    ASSUME NEW links, StartedInOrder(links), BootedWith(links)
    PROVE  NoCircularWait
<1>1. PICK order \in [Server -> Nat] :
          \A s \in Server : \A j \in links[s] : order[j] < order[s]
  BY DEF StartedInOrder
<1> SUFFICES ASSUME NEW circle \in SUBSET Server, circle # {}
             PROVE  \E s \in circle : callee[s] \notin circle
  BY DEF NoCircularWait
<1>2. PICK s \in circle : \A j \in circle : ~(order[j] < order[s])
  BY FirstStarted
<1>3. ASSUME callee[s] \in circle
      PROVE  FALSE
  <2>1. callee[s] \in links[s]
    BY <1>3, ServerAssumption DEF BootedWith, Known
  <2> QED BY <1>1, <1>2, <1>3, <2>1
<1> QED BY <1>3

\* Servers started one after another never wait in a circle for each other's meta_lock,
\* however many they are, whatever fails, is reconnected or elected, and whatever clients
\* update: a server calls the servers it found at boot and no others.
THEOREM NoServersWaitInACircle ==
    ASSUME \A links \in BootLinks : StartedInOrder(links)
    PROVE  Spec => []NoCircularWait
<1>1. (\E links \in BootLinks : BootedWith(links)) => NoCircularWait
  BY OrderBreaksCircles
<1> QED BY <1>1, LinksAreBootLinks, PTL

-----------------------------------------------------------------------------
(* Ballots: what a candidate has been given, in clusters of up to three    *)
(* servers, where the first vote counted besides its own ends an election. *)

SmallCluster == Cardinality(Server) <= 3

\* The candidate's own vote, and the messages it asked the others with.
Asks(s) ==
    /\ holder[s] = "RequestVote" =>
         seen[s] = CANDIDATE /\ current_term[s] >= 1 /\ vote_received[s] = {s}
    /\ request[s].kind = "vote" => request[s].id = s /\ request[s].current_term = current_term[s]
    /\ reply[s].kind = "vote" => reply[s].id = callee[s]

\* Nobody but a leader has another's vote, and no thread believes a leader to be anything
\* else.
Tallies(s) ==
    /\ status[s] # LEADER => vote_received[s] \subseteq {s}
    /\ seen[s] \in {FOLLOWER, CANDIDATE} => status[s] # LEADER

NotSelf == \A s \in Server : s \notin Known(s)

BallotInv == IInv /\ NotSelf /\ \A s \in Server : Asks(s) /\ Tallies(s)

-----------------------------------------------------------------------------
(* Every action keeps the ballots. *)

Ballots == \A i \in Server : Asks(i) /\ Tallies(i)

BallotOf(i) == <<holder[i], seen[i], status[i], current_term[i], voted_for[i], vote_received[i],
                 request[i], reply[i], callee[i]>>

LEMMA SameBallot ==
    ASSUME Ballots, NEW i \in Server, UNCHANGED BallotOf(i)
    PROVE  Asks(i)' /\ Tallies(i)'
BY DEF Ballots, BallotOf, Asks, Tallies

LEMMA OneBallot ==
    ASSUME Ballots, NEW s \in Server, \A i \in Server \ {s} : UNCHANGED BallotOf(i),
           Asks(s)', Tallies(s)'
    PROVE  Ballots'
<1>1. \A i \in Server \ {s} : Asks(i)' /\ Tallies(i)'
  BY SameBallot
<1> QED BY <1>1 DEF Ballots

LEMMA NotCalling ==
    ASSUME IInv, NEW s \in Server, holder[s] = "free" \/ callee[s] = NoServer
    PROVE  callee[s] = NoServer /\ request[s] = NoMsg /\ reply[s] = NoMsg
BY DEF IInv, CallsOK, ServerCallOK, CallOK

\* One vote is enough to win in a small cluster, ...
LEMMA AnyVoteWins ==
    ASSUME SmallCluster, NEW s, NEW j
    PROVE  WonElection({s, j})
<1>1. Cardinality(Server) \in Nat
  BY ServerAssumption, FS_CardinalityType
<1>2. IsFiniteSet({s, j}) /\ {s, j} # {}
  <2>1. IsFiniteSet({s} \cup {j})
    BY FS_Singleton, FS_AddElement
  <2>2. {s} \cup {j} = {s, j}
    OBVIOUS
  <2> QED BY <2>1, <2>2
<1>3. Cardinality({s, j}) \in Nat /\ Cardinality({s, j}) # 0
  BY <1>2, FS_CardinalityType, FS_EmptySet
<1> QED BY <1>1, <1>3 DEF SmallCluster, WonElection, GetPeerSize

\* ... and those of two servers are a majority.
LEMMA TwoVotes ==
    ASSUME SmallCluster, NEW s \in Server, NEW j \in Server \ {s}
    PROVE  Cardinality({s, j}) * 2 > Cardinality(Server)
<1>1. Cardinality(Server) \in Nat
  BY ServerAssumption, FS_CardinalityType
<1>2. IsFiniteSet({s}) /\ Cardinality({s}) = 1
  BY FS_Singleton
<1>3. Cardinality({s} \cup {j}) = 2
  BY <1>2, FS_AddElement
<1>4. {s} \cup {j} = {s, j}
  OBVIOUS
<1> QED BY <1>1, <1>3, <1>4 DEF SmallCluster

LEMMA TimeoutThreadBallots ==
    ASSUME IInv, Ballots, NEW s \in Server, TimeoutThread(s)
    PROVE  Ballots'
<1> USE DEF electionVars, logVars, leaderVars, connVars, netVars, loopVars, rpcVars
<1>1. ElectionTypes /\ ThreadTypes
  BY TypeGroups DEF IInv
<1>2. Asks(s) /\ Tallies(s) /\ UNCHANGED <<request, reply, callee>>
  BY DEF Ballots, TimeoutThread, ReadStatus, FollowerTimeout, BeginVote, BeginHeartbeat
<1>3. CASE ReadStatus(s)
  <2>1. /\ UNCHANGED <<electionVars, holder>> /\ seen[s] = Unread /\ seen'[s] = status[s]
        /\ \A i \in Server \ {s} : seen'[i] = seen[i]
    BY <1>1, <1>3 DEF ReadStatus, ThreadTypes
  <2>2. Asks(s)' /\ Tallies(s)'
    BY <1>2, <2>1 DEF Asks, Tallies, Unread, FOLLOWER, LEADER, CANDIDATE
  <2> QED BY <1>2, <2>1, <2>2, OneBallot DEF BallotOf
<1>4. CASE FollowerTimeout(s)
  <2>1. /\ UNCHANGED <<current_term, voted_for, vote_received, holder>>
        /\ holder[s] = "free" /\ seen[s] = FOLLOWER /\ seen'[s] = Unread
        /\ status'[s] \in {status[s], CANDIDATE}
        /\ \A i \in Server \ {s} : seen'[i] = seen[i] /\ status'[i] = status[i]
    BY <1>1, <1>4 DEF FollowerTimeout, ThreadTypes, ElectionTypes
  <2>2. Asks(s)' /\ Tallies(s)'
    BY <1>2, <2>1 DEF Asks, Tallies, Unread, FOLLOWER, LEADER, CANDIDATE
  <2> QED BY <1>2, <2>1, <2>2, OneBallot DEF BallotOf
<1>5. CASE BeginVote(s)
  <2>1. /\ UNCHANGED <<status, seen>> /\ seen[s] = CANDIDATE /\ holder'[s] = "RequestVote"
        /\ current_term'[s] = current_term[s] + 1 /\ current_term[s] \in Nat
        /\ vote_received'[s] = vote_received[s] \cup {s} /\ holder[s] = "free"
    BY <1>1, <1>5 DEF BeginVote, Acquire, ThreadTypes, ElectionTypes
  <2>2. \A i \in Server \ {s} : /\ holder'[i] = holder[i] /\ current_term'[i] = current_term[i]
                                /\ voted_for'[i] = voted_for[i]
                                /\ vote_received'[i] = vote_received[i]
    BY <1>1, <1>5 DEF BeginVote, Acquire, ThreadTypes, ElectionTypes
  <2>3. Asks(s)' /\ Tallies(s)'
    BY <1>2, <2>1, NotCalling DEF Asks, Tallies, NoMsg, FOLLOWER, LEADER, CANDIDATE
  <2> QED BY <1>2, <2>1, <2>2, <2>3, OneBallot DEF BallotOf
<1>6. CASE BeginHeartbeat(s)
  <2>1. /\ UNCHANGED <<electionVars, seen>> /\ holder'[s] = "Heartbeat"
        /\ \A i \in Server \ {s} : holder'[i] = holder[i]
    BY <1>1, <1>6 DEF BeginHeartbeat, Acquire, ThreadTypes
  <2>2. Asks(s)' /\ Tallies(s)'
    BY <1>2, <2>1 DEF Asks, Tallies
  <2> QED BY <1>2, <2>1, <2>2, OneBallot DEF BallotOf
<1> QED BY <1>3, <1>4, <1>5, <1>6 DEF TimeoutThread

\* How an RPC loop of server s may go on, or end, without electing it.
LoopGoesOn(s) ==
    /\ holder'[s] \in {holder[s], "free"}
    /\ seen'[s] = seen[s] \/ (seen'[s] = Unread /\ holder'[s] = "free")
    /\ \A i \in Server \ {s} : holder'[i] = holder[i] /\ seen'[i] = seen[i]

LEMMA ReleaseGoesOn ==
    ASSUME IInv, NEW s \in Server, Release(s) \/ UNCHANGED <<holder, seen>>
    PROVE  LoopGoesOn(s)
<1>1. ThreadTypes
  BY TypeGroups DEF IInv
<1> QED BY <1>1 DEF Release, ThreadTypes, LoopGoesOn

\* A call that ends, when the ballot is not touched.
LEMMA CallEndsBallots ==
    ASSUME IInv, Ballots, NEW s \in Server, LoopGoesOn(s), EndCall(s),
           UNCHANGED <<status, current_term, voted_for, vote_received>>
    PROVE  Ballots'
<1>1. CallTypes
  BY TypeGroups DEF IInv
<1>2. /\ callee'[s] = NoServer /\ reply'[s] = NoMsg /\ UNCHANGED request
      /\ \A i \in Server \ {s} : callee'[i] = callee[i] /\ reply'[i] = reply[i]
  BY <1>1 DEF EndCall, CallTypes
<1>3. Asks(s) /\ Tallies(s)
  BY DEF Ballots
<1>4. Asks(s)' /\ Tallies(s)'
  BY <1>2, <1>3 DEF Asks, Tallies, LoopGoesOn, NoMsg, Unread, FOLLOWER, CANDIDATE
<1> QED BY <1>2, <1>4, OneBallot DEF BallotOf, LoopGoesOn

\* A server that gives up on a higher term is a follower without votes.
LEMMA DemoteBallots ==
    ASSUME IInv, Ballots, NEW s \in Server, NEW term, Demote(s, term), Release(s), EndCall(s),
           request[s] = NoMsg
    PROVE  Ballots'
<1>1. ElectionTypes /\ CallTypes /\ ThreadTypes
  BY TypeGroups DEF IInv
<1>2. /\ callee'[s] = NoServer /\ reply'[s] = NoMsg /\ UNCHANGED request
      /\ \A i \in Server \ {s} : callee'[i] = callee[i] /\ reply'[i] = reply[i]
  BY <1>1 DEF EndCall, CallTypes
<1>3. /\ status'[s] = FOLLOWER /\ vote_received'[s] = {}
      /\ \A i \in Server \ {s} :
            /\ status'[i] = status[i] /\ current_term'[i] = current_term[i]
            /\ voted_for'[i] = voted_for[i] /\ vote_received'[i] = vote_received[i]
  BY <1>1 DEF Demote, ElectionTypes
<1>4. holder'[s] = "free" /\ \A i \in Server \ {s} : holder'[i] = holder[i] /\ seen'[i] = seen[i]
  BY <1>1 DEF Release, ThreadTypes
<1>5. Asks(s)' /\ Tallies(s)'
  BY <1>2, <1>3, <1>4 DEF Asks, Tallies, NoMsg, FOLLOWER, LEADER
<1> QED BY <1>2, <1>3, <1>4, <1>5, OneBallot DEF BallotOf

\* The first vote that is counted elects the candidate, whoever it is from.
LEMMA CountVoteBallots ==
    ASSUME SmallCluster, IInv, Ballots, NEW s \in Server, holder[s] = "RequestVote",
           NEW res \in RequestVoteResponses, CountVote(s, res), EndCall(s), request[s] = NoMsg
    PROVE  Ballots'
<1> DEFINE counted == res.current_term = current_term[s] /\ res.voted
           votes   == vote_received[s] \cup {res.id}
<1>1. CASE counted
  <2>1. ElectionTypes /\ CallTypes /\ ThreadTypes /\ Asks(s) /\ Tallies(s)
    BY TypeGroups DEF IInv, Ballots
  <2>2. votes = {s, res.id}
    BY <1>1, <2>1 DEF Asks
  <2>3. ~(res.current_term > current_term[s])
    BY <1>1, <2>1 DEF ElectionTypes
  <2>4. /\ vote_received' = [vote_received EXCEPT ![s] = votes]
        /\ InitLeader(s) /\ Release(s) /\ UNCHANGED <<current_term, voted_for>>
    <3>1. WonElection({s, res.id})
      BY AnyVoteWins
    <3>2. WonElection(votes)
      BY <2>2, <3>1
    <3> QED BY <1>1, <2>3, <3>2 DEF CountVote
  <2>5. /\ callee'[s] = NoServer /\ reply'[s] = NoMsg /\ UNCHANGED request
        /\ \A i \in Server \ {s} : callee'[i] = callee[i] /\ reply'[i] = reply[i]
    BY <2>1 DEF EndCall, CallTypes
  <2>6. /\ status'[s] = LEADER /\ vote_received'[s] = {s, res.id}
        /\ \A i \in Server \ {s} :
              status'[i] = status[i] /\ vote_received'[i] = vote_received[i]
    BY <2>1, <2>2, <2>4 DEF InitLeader, ElectionTypes
  <2>7. /\ holder'[s] = "free" /\ seen'[s] = Unread
        /\ \A i \in Server \ {s} : holder'[i] = holder[i] /\ seen'[i] = seen[i]
    BY <2>1, <2>4 DEF Release, ThreadTypes
  <2>8. Asks(s)' /\ Tallies(s)'
    BY <2>1, <2>2, <2>4, <2>5, <2>6, <2>7
       DEF Asks, Tallies, NoMsg, Unread, FOLLOWER, LEADER, CANDIDATE
  <2> QED BY <2>4, <2>5, <2>6, <2>7, <2>8, OneBallot DEF BallotOf
<1>2. CASE Demote(s, res.current_term) /\ Release(s)
  BY <1>2, DemoteBallots
<1>3. CASE UNCHANGED <<electionVars, threadVars>>
  BY <1>3, ReleaseGoesOn, CallEndsBallots DEF electionVars, threadVars
<1> QED BY <1>1, <1>2, <1>3 DEF CountVote

LEMMA RequestVoteBallots ==
    ASSUME SmallCluster, BallotInv, NEW s \in Server, RequestVote(s)
    PROVE  Ballots'
<1>1. IInv /\ Ballots /\ Asks(s) /\ Tallies(s)
  BY DEF BallotInv, Ballots
<1>2. CASE \E j \in Server : CallVote(s, j)
  <2>1. PICK j \in Server : CallVote(s, j)
    BY <1>2
  <2>2. CallTypes
    BY <1>1, TypeGroups DEF IInv
  <2>3. /\ UNCHANGED <<electionVars, seen, holder, reply>> /\ reply[s] = NoMsg
        /\ callee'[s] = j /\ request'[s] \in {RequestVoteMessage(s), NoMsg}
        /\ \A i \in Server \ {s} : callee'[i] = callee[i] /\ request'[i] = request[i]
    BY <1>1, <2>1, <2>2, NotCalling DEF CallVote, StartCall, CallTypes
  <2>4. Asks(s)' /\ Tallies(s)'
    BY <1>1, <2>3 DEF Asks, Tallies, NoMsg, RequestVoteMessage, electionVars
  <2> QED BY <1>1, <2>3, <2>4, OneBallot DEF BallotOf, electionVars
<1>3. CASE ReceiveVoteResponse(s)
  <2>1. /\ reply[s] # NoMsg /\ callee[s] # NoServer /\ holder[s] = "RequestVote"
        /\ CountVote(s, reply[s]) /\ EndCall(s)
    BY <1>3 DEF ReceiveVoteResponse, Answered
  <2>2. ServerCallOK(s) /\ reply[s] \in Replies \cup {NoMsg} /\ callee[s] \in Server \cup {NoServer}
    BY <1>1 DEF IInv, CallsOK, TypeOK
  <2>3. reply[s] \in RequestVoteResponses /\ reply[s].kind = "vote" /\ request[s] = NoMsg
    BY <2>1, <2>2, MessageKinds DEF ServerCallOK, ReplyOK, CallOK, Replicating
  <2> QED BY <1>1, <2>1, <2>3, CountVoteBallots
<1>4. CASE LoseVoteResponse(s)
  <2>1. /\ holder[s] = "RequestVote" /\ EndCall(s) /\ request[s] = NoMsg
    BY <1>4 DEF LoseVoteResponse, Lost
  <2>2. PICK res \in GarbageResponses : CountVote(s, res)
    BY <1>4 DEF LoseVoteResponse
  <2>3. res \in RequestVoteResponses
    BY <2>2, GarbageResponseType
  <2> QED BY <1>1, <2>1, <2>2, <2>3, CountVoteBallots
<1>5. CASE EndVote(s)
  <2>1. UNCHANGED <<electionVars, request, reply, callee>> /\ LoopGoesOn(s)
    BY <1>1, <1>5, ReleaseGoesOn DEF EndVote, rpcVars
  <2>2. Asks(s)' /\ Tallies(s)'
    BY <1>1, <2>1 DEF Asks, Tallies, LoopGoesOn, electionVars, Unread, FOLLOWER, CANDIDATE
  <2> QED BY <1>1, <2>1, <2>2, OneBallot DEF BallotOf, electionVars, LoopGoesOn
<1> QED BY <1>2, <1>3, <1>4, <1>5 DEF RequestVote

LEMMA ReplicateLogBallots ==
    ASSUME BallotInv, NEW s \in Server, ReplicateLog(s)
    PROVE  Ballots'
<1>1. IInv /\ Ballots /\ Asks(s) /\ Tallies(s)
  BY DEF BallotInv, Ballots
<1>2. CASE \E j \in Server : CallAppend(s, j)
  <2>1. PICK j \in Server : CallAppend(s, j)
    BY <1>2
  <2>2. CallTypes
    BY <1>1, TypeGroups DEF IInv
  <2>3. /\ UNCHANGED <<electionVars, seen, holder, reply>> /\ reply[s] = NoMsg
        /\ callee'[s] = j /\ request'[s] \in {LogRequest(s, j), NoMsg}
        /\ \A i \in Server \ {s} : callee'[i] = callee[i] /\ request'[i] = request[i]
    BY <1>1, <2>1, <2>2, NotCalling DEF CallAppend, StartCall, CallTypes
  <2>4. LogRequest(s, j).kind = "append"
    BY DEF LogRequest
  <2>5. Asks(s)' /\ Tallies(s)'
    BY <1>1, <2>3, <2>4 DEF Asks, Tallies, NoMsg, electionVars
  <2> QED BY <1>1, <2>3, <2>5, OneBallot DEF BallotOf, electionVars
<1>3. CASE ReceiveHeartbeatResponse(s) \/ LoseLogResponse(s)
  <2>1. UNCHANGED <<electionVars, holder, seen>> /\ EndCall(s)
    BY <1>3 DEF ReceiveHeartbeatResponse, LoseLogResponse, KeepNode, threadVars
  <2> QED BY <1>1, <2>1, ReleaseGoesOn, CallEndsBallots DEF electionVars
<1>4. CASE ReceiveLogResponse(s)
  <2>1. EndCall(s) /\ reply[s] # NoMsg
    BY <1>4 DEF ReceiveLogResponse, Answered
  <2>2. request[s] = NoMsg
    BY <1>1, <2>1 DEF IInv, CallsOK, ServerCallOK, CallOK
  <2>3. CASE UNCHANGED <<electionVars, holder, seen>>
    BY <1>1, <2>1, <2>3, ReleaseGoesOn, CallEndsBallots DEF electionVars
  <2>4. CASE Demote(s, reply[s].current_term) /\ Release(s)
    BY <1>1, <2>1, <2>2, <2>4, DemoteBallots
  <2> QED BY <1>4, <2>3, <2>4 DEF ReceiveLogResponse, KeepNode
<1>5. CASE NextRound(s) \/ EndReplicate(s)
  <2>1. UNCHANGED <<electionVars, request, reply, callee>> /\ LoopGoesOn(s)
    BY <1>1, <1>5, ReleaseGoesOn DEF NextRound, EndReplicate, rpcVars
  <2>2. Asks(s)' /\ Tallies(s)'
    BY <1>1, <2>1 DEF Asks, Tallies, LoopGoesOn, electionVars, Unread, FOLLOWER, CANDIDATE
  <2> QED BY <1>1, <2>1, <2>2, OneBallot DEF BallotOf, electionVars, LoopGoesOn
<1> QED BY <1>2, <1>3, <1>4, <1>5 DEF ReplicateLog

\* What a handler may do to the ballot of its server j, which makes no call: make it a
\* follower without votes, or leave it alone.
Heard(j) ==
    /\ UNCHANGED <<seen, holder>>
    /\ \/ status'[j] = FOLLOWER /\ vote_received'[j] = {}
       \/ UNCHANGED <<status[j], vote_received[j], voted_for[j], current_term[j]>>
    /\ \A i \in Server \ {j} :
          UNCHANGED <<status[i], vote_received[i], voted_for[i], current_term[i]>>

LEMMA GetVoteResponseHeard ==
    ASSUME IInv, NEW j \in Server, NEW m, GetVoteResponse(j, m)
    PROVE  Heard(j)
<1>1. ElectionTypes
  BY TypeGroups DEF IInv
<1> QED BY <1>1 DEF GetVoteResponse, ElectionTypes, Heard, threadVars

LEMMA GetLogResponseHeard ==
    ASSUME IInv, NEW j \in Server, NEW m, GetLogResponse(j, m)
    PROVE  Heard(j)
<1>1. ElectionTypes
  BY TypeGroups DEF IInv
<1> QED BY <1>1 DEF GetLogResponse, ElectionTypes, Heard, threadVars

\* The handler's own server is not asking anyone.
LEMMA HeardBallot ==
    ASSUME IInv, Ballots, NEW j \in Server, Heard(j), holder[j] = "free",
           UNCHANGED <<request[j], reply[j], callee[j]>>
    PROVE  Asks(j)' /\ Tallies(j)'
<1>1. request[j] = NoMsg /\ reply[j] = NoMsg /\ Asks(j) /\ Tallies(j)
  BY NotCalling DEF Ballots
<1> QED BY <1>1 DEF Heard, Asks, Tallies, NoMsg, FOLLOWER, LEADER

LEMMA ServerHandlerBallots ==
    ASSUME BallotInv, NEW j \in Server, ServerHandler(j)
    PROVE  Ballots'
<1>1. IInv /\ Ballots
  BY DEF BallotInv, Ballots
<1>2. ASSUME NEW s \in Server, holder[j] = "free", callee[s] = j, Heard(j), NEW res,
             Respond(s, res), res.kind = "vote" => res.id = j
      PROVE  Ballots'
  <2>1. s # j
    BY <1>1, <1>2, NotCalling, ServerAssumption
  <2>2. CallTypes
    BY <1>1, TypeGroups DEF IInv
  <2>3. /\ request'[s] = NoMsg /\ reply'[s] = res /\ UNCHANGED callee
        /\ \A i \in Server \ {s} : request'[i] = request[i] /\ reply'[i] = reply[i]
    BY <1>2, <2>2 DEF Respond, CallTypes
  <2>4. Asks(j)' /\ Tallies(j)'
    BY <1>1, <1>2, <2>1, <2>3, HeardBallot
  <2>5. Asks(s)' /\ Tallies(s)'
    BY <1>1, <1>2, <2>1, <2>3 DEF Ballots, Asks, Tallies, Heard, NoMsg
  <2>6. \A i \in Server \ {s, j} : Asks(i)' /\ Tallies(i)'
    BY <1>1, <1>2, <2>3, SameBallot DEF BallotOf, Heard
  <2> QED BY <2>4, <2>5, <2>6 DEF Ballots
<1>3. ASSUME NEW s \in Server, CandidateVoteHandler(j, s)
      PROVE  Ballots'
  BY <1>1, <1>2, <1>3, GetVoteResponseHeard DEF CandidateVoteHandler, VoteResponse
<1>4. ASSUME NEW s \in Server, AppendLogHandler(j, s)
      PROVE  Ballots'
  <2>1. LogResponse(j, request[s], current_term'[j]).kind = "append"
    BY DEF LogResponse
  <2> QED BY <1>1, <1>2, <1>4, <2>1, GetLogResponseHeard DEF AppendLogHandler
<1>5. ASSUME Heard(j), holder[j] = "free", UNCHANGED <<request, reply, callee>>
      PROVE  Ballots'
  <2>1. Asks(j)' /\ Tallies(j)'
    BY <1>1, <1>5, HeardBallot
  <2>2. \A i \in Server \ {j} : Asks(i)' /\ Tallies(i)'
    BY <1>1, <1>5, SameBallot DEF BallotOf, Heard
  <2> QED BY <2>1, <2>2 DEF Ballots
<1>6. ASSUME NEW o \in orphans, HandleOrphan(j, o)
      PROVE  Ballots'
  BY <1>1, <1>5, <1>6, GetVoteResponseHeard, GetLogResponseHeard DEF HandleOrphan
<1>7. CASE GhostVote(j)
  BY <1>1, <1>5, <1>7, GetVoteResponseHeard DEF GhostVote, rpcVars
<1> QED BY <1>3, <1>4, <1>6, <1>7 DEF ServerHandler

LEMMA LeaderThreadBallots ==
    ASSUME BallotInv, NEW s \in Server, LeaderThread(s)
    PROVE  Ballots'
<1>1. IInv /\ Ballots /\ Asks(s) /\ Tallies(s) /\ ThreadTypes
  BY TypeGroups DEF BallotInv, Ballots, IInv
<1>2. /\ UNCHANGED <<electionVars, request, reply, callee, seen>> /\ holder'[s] = "Update"
      /\ \A i \in Server \ {s} : holder'[i] = holder[i]
  BY <1>1 DEF LeaderThread, BeginUpdate, Acquire, ThreadTypes, rpcVars
<1>3. Asks(s)' /\ Tallies(s)'
  BY <1>1, <1>2 DEF Asks, Tallies, electionVars
<1> QED BY <1>1, <1>2, <1>3, OneBallot DEF BallotOf, electionVars

LEMMA DropLinkBallots ==
    ASSUME BallotInv, NEW s \in Server, NEW j \in Server, DropLink(s, j)
    PROVE  Ballots'
<1>1. IInv /\ Ballots /\ Asks(s) /\ Tallies(s) /\ CallTypes
  BY TypeGroups DEF BallotInv, Ballots, IInv
<1>2. /\ UNCHANGED <<electionVars, holder, seen, callee>>
      /\ request'[s] \in {request[s], NoMsg} /\ reply'[s] \in {reply[s], NoMsg}
      /\ \A i \in Server \ {s} : request'[i] = request[i] /\ reply'[i] = reply[i]
  BY <1>1 DEF DropLink, CallTypes, threadVars
<1>3. Asks(s)' /\ Tallies(s)'
  BY <1>1, <1>2 DEF Asks, Tallies, NoMsg, electionVars
<1> QED BY <1>1, <1>2, <1>3, OneBallot DEF BallotOf, electionVars

LEMMA NextBallots ==
    ASSUME SmallCluster, BallotInv, [Next]_vars
    PROVE  Ballots'
<1>1. IInv /\ Ballots
  BY DEF BallotInv, Ballots
<1>2. CASE Next
  BY <1>1, <1>2, TimeoutThreadBallots, RequestVoteBallots, ReplicateLogBallots, ServerHandlerBallots,
     LeaderThreadBallots, DropLinkBallots DEF Next
<1>3. CASE UNCHANGED vars
  <2>1. \A i \in Server : UNCHANGED BallotOf(i)
    BY <1>3 DEF vars, electionVars, threadVars, rpcVars, BallotOf
  <2> QED BY <1>1, <2>1, SameBallot DEF Ballots
<1> QED BY <1>2, <1>3

LEMMA NotSelfInvariant == Spec => []NotSelf
<1>1. (\E links \in BootLinks : BootedWith(links)) => NotSelf
  BY BootAssumption DEF BootedWith, NotSelf
<1> QED BY <1>1, LinksAreBootLinks, PTL

LEMMA BallotInvariant ==
    ASSUME SmallCluster
    PROVE  Spec => []BallotInv
<1>1. Init => Ballots
  BY DEF Init, Ballots, Asks, Tallies, NoMsg, Unread, FOLLOWER, LEADER, CANDIDATE
<1>2. BallotInv <=> IInv /\ NotSelf /\ Ballots
  BY DEF BallotInv, Ballots
<1>3. BallotInv /\ [Next]_vars => Ballots'
  BY NextBallots
<1> QED BY <1>1, <1>2, <1>3, InductiveInvariant, NotSelfInvariant, PTL DEF Spec

-----------------------------------------------------------------------------
(* Who becomes leader. *)

\* A leader was one before and has the votes it had, or was elected for want of a
\* response, or has its own vote and that of the server that answered.
Elects(s) ==
    status'[s] = LEADER =>
        \/ status[s] = LEADER /\ vote_received'[s] = vote_received[s]
        \/ Lost(s)
        \/ \E j \in Server \ {s} : vote_received'[s] = {s, j}

LEMMA KeepsElects ==
    ASSUME NEW s \in Server, status'[s] # LEADER \/ UNCHANGED <<status[s], vote_received[s]>>
    PROVE  Elects(s)
BY DEF Elects

LEMMA TimeoutThreadElects ==
    ASSUME BallotInv, NEW s \in Server, TimeoutThread(s), NEW i \in Server
    PROVE  Elects(i)
<1>1. ElectionTypes /\ Tallies(s)
  BY TypeGroups DEF BallotInv, IInv
<1>2. CASE ReadStatus(s) \/ BeginHeartbeat(s)
  BY <1>2, KeepsElects DEF ReadStatus, BeginHeartbeat, electionVars
<1>3. CASE FollowerTimeout(s)
  <2>1. status'[i] \in {status[i], CANDIDATE} /\ UNCHANGED vote_received
    BY <1>1, <1>3 DEF FollowerTimeout, ElectionTypes
  <2> QED BY <2>1, KeepsElects DEF LEADER, CANDIDATE
<1>4. CASE BeginVote(s)
  <2>1. /\ UNCHANGED status /\ status[s] # LEADER
        /\ i # s => vote_received'[i] = vote_received[i]
    BY <1>1, <1>4 DEF BeginVote, ElectionTypes, Tallies
  <2> QED BY <2>1, KeepsElects
<1> QED BY <1>2, <1>3, <1>4 DEF TimeoutThread

LEMMA DemoteElects ==
    ASSUME IInv, NEW s \in Server, NEW term, Demote(s, term), NEW i \in Server
    PROVE  Elects(i)
<1>1. ElectionTypes
  BY TypeGroups DEF IInv
<1>2. status'[s] # LEADER /\ (i # s => UNCHANGED <<status[i], vote_received[i]>>)
  BY <1>1 DEF Demote, ElectionTypes, LEADER, FOLLOWER
<1> QED BY <1>2, KeepsElects

LEMMA CountVoteElects ==
    ASSUME BallotInv, NEW s \in Server, holder[s] = "RequestVote", NEW res, CountVote(s, res),
           Lost(s) \/ res.id \in Server \ {s}, NEW i \in Server
    PROVE  Elects(i)
<1>1. IInv /\ ElectionTypes /\ Asks(s) /\ Tallies(s)
  BY TypeGroups DEF BallotInv, IInv
<1> DEFINE votes == vote_received[s] \cup {res.id}
<1>2. CASE vote_received' = [vote_received EXCEPT ![s] = votes]
  <2>1. vote_received'[s] = {s, res.id} /\ (i # s => vote_received'[i] = vote_received[i])
    BY <1>1, <1>2 DEF ElectionTypes, Asks
  <2>2. status[s] # LEADER /\ (i # s => status'[i] = status[i])
    BY <1>1 DEF CountVote, InitLeader, Demote, Asks, Tallies, ElectionTypes, electionVars
  <2>3. CASE i # s
    BY <2>1, <2>2, <2>3, KeepsElects
  <2>4. CASE i = s
    BY <2>1, <2>4 DEF Elects
  <2> QED BY <2>3, <2>4
<1>3. CASE Demote(s, res.current_term)
  BY <1>1, <1>3, DemoteElects
<1>4. CASE UNCHANGED electionVars
  BY <1>4, KeepsElects DEF electionVars
<1> QED BY <1>2, <1>3, <1>4 DEF CountVote

LEMMA RequestVoteElects ==
    ASSUME BallotInv, NEW s \in Server, RequestVote(s), NEW i \in Server
    PROVE  Elects(i)
<1>1. IInv /\ Asks(s)
  BY DEF BallotInv
<1>2. CASE (\E j \in Server : CallVote(s, j)) \/ EndVote(s)
  BY <1>2, KeepsElects DEF CallVote, EndVote, electionVars
<1>3. CASE ReceiveVoteResponse(s)
  <2>1. /\ reply[s] # NoMsg /\ callee[s] # NoServer /\ holder[s] = "RequestVote"
        /\ CountVote(s, reply[s])
    BY <1>3 DEF ReceiveVoteResponse, Answered
  <2>2. ServerCallOK(s) /\ reply[s] \in Replies \cup {NoMsg} /\ callee[s] \in Server \cup {NoServer}
    BY <1>1 DEF IInv, CallsOK, TypeOK
  <2>3. reply[s].kind = "vote"
    BY <2>1, <2>2, MessageKinds DEF ServerCallOK, ReplyOK, CallOK, Replicating
  <2>4. callee[s] # s
    BY <2>1 DEF BallotInv, NotSelf, Known
  <2> QED BY <1>1, <2>1, <2>2, <2>3, <2>4, CountVoteElects DEF Asks
<1>4. CASE LoseVoteResponse(s)
  <2>1. holder[s] = "RequestVote" /\ Lost(s) /\ \E res \in GarbageResponses : CountVote(s, res)
    BY <1>4 DEF LoseVoteResponse
  <2> QED BY <2>1, CountVoteElects
<1> QED BY <1>2, <1>3, <1>4 DEF RequestVote

LEMMA ReplicateLogElects ==
    ASSUME BallotInv, NEW s \in Server, ReplicateLog(s), NEW i \in Server
    PROVE  Elects(i)
<1>1. CASE UNCHANGED electionVars
  BY <1>1, KeepsElects DEF electionVars
<1>2. CASE Demote(s, reply[s].current_term)
  BY <1>2, DemoteElects DEF BallotInv
<1> QED BY <1>1, <1>2 DEF ReplicateLog, CallAppend, ReceiveHeartbeatResponse, ReceiveLogResponse,
           LoseLogResponse, NextRound, EndReplicate

LEMMA ServerHandlerElects ==
    ASSUME BallotInv, NEW j \in Server, ServerHandler(j), NEW i \in Server
    PROVE  Elects(i)
<1>1. Heard(j)
  BY GetVoteResponseHeard, GetLogResponseHeard
     DEF BallotInv, ServerHandler, CandidateVoteHandler, AppendLogHandler, HandleOrphan, GhostVote
<1>2. status'[i] # LEADER \/ UNCHANGED <<status[i], vote_received[i]>>
  BY <1>1 DEF Heard, FOLLOWER, LEADER
<1> QED BY <1>2, KeepsElects

LEMMA NextElects ==
    ASSUME BallotInv, [Next]_vars, NEW i \in Server
    PROVE  Elects(i)
<1>1. ASSUME NEW s \in Server, LeaderThread(s) \/ \E j \in Server : DropLink(s, j)
      PROVE  Elects(i)
  BY <1>1, KeepsElects DEF LeaderThread, BeginUpdate, DropLink, electionVars
<1>2. CASE UNCHANGED vars
  BY <1>2, KeepsElects DEF vars, electionVars
<1> QED BY <1>1, <1>2, TimeoutThreadElects, RequestVoteElects, ReplicateLogElects,
           ServerHandlerElects DEF Next

\* In clusters of up to three servers, who becomes leader on a response it received has the
\* votes of a majority, its own and the answering server's, although WonElection compares
\* with the number of peers and vote_received is not emptied between candidatures: through
\* broken connections, and whatever is read from buffers nothing was received into.  From
\* four servers on it does not hold, and who is elected for want of a response has its own
\* vote only.
THEOREM LeadersHaveMajority ==
    ASSUME SmallCluster
    PROVE  Spec => ElectedByVotes
<1> DEFINE Voted ==
        \A s \in Server :
            status[s] # LEADER /\ status'[s] = LEADER /\ Answered(s) =>
                Cardinality(vote_received'[s] \cap Server) * 2 > Cardinality(Server)
<1>1. ASSUME BallotInv, [Next]_vars PROVE Voted
  <2> SUFFICES ASSUME NEW s \in Server, status[s] # LEADER, status'[s] = LEADER, Answered(s)
               PROVE  Cardinality(vote_received'[s] \cap Server) * 2 > Cardinality(Server)
    OBVIOUS
  <2>1. ~Lost(s)
    BY DEF Answered, Lost
  <2>2. PICK j \in Server \ {s} : vote_received'[s] = {s, j}
    BY <1>1, <2>1, NextElects DEF Elects
  <2>3. vote_received'[s] \cap Server = {s, j}
    BY <2>2
  <2> QED BY <2>3, TwoVotes
<1>2. BallotInv /\ [Next]_vars => [Voted]_vars
  BY <1>1
<1> QED BY <1>2, BallotInvariant, PTL DEF Spec, ElectedByVotes

-----------------------------------------------------------------------------
(* The first term is where terms start: no leader, and no log request on   *)
(* its way, takes anybody back to the time before it.                      *)

TermsStarted ==
    /\ \A s \in Server : allocated[s] => current_term[s] >= 1
    /\ \A m \in AppendsInFlight : m.current_term >= 1

\* A step makes a term no lower than it was, or that of a log request on its way; who is
\* elected was asking for votes.
TermFrom(i) ==
    /\ \/ current_term'[i] >= current_term[i]
       \/ \E m \in AppendsInFlight : current_term'[i] = m.current_term
    /\ allocated'[i] => \/ allocated[i]
                        \/ holder[i] = "RequestVote" /\ current_term'[i] = current_term[i]

LEMMA SameTerm ==
    ASSUME IInv, NEW i \in Server, UNCHANGED current_term[i], allocated'[i] = allocated[i]
    PROVE  TermFrom(i)
<1>1. current_term[i] \in Nat
  BY DEF IInv, TypeOK
<1> QED BY <1>1 DEF TermFrom

LEMMA DemoteTerm ==
    ASSUME IInv, NEW s \in Server, NEW term, term > current_term[s], Demote(s, term), IInv',
           UNCHANGED allocated, NEW i \in Server
    PROVE  TermFrom(i)
<1>1. ElectionTypes /\ ElectionTypes'
  <2>1. TypeOK /\ TypeOK'
    BY DEF IInv
  <2> QED BY <2>1, TypeGroups DEF TypeOK, ElectionTypes
<1>2. current_term'[s] = term /\ (i # s => current_term'[i] = current_term[i])
  BY <1>1 DEF Demote, ElectionTypes
<1>3. current_term[s] \in Nat /\ current_term'[s] \in Nat
  BY <1>1 DEF ElectionTypes
<1>4. CASE i = s
  BY <1>2, <1>3, <1>4 DEF TermFrom
<1>5. CASE i # s
  BY <1>2, <1>5, SameTerm
<1> QED BY <1>4, <1>5

LEMMA RequestVoteTerm ==
    ASSUME IInv, IInv', NEW s \in Server, RequestVote(s), NEW i \in Server
    PROVE  TermFrom(i)
<1>1. LeaderTypes /\ ElectionTypes
  BY TypeGroups DEF IInv
<1>2. CASE (\E j \in Server : CallVote(s, j)) \/ EndVote(s)
  BY <1>2, SameTerm DEF CallVote, EndVote, electionVars, leaderVars
<1>3. ASSUME NEW res, CountVote(s, res), holder[s] = "RequestVote"
      PROVE  TermFrom(i)
  <2>1. CASE res.current_term > current_term[s] /\ Demote(s, res.current_term) /\ UNCHANGED leaderVars
    BY <2>1, DemoteTerm DEF leaderVars
  <2>2. CASE UNCHANGED current_term /\ (InitLeader(s) \/ UNCHANGED leaderVars)
    <3>1. i # s => allocated'[i] = allocated[i]
      BY <1>1, <2>2 DEF InitLeader, LeaderTypes, leaderVars
    <3>2. CASE i = s
      BY <1>1, <1>3, <2>2, <3>2 DEF TermFrom, ElectionTypes
    <3>3. CASE i # s
      BY <2>2, <3>1, <3>3, SameTerm
    <3> QED BY <3>2, <3>3
  <2> QED BY <1>3, <2>1, <2>2 DEF CountVote, electionVars
<1>4. CASE ReceiveVoteResponse(s) \/ LoseVoteResponse(s)
  BY <1>3, <1>4 DEF ReceiveVoteResponse, LoseVoteResponse
<1> QED BY <1>2, <1>4 DEF RequestVote

LEMMA ReplicateLogTerm ==
    ASSUME IInv, IInv', NEW s \in Server, ReplicateLog(s), NEW i \in Server
    PROVE  TermFrom(i)
<1>1. UNCHANGED allocated
  BY DEF ReplicateLog, CallAppend, ReceiveHeartbeatResponse, ReceiveLogResponse, LoseLogResponse,
         NextRound, EndReplicate, leaderVars
<1>2. CASE UNCHANGED electionVars
  BY <1>1, <1>2, SameTerm DEF electionVars
<1>3. CASE reply[s].current_term > current_term[s] /\ Demote(s, reply[s].current_term)
  BY <1>1, <1>3, DemoteTerm
<1> QED BY <1>2, <1>3 DEF ReplicateLog, CallAppend, ReceiveHeartbeatResponse, ReceiveLogResponse,
           LoseLogResponse, NextRound, EndReplicate

LEMMA ServerHandlerTerm ==
    ASSUME IInv, IInv', NEW j \in Server, ServerHandler(j), NEW i \in Server
    PROVE  TermFrom(i)
<1>1. ElectionTypes /\ ElectionTypes'
  <2>1. TypeOK /\ TypeOK'
    BY DEF IInv
  <2> QED BY <2>1, TypeGroups DEF TypeOK, ElectionTypes
<1>2. ASSUME NEW m, GetVoteResponse(j, m)
      PROVE  TermFrom(i)
  <2>1. /\ UNCHANGED allocated
        /\ current_term'[i] = current_term[i] \/ current_term'[i] > current_term[i]
    BY <1>1, <1>2 DEF GetVoteResponse, ElectionTypes, leaderVars
  <2>2. current_term[i] \in Nat /\ current_term'[i] \in Nat
    BY <1>1 DEF ElectionTypes
  <2> QED BY <2>1, <2>2 DEF TermFrom
<1>3. ASSUME NEW m \in AppendsInFlight, GetLogResponse(j, m)
      PROVE  TermFrom(i)
  <2>1. /\ UNCHANGED allocated
        /\ current_term'[i] = current_term[i] \/ current_term'[i] = m.current_term
    BY <1>1, <1>3 DEF GetLogResponse, ElectionTypes, leaderVars
  <2>2. current_term[i] \in Nat
    BY <1>1 DEF ElectionTypes
  <2> QED BY <2>1, <2>2 DEF TermFrom
<1>4. \A s \in Server : AppendLogHandler(j, s) => request[s] \in AppendsInFlight
  BY DEF AppendLogHandler, AppendsInFlight, InFlight
<1>5. \A o \in orphans : o.req.kind = "append" => o.req \in AppendsInFlight
  BY DEF AppendsInFlight, InFlight
<1> QED BY <1>2, <1>3, <1>4, <1>5
        DEF ServerHandler, CandidateVoteHandler, AppendLogHandler, HandleOrphan, GhostVote

LEMMA NextTerm ==
    ASSUME IInv, IInv', Next, NEW i \in Server
    PROVE  TermFrom(i)
<1>1. ElectionTypes
  BY TypeGroups DEF IInv
<1>2. ASSUME NEW s \in Server, BeginVote(s)
      PROVE  TermFrom(i)
  <2>1. UNCHANGED allocated /\ current_term'[i] \in {current_term[i], current_term[i] + 1}
    BY <1>1, <1>2 DEF BeginVote, ElectionTypes, leaderVars
  <2> QED BY <1>1, <2>1 DEF TermFrom, ElectionTypes
<1>3. ASSUME NEW s \in Server,
             ReadStatus(s) \/ FollowerTimeout(s) \/ BeginHeartbeat(s) \/ LeaderThread(s)
             \/ \E j \in Server : DropLink(s, j)
      PROVE  TermFrom(i)
  BY <1>3, SameTerm DEF ReadStatus, FollowerTimeout, BeginHeartbeat, LeaderThread, BeginUpdate,
                        DropLink, electionVars, leaderVars
<1> QED BY <1>2, <1>3, RequestVoteTerm, ReplicateLogTerm, ServerHandlerTerm DEF Next, TimeoutThread

\* A log request that is new was just made by a replication loop.
LEMMA NextAppends ==
    ASSUME IInv, Next, NEW m \in AppendsInFlight'
    PROVE  m \in AppendsInFlight \/ \E s \in Server : Replicating(s) /\ m.current_term = current_term[s]
<1>1. CallTypes
  BY TypeGroups DEF IInv
<1>2. ASSUME NEW s \in Server, NEW j \in Server, CallAppend(s, j)
      PROVE  m \in AppendsInFlight \/ (Replicating(s) /\ m.current_term = current_term[s])
  <2>1. /\ Replicating(s) /\ UNCHANGED orphans
        /\ request'[s] \in {LogRequest(s, j), NoMsg}
        /\ \A i \in Server \ {s} : request'[i] = request[i]
    BY <1>1, <1>2 DEF CallAppend, StartCall, CallTypes
  <2>2. LogRequest(s, j).current_term = current_term[s] /\ NoMsg.kind # "append"
    BY DEF LogRequest, NoMsg
  <2>3. m = request'[s] \/ m \in AppendsInFlight
    BY <2>1 DEF AppendsInFlight, InFlight
  <2>4. m.kind = "append"
    BY DEF AppendsInFlight
  <2> QED BY <2>1, <2>2, <2>3, <2>4
<1>3. CASE NoNewAppends
  BY <1>3, NothingNew
<1>4. CASE UNCHANGED <<request, orphans>>
  BY <1>3, <1>4 DEF NoNewAppends
<1>5. ASSUME NEW s \in Server, NEW j \in Server, CallVote(s, j)
      PROVE  NoNewAppends
  BY <1>1, <1>5 DEF CallVote, StartCall, CallTypes, NoNewAppends, RequestVoteMessage, NoMsg
<1>6. ASSUME NEW s \in Server, NEW j \in Server, DropLink(s, j)
      PROVE  NoNewAppends
  BY <1>1, <1>6 DEF DropLink, CallTypes, NoNewAppends
<1>7. ASSUME NEW j \in Server, ServerHandler(j)
      PROVE  NoNewAppends
  BY <1>1, <1>7 DEF ServerHandler, CandidateVoteHandler, AppendLogHandler, HandleOrphan, GhostVote,
                    Respond, rpcVars, CallTypes, NoNewAppends
<1>8. ASSUME NEW s \in Server, TimeoutThread(s) \/ LeaderThread(s)
      PROVE  UNCHANGED <<request, orphans>>
  BY <1>8 DEF TimeoutThread, ReadStatus, FollowerTimeout, BeginVote, BeginHeartbeat, LeaderThread,
              BeginUpdate, rpcVars
<1>9. ASSUME NEW s \in Server, RequestVote(s), \A j \in Server : ~CallVote(s, j)
      PROVE  UNCHANGED <<request, orphans>>
  BY <1>9 DEF RequestVote, ReceiveVoteResponse, LoseVoteResponse, EndVote, EndCall, rpcVars
<1>10. ASSUME NEW s \in Server, ReplicateLog(s), \A j \in Server : ~CallAppend(s, j)
       PROVE  UNCHANGED <<request, orphans>>
  BY <1>10 DEF ReplicateLog, ReceiveHeartbeatResponse, ReceiveLogResponse, LoseLogResponse,
               NextRound, EndReplicate, EndCall, rpcVars
<1> QED BY <1>2, <1>3, <1>4, <1>5, <1>6, <1>7, <1>8, <1>9, <1>10 DEF Next

LEMMA NextTermsStarted ==
    ASSUME BallotInv, LeaderInv, IInv', TermsStarted, [Next]_vars
    PROVE  TermsStarted'
<1>1. CASE UNCHANGED vars
  BY <1>1 DEF vars, electionVars, leaderVars, rpcVars, TermsStarted, AppendsInFlight, InFlight
<1>2. CASE Next
  <2>1. current_term \in [Server -> Nat] /\ current_term' \in [Server -> Nat] /\ IInv
    BY DEF BallotInv, IInv, TypeOK
  <2>2. ASSUME NEW i \in Server, allocated'[i]
        PROVE  current_term'[i] >= 1
    <3>1. TermFrom(i)
      BY <1>2, <2>1, NextTerm
    <3>2. current_term[i] >= 1
      BY <2>2, <3>1 DEF TermFrom, TermsStarted, BallotInv, Asks
    <3> QED BY <2>1, <3>1, <3>2 DEF TermFrom, TermsStarted
  <2>3. ASSUME NEW m \in AppendsInFlight'
        PROVE  m.current_term >= 1
    BY <1>2, <2>1, <2>3, NextAppends DEF TermsStarted, LeaderInv, Reigned
  <2> QED BY <2>2, <2>3 DEF TermsStarted
<1> QED BY <1>1, <1>2

LEMMA TermsHaveStarted ==
    ASSUME SmallCluster
    PROVE  Spec => []TermsStarted
<1>1. Init => TermsStarted
  BY DEF Init, TermsStarted, AppendsInFlight, InFlight, NoMsg
<1>2. BallotInv /\ BallotInv' /\ LeaderInv /\ TermsStarted /\ [Next]_vars => TermsStarted'
  BY NextTermsStarted DEF BallotInv
<1> QED BY <1>1, <1>2, BallotInvariant, LeaderInvariant, PTL DEF Spec

-----------------------------------------------------------------------------
(* Until a connection breaks. *)

\* Every connection works.
OwnLinks == \A s \in Server : Known(s) \subseteq conn[s]

\* Every leader has another server's vote besides its own.
Counted == \A s \in Server : status[s] = LEADER => \E j \in Server \ {s} : vote_received[s] = {s, j}

LEMMA NotLost ==
    ASSUME OwnLinks, NEW s \in Server
    PROVE  ~Lost(s)
BY DEF OwnLinks, Known, Lost

\* Connections are made again, and break only in DropLink.
LEMMA NextConnections ==
    ASSUME TypeOK, [Next]_vars, drops' = 0
    PROVE  drops = 0 /\ \A i \in Server : conn[i] \subseteq conn'[i]
<1>1. conn \in [Server -> SUBSET Server] /\ drops \in Nat
  BY DEF TypeOK
<1>2. ASSUME NEW s \in Server, NEW j \in Server, DropLink(s, j)
      PROVE  FALSE
  BY <1>1, <1>2 DEF DropLink
<1>3. ASSUME NEW s \in Server, TryReconnect(s), UNCHANGED drops
      PROVE  drops = 0 /\ \A i \in Server : conn[i] \subseteq conn'[i]
  <2>1. \E ok : conn' = [conn EXCEPT ![s] = conn[s] \cup ok]
    BY <1>3 DEF TryReconnect
  <2> QED BY <1>1, <1>3, <2>1
<1>4. CASE UNCHANGED <<conn, drops>>
  BY <1>4
<1>5. ASSUME NEW s \in Server, TimeoutThread(s)
      PROVE  UNCHANGED <<conn, drops>> \/ (TryReconnect(s) /\ UNCHANGED drops)
  BY <1>5 DEF TimeoutThread, ReadStatus, FollowerTimeout, BeginVote, BeginHeartbeat, connVars, netVars
<1>6. ASSUME NEW s \in Server, LeaderThread(s)
      PROVE  TryReconnect(s) /\ UNCHANGED drops
  BY <1>6 DEF LeaderThread, BeginUpdate
<1>7. ASSUME NEW s \in Server, RequestVote(s) \/ ReplicateLog(s)
      PROVE  UNCHANGED <<conn, drops>>
  BY <1>7 DEF RequestVote, CallVote, ReceiveVoteResponse, LoseVoteResponse, EndVote, ReplicateLog,
              CallAppend, ReceiveHeartbeatResponse, ReceiveLogResponse, LoseLogResponse, NextRound,
              EndReplicate, connVars, netVars
<1>8. ASSUME NEW j \in Server, ServerHandler(j)
      PROVE  UNCHANGED <<conn, drops>>
  BY <1>8 DEF ServerHandler, CandidateVoteHandler, AppendLogHandler, HandleOrphan, GhostVote, Respond,
              GetVoteResponse, GetLogResponse, connVars, netVars
<1>9. CASE UNCHANGED vars
  BY <1>4, <1>9 DEF vars, connVars, netVars
<1> QED BY <1>2, <1>3, <1>4, <1>5, <1>6, <1>7, <1>8, <1>9 DEF Next

-----------------------------------------------------------------------------
(* Votes of the first term. *)

\* Server s has the vote of server j in the term s is in.
HasVote(s, j) ==
    \/ status[s] = LEADER /\ j \in vote_received[s]
    \/ holder[s] = "RequestVote" /\ j = s
    \/ /\ reply[s].kind = "vote" /\ reply[s].voted /\ reply[s].current_term = current_term[s]
       /\ callee[s] = j

\* Server j gave s its vote in the first term, or has forgotten whom it gave it, or is in
\* a later one.  It does not return to the time before the first term.
Stands(s, j) ==
    current_term[j] >= 1 /\ (current_term[j] = 1 => voted_for[j] \in {s, NoServer})

VotesStand == \A s, j \in Server : HasVote(s, j) /\ current_term[s] = 1 => Stands(s, j)

VotesExclusive ==
    \A s, t, j \in Server :
        HasVote(s, j) /\ HasVote(t, j) /\ current_term[s] = 1 /\ current_term[t] = 1 => s = t

\* What a step does to server j as a voter: a higher term, or the vote taken back, or
\* nothing.
Votes(j) ==
    current_term[j] >= 1 =>
        \/ current_term'[j] > current_term[j]
        \/ current_term'[j] >= 1 /\ voted_for'[j] = NoServer
        \/ current_term'[j] = current_term[j] /\ voted_for'[j] = voted_for[j]

\* What a step does to server s as a candidate: no vote is gained, ...
NoGain(s) ==
    \A j \in Server : HasVote(s, j)' => HasVote(s, j) /\ current_term'[s] = current_term[s]

\* ... or it votes for itself in a new term, ...
OwnVote(s) ==
    /\ current_term'[s] > current_term[s] /\ voted_for'[s] = s
    /\ \A j \in Server : HasVote(s, j)' => j = s

\* ... or a voter, which was not further and had not voted for another, gives it its vote.
Gain(s) ==
    /\ current_term'[s] = current_term[s]
    /\ \A j \in Server : HasVote(s, j)' =>
         \/ HasVote(s, j)
         \/ /\ current_term'[j] = current_term[s] /\ voted_for'[j] = s
            /\ current_term[j] < current_term[s] \/ voted_for[j] = s

VoteStep ==
    /\ \A j \in Server : Votes(j)
    /\ \E a \in Server :
         /\ NoGain(a) \/ OwnVote(a) \/ Gain(a)
         /\ \A s \in Server \ {a} : NoGain(s)

LEMMA VotesKept ==
    ASSUME IInv, IInv', VotesStand, VotesExclusive, VoteStep
    PROVE  VotesStand' /\ VotesExclusive'
<1>1. current_term \in [Server -> Nat] /\ current_term' \in [Server -> Nat]
  BY DEF IInv, TypeOK
<1>2. PICK a \in Server : /\ NoGain(a) \/ OwnVote(a) \/ Gain(a)
                          /\ \A s \in Server \ {a} : NoGain(s)
  BY DEF VoteStep
<1>3. \A s, j \in Server : Stands(s, j) => Stands(s, j)'
  <2> SUFFICES ASSUME NEW s \in Server, NEW j \in Server, Stands(s, j)
               PROVE  Stands(s, j)'
    OBVIOUS
  <2>1. Votes(j) /\ current_term[j] \in Nat /\ current_term'[j] \in Nat
    BY <1>1 DEF VoteStep
  <2> QED BY <2>1 DEF Votes, Stands
<1>4. VotesStand'
  <2> SUFFICES ASSUME NEW s \in Server, NEW j \in Server, HasVote(s, j)', current_term'[s] = 1
               PROVE  Stands(s, j)'
    BY DEF VotesStand
  <2>1. CASE NoGain(s)
    BY <1>3, <2>1 DEF NoGain, VotesStand
  <2>2. CASE OwnVote(s)
    BY <2>2 DEF OwnVote, Stands
  <2>3. CASE Gain(s)
    BY <1>3, <2>3 DEF Gain, Stands, VotesStand
  <2> QED BY <1>2, <2>1, <2>2, <2>3
<1>5. VotesExclusive'
  <2>1. ASSUME NEW t \in Server \ {a}, NEW j \in Server, HasVote(a, j)', HasVote(t, j)',
               current_term'[a] = 1, current_term'[t] = 1
        PROVE  FALSE
    <3>1. HasVote(t, j) /\ current_term[t] = 1 /\ Stands(t, j)
      BY <1>2, <2>1 DEF NoGain, VotesStand
    <3>2. CASE NoGain(a)
      BY <2>1, <3>1, <3>2 DEF NoGain, VotesExclusive
    <3>3. CASE OwnVote(a)
      <4>1. Stands(t, a) /\ current_term'[a] > current_term[a]
        BY <2>1, <3>1, <3>3 DEF OwnVote
      <4> QED BY <1>1, <2>1, <4>1 DEF Stands
    <3>4. CASE Gain(a)
      <4>1. CASE HasVote(a, j)
        BY <2>1, <3>1, <3>4, <4>1 DEF Gain, VotesExclusive
      <4>2. CASE ~HasVote(a, j)
        <5>1. /\ current_term'[j] = 1 /\ voted_for'[j] = a
              /\ current_term[j] < 1 \/ voted_for[j] = a
          BY <2>1, <3>4, <4>2 DEF Gain
        <5>2. Votes(j) /\ a # NoServer /\ a # t /\ current_term[j] \in Nat
          BY <1>1, ServerAssumption DEF VoteStep
        <5>3. voted_for[j] = a
          BY <3>1, <5>1, <5>2 DEF Stands
        <5>4. current_term[j] = 1
          BY <3>1, <5>1, <5>2 DEF Stands, Votes
        <5> QED BY <3>1, <5>2, <5>3, <5>4 DEF Stands
      <4> QED BY <4>1, <4>2
    <3> QED BY <1>2, <3>2, <3>3, <3>4
  <2> SUFFICES ASSUME NEW s \in Server, NEW t \in Server, NEW j \in Server,
                      HasVote(s, j)', HasVote(t, j)', current_term'[s] = 1, current_term'[t] = 1,
                      s # t
               PROVE  FALSE
    BY DEF VotesExclusive
  <2>2. CASE s = a \/ t = a
    BY <2>1, <2>2
  <2>3. CASE s # a /\ t # a
    BY <1>2, <2>3 DEF NoGain, VotesExclusive
  <2> QED BY <2>2, <2>3
<1> QED BY <1>4, <1>5

-----------------------------------------------------------------------------
(* Every action is such a step. *)

\* A server whose ballot is not touched gains nothing, and one that ends its reign or its
\* calls keeps nothing.
LEMMA SameVotes ==
    ASSUME NEW s \in Server, UNCHANGED BallotOf(s)
    PROVE  NoGain(s) /\ Votes(s)
BY DEF BallotOf, NoGain, HasVote, Votes

LEMMA OneVotes ==
    ASSUME NEW a \in Server, \A i \in Server \ {a} : UNCHANGED BallotOf(i),
           Votes(a), NoGain(a) \/ OwnVote(a) \/ Gain(a)
    PROVE  VoteStep
<1>1. \A i \in Server \ {a} : NoGain(i) /\ Votes(i)
  BY SameVotes
<1> QED BY <1>1 DEF VoteStep

LEMMA TimeoutThreadVotes ==
    ASSUME BallotInv, NEW s \in Server, TimeoutThread(s)
    PROVE  VoteStep
<1> USE DEF electionVars, logVars, leaderVars, connVars, netVars, loopVars, rpcVars
<1>1. ElectionTypes /\ ThreadTypes /\ IInv /\ Tallies(s)
  BY TypeGroups DEF BallotInv, IInv
<1>2. CASE ReadStatus(s) \/ FollowerTimeout(s) \/ BeginHeartbeat(s)
  <2>1. /\ UNCHANGED <<current_term, voted_for, vote_received, request, reply, callee>>
        /\ status'[s] \in {status[s], CANDIDATE} /\ holder'[s] \in {holder[s], "Heartbeat"}
        /\ \A i \in Server \ {s} : status'[i] = status[i] /\ holder'[i] = holder[i]
                                   /\ seen'[i] = seen[i]
    BY <1>1, <1>2 DEF ReadStatus, FollowerTimeout, BeginHeartbeat, Acquire, ElectionTypes, ThreadTypes
  <2>2. NoGain(s) /\ Votes(s)
    BY <2>1 DEF NoGain, HasVote, Votes, LEADER, CANDIDATE
  <2> QED BY <2>1, <2>2, OneVotes DEF BallotOf
<1>3. CASE BeginVote(s)
  <2>1. /\ UNCHANGED <<status, seen, request, reply, callee>>
        /\ current_term'[s] = current_term[s] + 1 /\ current_term[s] \in Nat
        /\ voted_for'[s] = s /\ holder[s] = "free" /\ seen[s] = CANDIDATE
    BY <1>1, <1>3 DEF BeginVote, Acquire, ThreadTypes, ElectionTypes
  <2>2. \A i \in Server \ {s} : /\ holder'[i] = holder[i] /\ current_term'[i] = current_term[i]
                                /\ voted_for'[i] = voted_for[i]
                                /\ vote_received'[i] = vote_received[i]
    BY <1>1, <1>3 DEF BeginVote, Acquire, ThreadTypes, ElectionTypes
  <2>3. status'[s] # LEADER /\ reply'[s] = NoMsg
    BY <1>1, <2>1, NotCalling DEF Tallies
  <2>4. OwnVote(s) /\ Votes(s)
    BY <2>1, <2>3 DEF OwnVote, HasVote, Votes, NoMsg
  <2> QED BY <2>1, <2>2, <2>4, OneVotes DEF BallotOf
<1> QED BY <1>2, <1>3 DEF TimeoutThread

LEMMA CallEndsVotes ==
    ASSUME IInv, NEW s \in Server, LoopGoesOn(s), EndCall(s),
           UNCHANGED <<status, current_term, voted_for, vote_received>>
    PROVE  VoteStep
<1>1. CallTypes
  BY TypeGroups DEF IInv
<1>2. /\ callee'[s] = NoServer /\ reply'[s] = NoMsg /\ UNCHANGED request
      /\ \A i \in Server \ {s} : callee'[i] = callee[i] /\ reply'[i] = reply[i]
  BY <1>1 DEF EndCall, CallTypes
<1>3. NoGain(s) /\ Votes(s)
  BY <1>2 DEF LoopGoesOn, NoGain, HasVote, Votes, NoMsg
<1> QED BY <1>2, <1>3, OneVotes DEF BallotOf, LoopGoesOn

LEMMA DemoteVotes ==
    ASSUME IInv, NEW s \in Server, NEW term, term > current_term[s], Demote(s, term), Release(s),
           EndCall(s)
    PROVE  VoteStep
<1>1. ElectionTypes /\ CallTypes /\ ThreadTypes
  BY TypeGroups DEF IInv
<1>2. /\ callee'[s] = NoServer /\ reply'[s] = NoMsg /\ UNCHANGED request
      /\ \A i \in Server \ {s} : callee'[i] = callee[i] /\ reply'[i] = reply[i]
  BY <1>1 DEF EndCall, CallTypes
<1>3. /\ status'[s] = FOLLOWER /\ current_term'[s] = term
      /\ \A i \in Server \ {s} :
            /\ status'[i] = status[i] /\ current_term'[i] = current_term[i]
            /\ voted_for'[i] = voted_for[i] /\ vote_received'[i] = vote_received[i]
  BY <1>1 DEF Demote, ElectionTypes
<1>4. holder'[s] = "free" /\ \A i \in Server \ {s} : holder'[i] = holder[i] /\ seen'[i] = seen[i]
  BY <1>1 DEF Release, ThreadTypes
<1>5. NoGain(s) /\ Votes(s)
  BY <1>2, <1>3, <1>4 DEF NoGain, HasVote, Votes, NoMsg, FOLLOWER, LEADER
<1> QED BY <1>2, <1>3, <1>4, <1>5, OneVotes DEF BallotOf

\* The vote that elects is the one in the response.
LEMMA CountVoteVotes ==
    ASSUME IInv, Ballots, NEW s \in Server, holder[s] = "RequestVote",
           NEW res \in RequestVoteResponses, CountVote(s, res), EndCall(s),
           res.current_term = current_term[s] /\ res.voted => res = reply[s] /\ res.id = callee[s]
    PROVE  VoteStep
<1>1. ElectionTypes /\ CallTypes /\ ThreadTypes /\ Asks(s)
  BY TypeGroups DEF IInv, Ballots
<1> DEFINE counted == res.current_term = current_term[s] /\ res.voted
           votes   == vote_received[s] \cup {res.id}
<1>2. CASE res.current_term > current_term[s] /\ Demote(s, res.current_term) /\ Release(s)
  BY <1>2, DemoteVotes
<1>3. CASE UNCHANGED <<electionVars, threadVars>>
  BY <1>3, ReleaseGoesOn, CallEndsVotes DEF electionVars, threadVars
<1>4. CASE /\ counted /\ vote_received' = [vote_received EXCEPT ![s] = votes]
           /\ UNCHANGED <<current_term, voted_for>>
           /\ \/ InitLeader(s) /\ Release(s)
              \/ UNCHANGED <<status, threadVars>>
  <2>1. /\ reply'[s] = NoMsg /\ UNCHANGED request
        /\ \A i \in Server \ {s} : callee'[i] = callee[i] /\ reply'[i] = reply[i]
    BY <1>1 DEF EndCall, CallTypes
  <2>2. /\ vote_received'[s] = {s, callee[s]}
        /\ \A i \in Server \ {s} : vote_received'[i] = vote_received[i]
    BY <1>1, <1>4 DEF ElectionTypes, Asks
  <2>3. \A i \in Server \ {s} : status'[i] = status[i] /\ holder'[i] = holder[i] /\ seen'[i] = seen[i]
    BY <1>1, <1>4 DEF InitLeader, Release, ElectionTypes, ThreadTypes, threadVars
  <2>4. holder'[s] \in {"free", "RequestVote"}
    BY <1>1, <1>4 DEF Release, ThreadTypes, threadVars
  <2>5. HasVote(s, s) /\ HasVote(s, callee[s])
    BY <1>4 DEF HasVote, RequestVoteResponses
  <2>6. NoGain(s) /\ Votes(s)
    BY <1>4, <2>1, <2>2, <2>4, <2>5 DEF NoGain, HasVote, Votes, NoMsg
  <2> QED BY <1>4, <2>1, <2>2, <2>3, <2>6, OneVotes DEF BallotOf
<1> QED BY <1>2, <1>3, <1>4 DEF CountVote, electionVars

LEMMA RequestVoteVotes ==
    ASSUME BallotInv, NEW s \in Server, RequestVote(s), OwnLinks
    PROVE  VoteStep
<1>1. IInv /\ Ballots /\ Asks(s)
  BY DEF BallotInv, Ballots
<1>2. CASE \E j \in Server : CallVote(s, j)
  <2>1. PICK j \in Server : CallVote(s, j)
    BY <1>2
  <2>2. CallTypes
    BY <1>1, TypeGroups DEF IInv
  <2>3. /\ UNCHANGED <<electionVars, seen, holder, reply>> /\ reply[s] = NoMsg
        /\ \A i \in Server \ {s} : callee'[i] = callee[i] /\ request'[i] = request[i]
    BY <1>1, <2>1, <2>2, NotCalling DEF CallVote, StartCall, CallTypes
  <2>4. NoGain(s) /\ Votes(s)
    BY <2>3 DEF NoGain, HasVote, Votes, NoMsg, electionVars
  <2> QED BY <2>3, <2>4, OneVotes DEF BallotOf, electionVars
<1>3. CASE ReceiveVoteResponse(s)
  <2>1. /\ reply[s] # NoMsg /\ callee[s] # NoServer /\ holder[s] = "RequestVote"
        /\ CountVote(s, reply[s]) /\ EndCall(s)
    BY <1>3 DEF ReceiveVoteResponse, Answered
  <2>2. ServerCallOK(s) /\ reply[s] \in Replies \cup {NoMsg}
    BY <1>1 DEF IInv, CallsOK, TypeOK
  <2>3. reply[s] \in RequestVoteResponses /\ reply[s].kind = "vote"
    BY <2>1, <2>2, MessageKinds DEF ServerCallOK, ReplyOK, CallOK, Replicating
  <2> QED BY <1>1, <2>1, <2>3, CountVoteVotes DEF Asks
<1>4. ~LoseVoteResponse(s)
  BY NotLost DEF LoseVoteResponse
<1>5. CASE EndVote(s)
  <2>1. UNCHANGED <<electionVars, request, reply, callee>> /\ LoopGoesOn(s)
    BY <1>1, <1>5, ReleaseGoesOn DEF EndVote, rpcVars
  <2>2. NoGain(s) /\ Votes(s)
    BY <2>1 DEF NoGain, HasVote, Votes, LoopGoesOn, electionVars
  <2> QED BY <2>1, <2>2, OneVotes DEF BallotOf, electionVars, LoopGoesOn
<1> QED BY <1>2, <1>3, <1>4, <1>5 DEF RequestVote

LEMMA ReplicateLogVotes ==
    ASSUME BallotInv, NEW s \in Server, ReplicateLog(s)
    PROVE  VoteStep
<1>1. IInv
  BY DEF BallotInv
<1>2. CASE \E j \in Server : CallAppend(s, j)
  <2>1. PICK j \in Server : CallAppend(s, j)
    BY <1>2
  <2>2. CallTypes
    BY <1>1, TypeGroups DEF IInv
  <2>3. /\ UNCHANGED <<electionVars, seen, holder, reply>> /\ reply[s] = NoMsg
        /\ \A i \in Server \ {s} : callee'[i] = callee[i] /\ request'[i] = request[i]
    BY <1>1, <2>1, <2>2, NotCalling DEF CallAppend, StartCall, CallTypes
  <2>4. NoGain(s) /\ Votes(s)
    BY <2>3 DEF NoGain, HasVote, Votes, NoMsg, electionVars
  <2> QED BY <2>3, <2>4, OneVotes DEF BallotOf, electionVars
<1>3. CASE ReceiveHeartbeatResponse(s) \/ LoseLogResponse(s)
  <2>1. UNCHANGED <<electionVars, holder, seen>> /\ EndCall(s)
    BY <1>3 DEF ReceiveHeartbeatResponse, LoseLogResponse, KeepNode, threadVars
  <2> QED BY <1>1, <2>1, ReleaseGoesOn, CallEndsVotes DEF electionVars
<1>4. CASE ReceiveLogResponse(s)
  <2>1. EndCall(s)
    BY <1>4 DEF ReceiveLogResponse
  <2>2. CASE UNCHANGED <<electionVars, holder, seen>>
    BY <1>1, <2>1, <2>2, ReleaseGoesOn, CallEndsVotes DEF electionVars
  <2>3. CASE /\ reply[s].current_term > current_term[s]
             /\ Demote(s, reply[s].current_term) /\ Release(s)
    BY <1>1, <2>1, <2>3, DemoteVotes
  <2> QED BY <1>4, <2>2, <2>3 DEF ReceiveLogResponse, KeepNode
<1>5. CASE NextRound(s) \/ EndReplicate(s)
  <2>1. UNCHANGED <<electionVars, request, reply, callee>> /\ LoopGoesOn(s)
    BY <1>1, <1>5, ReleaseGoesOn DEF NextRound, EndReplicate, rpcVars
  <2>2. NoGain(s) /\ Votes(s)
    BY <2>1 DEF NoGain, HasVote, Votes, LoopGoesOn, electionVars
  <2> QED BY <2>1, <2>2, OneVotes DEF BallotOf, electionVars, LoopGoesOn
<1> QED BY <1>2, <1>3, <1>4, <1>5 DEF ReplicateLog

\* A handler's server has no response on its way, and either is made a follower or is left
\* as it was: it gains no vote.
LEMMA HeardNoGain ==
    ASSUME IInv, NEW j \in Server, Heard(j), holder[j] = "free",
           UNCHANGED <<request[j], reply[j], callee[j]>>
    PROVE  NoGain(j)
<1>1. reply[j] = NoMsg
  BY NotCalling
<1> QED BY <1>1 DEF Heard, NoGain, HasVote, NoMsg, FOLLOWER, LEADER

LEMMA GetVoteResponseVotes ==
    ASSUME IInv, NEW j \in Server, NEW m, GetVoteResponse(j, m)
    PROVE  Votes(j)
<1>1. ElectionTypes
  BY TypeGroups DEF IInv
<1> QED BY <1>1 DEF GetVoteResponse, ElectionTypes, Votes

\* A log request takes the vote back, whatever its term.
LEMMA GetLogResponseVotes ==
    ASSUME IInv, NEW j \in Server, NEW m, m.current_term >= 1, GetLogResponse(j, m)
    PROVE  Votes(j)
<1>1. ElectionTypes
  BY TypeGroups DEF IInv
<1>2. CASE Accepts(j, m)
  <2>1. current_term'[j] = m.current_term /\ voted_for'[j] = NoServer
    BY <1>1, <1>2 DEF GetLogResponse, ElectionTypes
  <2> QED BY <2>1 DEF Votes
<1>3. CASE ~Accepts(j, m)
  BY <1>3 DEF GetLogResponse, Votes
<1> QED BY <1>2, <1>3

LEMMA ServerHandlerVotes ==
    ASSUME BallotInv, TermsStarted, NEW j \in Server, ServerHandler(j)
    PROVE  VoteStep
<1>1. IInv /\ ElectionTypes /\ CallTypes
  BY TypeGroups DEF BallotInv, IInv
<1>2. ASSUME NEW s \in Server, holder[j] = "free", callee[s] = j, Heard(j), Votes(j), NEW res,
             Respond(s, res), NoGain(s) \/ Gain(s)
      PROVE  VoteStep
  <2>1. s # j
    BY <1>1, <1>2, NotCalling, ServerAssumption
  <2>2. /\ UNCHANGED callee
        /\ \A i \in Server \ {s} : request'[i] = request[i] /\ reply'[i] = reply[i]
    BY <1>1, <1>2 DEF Respond, CallTypes
  <2>3. NoGain(j)
    BY <1>1, <1>2, <2>1, <2>2, HeardNoGain
  <2>4. \A i \in Server \ {s, j} : NoGain(i)
    BY <1>2, <2>2, SameVotes DEF BallotOf, Heard
  <2>5. \A i \in Server \ {j} : Votes(i)
    BY <1>2 DEF Votes, Heard
  <2> QED BY <1>2, <2>3, <2>4, <2>5 DEF VoteStep
<1>3. ASSUME NEW s \in Server, CandidateVoteHandler(j, s)
      PROVE  VoteStep
  <2> DEFINE m   == request[s]
             res == VoteResponse(j, m, current_term'[j], voted_for'[j])
  <2>1. /\ GetVoteResponse(j, m) /\ Respond(s, res) /\ holder[j] = "free" /\ callee[s] = j
        /\ m.id = s /\ m.current_term = current_term[s]
    BY <1>3 DEF CandidateVoteHandler, BallotInv, Asks
  <2>2. s # j
    BY <1>1, <2>1, NotCalling, ServerAssumption
  <2>3. Heard(j) /\ Votes(j)
    BY <1>1, <2>1, GetVoteResponseHeard, GetVoteResponseVotes
  <2>4. reply'[s] = res /\ UNCHANGED callee
    BY <1>1, <2>1 DEF Respond, CallTypes
  <2>5. UNCHANGED <<status[s], vote_received[s], current_term[s], holder[s]>>
    BY <2>2, <2>3 DEF Heard
  <2>6. res.voted => /\ current_term'[j] = current_term[s] /\ voted_for'[j] = s
                     /\ current_term[j] < current_term[s] \/ voted_for[j] = s
    <3>1. res.voted => current_term'[j] = current_term[s] /\ voted_for'[j] = s
      BY <2>1 DEF VoteResponse
    <3>2. \/ current_term[s] > current_term[j]
          \/ voted_for'[j] = voted_for[j]
      BY <1>1, <2>1 DEF GetVoteResponse, ElectionTypes
    <3>3. current_term[s] > current_term[j] => current_term[j] < current_term[s]
      BY <1>1 DEF ElectionTypes
    <3> QED BY <3>1, <3>2, <3>3
  <2>7. Gain(s)
    <3> HIDE DEF res
    <3> QED BY <2>1, <2>4, <2>5, <2>6 DEF Gain, HasVote
  <2> QED BY <1>2, <2>1, <2>3, <2>7
<1>4. ASSUME NEW s \in Server, AppendLogHandler(j, s)
      PROVE  VoteStep
  <2> DEFINE res == LogResponse(j, request[s], current_term'[j])
  <2>1. /\ GetLogResponse(j, request[s]) /\ Respond(s, res) /\ holder[j] = "free" /\ callee[s] = j
        /\ res.kind = "append" /\ request[s] \in AppendsInFlight
    BY <1>4 DEF AppendLogHandler, LogResponse, AppendsInFlight, InFlight
  <2>2. s # j
    BY <1>1, <2>1, NotCalling, ServerAssumption
  <2>3. Heard(j) /\ Votes(j)
    BY <1>1, <2>1, GetLogResponseHeard, GetLogResponseVotes DEF TermsStarted
  <2>4. reply'[s] = res /\ UNCHANGED callee
    BY <1>1, <2>1 DEF Respond, CallTypes
  <2>5. UNCHANGED <<status[s], vote_received[s], current_term[s], holder[s]>>
    BY <2>2, <2>3 DEF Heard
  <2>6. NoGain(s)
    <3> HIDE DEF res
    <3> QED BY <2>1, <2>4, <2>5 DEF NoGain, HasVote
  <2> QED BY <1>2, <2>1, <2>3, <2>6
<1>5. ASSUME Heard(j), Votes(j), holder[j] = "free", UNCHANGED <<request, reply, callee>>
      PROVE  VoteStep
  <2>1. NoGain(j)
    BY <1>1, <1>5, HeardNoGain
  <2>2. \A i \in Server \ {j} : NoGain(i) /\ Votes(i)
    BY <1>5, SameVotes DEF BallotOf, Heard
  <2> QED BY <1>5, <2>1, <2>2 DEF VoteStep
<1>6. ASSUME NEW o \in orphans, HandleOrphan(j, o)
      PROVE  VoteStep
  <2>1. o.req.kind = "append" => o.req.current_term >= 1
    BY <1>6 DEF TermsStarted, AppendsInFlight, InFlight
  <2> QED BY <1>1, <1>5, <1>6, <2>1, GetVoteResponseHeard, GetLogResponseHeard, GetVoteResponseVotes,
     GetLogResponseVotes DEF HandleOrphan
<1>7. CASE GhostVote(j)
  BY <1>1, <1>5, <1>7, GetVoteResponseHeard, GetVoteResponseVotes DEF GhostVote, rpcVars
<1> QED BY <1>3, <1>4, <1>6, <1>7 DEF ServerHandler

LEMMA OtherVotes ==
    ASSUME BallotInv, NEW s \in Server, LeaderThread(s) \/ \E j \in Server : DropLink(s, j)
    PROVE  VoteStep
<1>1. ThreadTypes /\ CallTypes
  BY TypeGroups DEF BallotInv, IInv
<1>2. /\ UNCHANGED <<electionVars, callee, seen>> /\ holder'[s] \in {holder[s], "Update"}
      /\ reply'[s] \in {reply[s], NoMsg}
      /\ \A i \in Server \ {s} : /\ holder'[i] = holder[i] /\ request'[i] = request[i]
                                 /\ reply'[i] = reply[i]
  BY <1>1 DEF LeaderThread, BeginUpdate, Acquire, DropLink, ThreadTypes, CallTypes, threadVars, rpcVars
<1>3. NoGain(s) /\ Votes(s)
  BY <1>2 DEF NoGain, HasVote, Votes, NoMsg, electionVars
<1> QED BY <1>2, <1>3, OneVotes DEF BallotOf, electionVars

LEMMA NextVotes ==
    ASSUME BallotInv, TermsStarted, OwnLinks, Next
    PROVE  VoteStep
BY TimeoutThreadVotes, RequestVoteVotes, ReplicateLogVotes, ServerHandlerVotes, OtherVotes DEF Next

FirstTermInv == drops = 0 => OwnLinks /\ Counted /\ VotesStand /\ VotesExclusive

LEMMA NextFirstTerm ==
    ASSUME BallotInv, BallotInv', TermsStarted, FirstTermInv, [Next]_vars
    PROVE  FirstTermInv'
<1> SUFFICES ASSUME drops' = 0
             PROVE  OwnLinks' /\ Counted' /\ VotesStand' /\ VotesExclusive'
  BY DEF FirstTermInv
<1>1. TypeOK /\ IInv /\ IInv'
  BY DEF BallotInv, IInv
<1>2. drops = 0 /\ \A i \in Server : conn[i] \subseteq conn'[i]
  BY <1>1, NextConnections
<1>3. OwnLinks /\ Counted /\ VotesStand /\ VotesExclusive
  BY <1>2 DEF FirstTermInv
<1>4. OwnLinks'
  <2>1. NothingLearnt
    <3>1. CASE UNCHANGED vars
      BY <3>1, SameLinks DEF vars, linkVars, connVars, threadVars, loopVars, rpcVars
    <3> QED BY <1>1, <3>1, NextLearnsNothing
  <2> QED BY <1>2, <1>3, <2>1 DEF NothingLearnt, OwnLinks
<1>5. Counted'
  <2> SUFFICES ASSUME NEW s \in Server, status'[s] = LEADER
               PROVE  \E j \in Server \ {s} : vote_received'[s] = {s, j}
    BY DEF Counted
  <2>1. Elects(s) /\ ~Lost(s)
    BY <1>3, NextElects, NotLost
  <2> QED BY <1>3, <2>1 DEF Elects, Counted
<1>6. VotesStand' /\ VotesExclusive'
  <2>1. CASE UNCHANGED vars
    BY <1>3, <2>1 DEF vars, electionVars, threadVars, rpcVars, VotesStand, VotesExclusive, HasVote,
                      Stands
  <2>2. CASE Next
    BY <1>1, <1>3, <2>2, NextVotes, VotesKept
  <2> QED BY <2>1, <2>2
<1> QED BY <1>4, <1>5, <1>6

LEMMA FirstTermInvariant ==
    ASSUME SmallCluster
    PROVE  Spec => [](BallotInv /\ FirstTermInv)
<1>1. Init => FirstTermInv
  BY DEF Init, FirstTermInv, OwnLinks, Known, Counted, VotesStand, VotesExclusive, HasVote, NoMsg,
         FOLLOWER, LEADER
<1>2. BallotInv /\ BallotInv' /\ TermsStarted /\ FirstTermInv /\ [Next]_vars => FirstTermInv'
  BY NextFirstTerm
<1> QED BY <1>1, <1>2, BallotInvariant, TermsHaveStarted, PTL DEF Spec

\* A set with one more element.
LEMMA OneMore ==
    ASSUME NEW S, NEW x, IsFiniteSet(S), x \notin S, NEW n \in Nat, Cardinality(S) = n
    PROVE  IsFiniteSet(S \cup {x}) /\ Cardinality(S \cup {x}) = n + 1
BY FS_AddElement

\* The first term has one leader until a connection breaks.
OneLeaderInFirstTerm ==
    drops = 0 =>
        \A s, t \in Server :
            /\ status[s] = LEADER /\ current_term[s] = 1
            /\ status[t] = LEADER /\ current_term[t] = 1
            => s = t

\* In clusters of up to three servers the first term has one leader until a connection
\* breaks, whatever is elected in later terms, and although a follower of a later term may
\* take the first term back from a deposed leader's request and become a candidate again.
\* No later term has that: the server that is taken back to the term before it votes, or
\* stands, in it once more.
THEOREM FirstTermHasOneLeader ==
    ASSUME SmallCluster
    PROVE  Spec => []OneLeaderInFirstTerm
<1>1. ASSUME BallotInv, FirstTermInv PROVE OneLeaderInFirstTerm
  <2> SUFFICES ASSUME drops = 0, NEW s \in Server, NEW t \in Server,
                      status[s] = LEADER, status[t] = LEADER,
                      current_term[s] = 1, current_term[t] = 1, s # t
               PROVE  FALSE
    BY DEF OneLeaderInFirstTerm
  <2>1. PICK i \in Server \ {s} : vote_received[s] = {s, i}
    BY <1>1 DEF FirstTermInv, Counted
  <2>2. PICK j \in Server \ {t} : vote_received[t] = {t, j}
    BY <1>1 DEF FirstTermInv, Counted
  <2>3. \A x \in Server : ~(x \in {s, i} /\ x \in {t, j})
    BY <1>1, <2>1, <2>2 DEF FirstTermInv, VotesExclusive, HasVote
  <2>4. i # t /\ j # s /\ i # j /\ s # t /\ i # s /\ j # t
    BY <2>3
  <2>5. IsFiniteSet({s}) /\ Cardinality({s}) = 1
    BY FS_Singleton
  <2>6. IsFiniteSet({s} \cup {i}) /\ Cardinality({s} \cup {i}) = 1 + 1
    <3>1. i \notin {s} /\ 1 \in Nat
      BY <2>4
    <3> QED BY <2>5, <3>1, OneMore, Zenon
  <2>7. IsFiniteSet({s} \cup {i} \cup {t}) /\ Cardinality({s} \cup {i} \cup {t}) = 2 + 1
    <3>1. t \notin {s} \cup {i}
      BY <2>4
    <3>2. Cardinality({s} \cup {i}) = 2 /\ 2 \in Nat
      BY <2>6
    <3> QED BY <2>6, <3>1, <3>2, OneMore, Zenon
  <2>8. Cardinality({s} \cup {i} \cup {t} \cup {j}) = 3 + 1
    <3>1. j \notin {s} \cup {i} \cup {t}
      BY <2>4
    <3>2. Cardinality({s} \cup {i} \cup {t}) = 3 /\ 3 \in Nat
      BY <2>7
    <3> QED BY <2>7, <3>1, <3>2, OneMore, Zenon
  <2>9. Cardinality({s} \cup {i} \cup {t} \cup {j}) <= Cardinality(Server)
    <3>1. {s} \cup {i} \cup {t} \cup {j} \subseteq Server
      OBVIOUS
    <3> QED BY <3>1, ServerAssumption, FS_Subset
  <2>10. Cardinality(Server) <= 3 /\ Cardinality(Server) \in Nat
    BY ServerAssumption, FS_CardinalityType DEF SmallCluster
  <2> QED BY <2>8, <2>9, <2>10
<1> QED BY <1>1, FirstTermInvariant, PTL

=============================================================================

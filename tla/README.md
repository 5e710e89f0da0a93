# A TLA+ model of the replicated key-value server

The program is a key-value store (customer id -> last order number) replicated with a variant of
Raft. A few servers are configured with each other's addresses; clients read from any of them and
send updates to the leader. This directory holds TLA+ models of the servers and of their clients, the
TLC configurations that check them on small clusters, and theorems checked by TLAPS.

File and line references are to the repository's root (`ServerMetadata.cpp`, `ServerThread.cpp`, ...).

## Inventory

### ServerMetadata: the Raft state

State: `current_term`, `status`, `voted_for`, `vote_received`, `leader_id`, `heartbeat`; the log
`smr_log` with `log_size` and `commit_length`; the state machine `customer_record`; the leader's
arrays `sent_length` and `ack_length`, allocated by `InitLeader`; the outgoing connections
`node_socket` and the queue `failed_neighbors`. All of it is memory; nothing is persisted. It has no
lock of its own, the threads take `meta_lock` (and some do not).

| operation | what it does |
|---|---|
| `RequestVote` | vote for itself, raise the term, then ask each connected peer in turn and wait for its answer; `WonElection`, `InitLeader`, or give up on a higher term |
| `GetVoteResponse` | the voter: adopt a higher term and vote, then compare logs; sets `heartbeat` |
| `ReplicateLog` | `TryReconnect`, then rounds: one request per connected peer, a heartbeat or the next entry, and wait for its answer; repeat while a round sent an entry |
| `GetLogResponse` | the follower: adopt term and leader, compare the prefix, append at the end of the log, execute one committed entry; sets `heartbeat` |
| `CommitLog`, `ExecuteLog` | the longest length a majority acknowledged; write the record |
| `CleanNodeState`, `TryReconnect` | a failed peer starts again from length 0; connect again |

Correct when: what counts as acknowledged is in the follower's log; what is committed is on a
majority, is never taken back and is the same everywhere; the record is the replay of the committed
log; no index leaves the log; a leader is elected by a majority, keeps its term, and has its arrays.

### The threads (`LaptopFactory`)

* `TimeoutThread`, one per server: reads the status **without** the lock, then as a follower waits
  and becomes a candidate when it heard nothing, as a candidate runs `RequestVote`, as a leader runs
  `ReplicateLog` every 100 ms. Both RPCs run under `meta_lock`, blocking receives included.
* `ServerHandler`, one per accepted connection from a server: reads an RPC identifier, takes
  `meta_lock`, answers, for ever. It does not notice that its connection broke.
* `LeaderThread`, four per server: take an order from `erq`, fulfil the client's promise, and then,
  under `meta_lock`, append the update and run `ReplicateLog`.
* `CustomerHandler`, one per client: say whether this is the leader, and where the leader is; then
  reads (without the lock) and updates (through `erq` and a promise).

Correct when: a thread that takes `meta_lock` gives it back; nothing decided on the unlocked status
harms the state; an order is queued once, confirmed once and enters one log once; a client is told one
consistent story.

### The process (`ServerMain`)

Listens on its port, reads its neighbours from the arguments, connects to each of them once
(`InitNeighbors`), then starts the threads and accepts connections. Servers are started by hand, in any
order, stopped and started again; a restarted one knows nothing.

Correct when: two running servers can talk, whatever the order of boots and stops; a leader brings a
server that comes back up to date.

### Connections, messages, client

* Each server opens one connection to each neighbour at boot (`InitNeighbors`) and uses it for its own
  requests; a neighbour that was not listening is forgotten, one that failed later is retried.
  `Socket::Recv` has no timeout; on an error it closes the socket and the callers differ in whether
  they look at the result (`RecvVoteResponse` and `IdentifyRPC` do not).
* `Messages` marshals every message field by field with `htonl`.
* The client connects, is redirected to the leader for updates, sends its orders one at a time and
  stops when the server goes away. `ClientTimer` measures latency.

Parts interact through shared `ServerMetadata` under `meta_lock`, through `erq` and its promises,
and through TCP connections: server to server, and client to server.

### What is hard here

Threads of one server interleave with a stale status; a lock is held across calls to servers that
need their own lock to answer; requests of deposed leaders arrive late, and a follower accepts a
lower term; connections break with a request or a response on the way and are made again; peers are
resent their log from the start; commit indices mix lengths with positions; servers come back with
nothing while others still hold lengths and requests of their former life. `PROJECT.json` lists
each hazard at its line with the properties that catch it.

## Modules

| module | what it is |
|---|---|
| `Raft` | the servers: state, actions, fairness and properties |
| `ReplicatedStore` | abstract: what the servers promise together about logs, commits and records |
| `RaftStore` | the refinement mapping from `Raft` to `ReplicatedStore` |
| `MCRaft` | boot graphs, readings of uninitialised terms and symmetry for TLC |
| `Cluster` | composes `Raft` with `ServerMain`: servers boot, stop, and are started again with nothing |
| `MCCluster` | the state before the first boot, for TLC |
| `ClientServer` | clients, their connections, `CustomerHandler`, the queue `erq` and the `LeaderThread`s |
| `OrderService` | abstract: what the servers promise to clients about their orders |
| `MCClientServer` | symmetry for TLC |
| `RaftProofs` | the inductive invariant; types and log bounds |
| `RaftCommitProofs` | acknowledgements, commits and their finality |
| `RaftLeaderProofs` | leaders: initialised arrays, one term |
| `RaftElectionProofs` | calls never wait in a circle; who is elected by a response has a majority; the first term has one leader |
| `RaftStoreProofs` | the record is a replay; `Raft` implements `ReplicatedStore`; one reign, one history |
| `ClusterProofs` | boots, stops and restarts: who can call whom, records, lengths, commits and terms |
| `ClientServerProofs` | types, orders, promises and confirmations; `ClientServer` implements `OrderService` |

### How `Raft` corresponds to the code

*Variables* have the names of the members they stand for. Differences: `log_size` is `Len(smr_log)`;
`allocated[s]` says that `InitLeader` has made the two arrays; `node_socket[s]` is the set of peers
that have an entry in the map, and `conn[s]` those whose connection works; `failed_neighbors[s]` is the set of
the nodes in the deque, and `repeated[s]` those that occur in it more than once. `holder[s]` is the thread inside an RPC loop with `meta_lock` (`"free"` when none),
`seen[s]` is TimeoutThread's local `status`, and `todo`, `num_change`, `new_node_socket` are the
loop's locals. `callee`, `request` and `reply` are the one call a server can have under way; `orphans`
are requests still in the socket of a broken connection; `broken` names servers with a handler left
on a broken connection. Indices into the arrays are server ids; the code uses positions in
`neighbors`, with its own position last.

*Granularity.* A thread that runs `RequestVote` or `ReplicateLog` holds `meta_lock` throughout but
waits for other servers, so it takes several steps: `BeginVote` / `BeginHeartbeat` / `BeginUpdate`
(everything up to the loop), `CallVote` / `CallAppend` (send one request), `Receive...` or `Lose...`
(the response, with everything up to the next request), `NextRound`, and `EndVote` / `EndReplicate`.
Handlers never wait for anything but the lock and are one step (`CandidateVoteHandler`,
`AppendLogHandler`). Reading the status without the lock is a step of its own (`ReadStatus`).
`node_socket` is a map ordered by pointer; the model asks the peers in any order.

*Data.* Customer ids and order numbers are model values; a heartbeat is a request whose operation has
term -1. A message is a record with the fields of its class. `ExecuteLog` from one length to another
gives each key its last write in that range, which is what the loop of single writes leaves.

*Failures.* `DropLink` breaks a working connection at any time, whether the network did it or one of
the two servers stopped; a stopped server is one that takes no more steps. A request under way is
lost or becomes an orphan, a response under way arrives or is lost. A vote response that does not
arrive is decoded from an uninitialised buffer, which is any response whose term is in
`GarbageTerms`. A handler on a broken connection does the same with its RPC identifier and the vote
request behind it (`GhostVote`): only the effects of `GetVoteResponse` are visible, since the answer
goes nowhere. `TryReconnect` may succeed for any of the failed peers. A peer can be in the deque
more than once (it stays in `new_node_socket` when it fails, is called again and fails again), and is
then in `repeated`: one attempt may succeed and another fail, and a second success replaces the first
connection, whose handler is left on a broken one.

*Updates.* `BeginUpdate` is `LeaderMaintainLog`. Clients send updates where a server told them the
leader is, and a connected client goes on sending to a server that has been deposed, so the guard is
that the server has been a leader. `LeaderIdInitialised` says that every server a client can be
redirected to satisfies that guard.

### The replicated store, and how `Raft` maps to it

`ReplicatedStore` has no messages, terms or threads. A server's log grows at its end only: by a new
operation, at a server that has been a leader (`Submit`), or by the operation another log has at that
place (`Copy`). A server commits what a majority of the logs is long enough to hold, and its record is the
replay of what it committed (`Replay`: the last write of each key). It does *not* promise that logs
agree, since this program does not keep that promise (`diverged_records`). `RaftStore` maps log, commit
length and record to themselves, and `leaders` to the servers whose arrays are allocated. A whole round trip
of Raft is a stutter but for the step in which the follower appends (`Copy`, with a commit when the request
announces one) and the one in which the leader counts the answer (`Learn`). `Submit` leaves the
choice of the operation to the log itself (whatever turns up at its end), so that TLC does not enumerate
operations of the unbounded set `Operations`.

### How `Cluster` corresponds to the code

`phase[s]` is where `main` is: `"down"` (no process), `"connecting"` (listening since `ServerSocket::Init`,
inside `InitNeighbors`), `"running"` (threads started). `Boot` comes before the first look at a
neighbour; `InitNeighbor` tries one: if it listens, the connection is made and kept in `node_socket`,
otherwise it is forgotten, and not put into `failed_neighbors`. The kernel accepts connections for a
listening server before `main` reaches `Accept`, so a connecting server can be connected to, and
its handlers answer once its threads run.

A running server takes the steps of `Raft`. They are taken whole, with one thing made definite: an attempt
to reconnect succeeds exactly when the other server listens (`Dials`), where `Raft` lets it succeed or fail.

`Stop` ends a process at any point, in the middle of a call included. `Forget` sets every variable of it
to what the constructor of `ServerMetadata` gives (the arrays to "not allocated"). `Disconnect` breaks its
connections at both ends: a request to it is lost, with or without its answer; a request it had sent
may still be read from the socket later (`orphans`) or not; handlers that served it are left on a broken
connection (`broken`). Peers find out when they next use the connection. `BrokenPipe` is the end of a
process by `SIGPIPE`: a call is sent in two parts, the identifier and the message, and a connection
whose other end has gone may take the first and kill the sender at the second, since nothing handles the
signal. It is not counted in `MaxStops`, being a consequence of another's stop. `DropLink` is not taken
here (`MaxDrops = 0`): connections break because servers stop.

### How `ClientServer` corresponds to the code

*Client.* `pc` follows `ThreadBody`: `Connect` (either server may be the one the client is given),
`RecvIsLeader`, `RecvLeaderInfo` (an address made of two servers' reaches either of them, as it may when
they share a host, or nobody), and for an updater `OpenConnection` once more and
`RecvIsLeaderAgain`; then `SendRequest` and `RecvAnswer` in turn. Updaters and readers are separate
sets, an updater is a customer of its own. `ServerWentDown` is a failed send or receive.

*Connection.* `to_client` is a sequence of words, not of messages: a receiver takes as many words as the
message it expects has, whatever they are. That matters for one property only (`AnswersMatch`), and
requests, which are never misread, are kept whole in `to_server`.

*Handler.* `handler` is the place in `CustomerHandler`. `leader_id` is read four times without a lock, so
there are four steps: `SendIsLeader`, `CheckLeader`, `GetLeaderIp`, `GetLeaderPort`. The last two look
for the leader among the neighbours and follow the pointer; when the server itself has become leader in
between, there is none and the process ends (`Stop`). With three or more servers a change between two
others in the middle of that search ends it too; that end is one of `ServerStops`. `CreateLaptop` puts the order into `erq` and waits,
`ShipLaptop` goes on once its promise is set.

*LeaderThread.* `TakeRequest` is everything up to the promise, `AppendUpdate` takes `meta_lock` and appends,
`ReplicationEnds` gives it back. `hand` is the request a thread has; the two threads of the instances
stand for four.

*The rest of the server* is an environment: `BecomeLeader` and `HearFromLeader` change `leader_id` when
`meta_lock` is free, and a server hears only of servers that have been elected, which is
`LeaderIdInitialised` of `Raft`, proved there. Servers stop (`ServerStops`). That replication ends is not
assumed, it may happen.

*`OrderService`* is what remains when clients, connections, handlers, queues and threads are taken away: an order
is placed, then confirmed, then written to one log, each at most once and in this order. It does not
promise that a confirmed order is written (the server may stop), nor that orders are written in the
order of their confirmation (they are not, `orders_overtake`). `ClientServer` implements it with
`placed` the orders in a queue or already fulfilled, `confirmed` those whose promise is set (`fulfilled`) and
`log` the servers' logs.

## Configurations and what they show

Runs of `MCRaft`. Bounds are in the guards: `MaxTerm` on starting elections, `MaxLog` on
accepting updates, `MaxDrops` on breaking connections. Deadlock is not checked, since
the bounds stop the system; the waiting that the code itself can get into is what `LockReleased` is for.

| run | instance | shows | distinct states |
|---|---|---|---|
| `two_servers_break` | 2 servers, 2 terms, 2 entries, 1 break, garbage terms 0..2 | types; acknowledged entries are held; commits are on a majority and final; no index leaves the log; every step is a step of `ReplicatedStore` or none; leaders named are initialised and keep their term; one reign's logs are prefixes of the leader's; who is elected by a response has the votes | 936 835 |
| `three_servers_break` | 3 servers, 1 term, 1 entry, 1 break, garbage terms 0 | a majority commits without a failed follower that is reconnected and resent; what is committed is on a majority then, too; who is elected by a response has two votes of three | 468 300 |
| `sequential_boot_locks` | 3 servers started one after another, no updates | every holder of `meta_lock` gives it back; no servers wait for each other in a circle | 30 306 |

A run of `MCCluster`. No connection at the start, no server running; `MaxStops` bounds the stops from
outside.

| run | instance | shows | distinct states |
|---|---|---|---|
| `servers_restart` | 2 servers booted in any order and overlap, 1 term, 2 entries of 2 values, 1 stop, and the ends by `SIGPIPE` that follow | one of two running servers can always call the other; the record stays the replay of the log and lengths stay within it although logs vanish; a leader brings a follower that comes back up to date; a server that lives takes back nothing it committed | 119 428 |

One stop is enough for a server to come back to a leader that remembers it, to one that never knew it, and
to be missed by a caller that then ends too; two entries are what a resend from the start takes to be more
than one message, and two values make the record tell them apart. The connections after every boot order are what this module
derives; `OneCanCall` says that no two running servers miss each other, since each listens before it
dials. It does not say that *both* can call, and they often cannot: the server started first forgets
the others, and if it leads it sends them nothing.

A run of `MCClientServer`. Bounds: `NumRequests` per client, as in the program; `MaxChanges` on changes of
`leader_id`, `MaxStops` on servers that stop.

| run | instance | shows | distinct states |
|---|---|---|---|
| `clients_and_leaders` | 2 servers, 2 `LeaderThread`s each, an updater and a reader with 2 requests, 3 changes, 1 stop | every step is a step of `OrderService` or none; no order is taken twice, on whatever servers; a confirmed order has left its queue and is in one thread's hands or once in a log; a handler never waits for a promise nobody will set; a client's orders are confirmed in their order, none left out | 216 610 |

Two orders and two threads are what it takes for one to overtake the other; three changes of leader let a
server be redirected from, become leader itself and be deposed, and they let a client that was told "leader"
be sent an address after all, take it for the answer to its first order and send the second one early; a stop
(or the null pointer) leaves requests in a queue. More clients were tried (two updaters with the same bounds, 865 201 states).

Why these bounds for `Raft`: an acknowledgement, a refusal, a back-off and a resend need two entries; a deposed
leader needs two terms, and one whose entry competes with another needs two servers that have led;
its log has entries of different terms then. One break lets every call be lost once, and a failed peer fail
again before it is reconnected and resent everything. Two-server runs are small enough for the longer
histories, three-server runs add a real choice of majority. Server symmetry is used in the safety runs
only.

Where garbage reads as 0. A vote response read from an uninitialised buffer counts only in the candidate's
own term, so `GarbageTerms <- Zeros` takes out the election of a candidate nobody voted for, and with it the
fall into a term nobody holds (in `LoseVoteResponse` and `GhostVote`). `ElectedByMajority`, which that election breaks, is not checked there but in
`own_vote_elects`, with every term; `ElectedByVotes` speaks of who is elected by a response that was
received. It is checked with every term in `two_servers_break`, was checked once with three servers, one term,
no log and every term (333 258 states), and is proved for every `GarbageTerms`, as are the other properties of
`three_servers_break`, which with every term has more states than a run here should.

`SingleReign` is deliberately about the time during which only one server has ever led. After a change
of leader the logs may differ, as `diverged_records` shows.

### Disagreements with the documentation

Seven runs end in a counterexample, each against a statement of the README or a comment:

* `own_vote_elects` (`ElectedByMajority`): a candidate of three servers leads with its own vote alone. Two
  things come together. `RecvVoteResponse` does not look at what `Recv` returned and decodes a buffer that was
  never written, whose place on the stack may hold the message the candidate has just sent, its own id and term;
  and `WonElection` compares with the number of peers, so that one vote of three satisfies it. The second
  alone elects with two votes of four, as in the cluster of `args.txt:32`, without any failure.
* `two_leaders_of_a_term` (`OneLeaderPerTerm`): a follower takes any term from a log request, and forgets its
  vote. With no connection broken and no log, a heartbeat of the leader of the first term takes s3, which had
  voted for s2 in the second, back to the first; s3 becomes a candidate, in the second term once more, and is
  elected by the old leader, while s2 leads that term.
* `diverged_records` (`StateMachineSafety`): a follower of a later term stores a deposed leader's
  late request and acknowledges the next leader's entry for the same place without comparing it.
  Both leaders commit and two servers execute different operations at one index, with no connection
  broken. The code meant to drop such entries is under a condition that cannot hold.
* `calls_wait_for_each_other` (`LockReleased`): two candidates call each other, each holding the lock
  its handler needs, and wait for ever.
* `replication_never_ends` (`LockReleased`): a server that no longer leads replicates an update; the
  responses are ignored but count as changes, so its rounds never end and the lock is kept.
* `orders_overtake` (`OrdersInOrder`): a client's order is confirmed before it is appended, so its next
  order can be taken by another thread that gets `meta_lock` first. Both are in the log in the wrong
  order, and the record ends with the earlier one. No election, failure or second client is needed
  beyond one leader.
* `mixed_answers` (`AnswersMatch`): the handler looks at `leader_id` once to answer the client and once
  more to decide whether an address follows. A reader told "no leader" takes the address for its record.

### Fairness

`ClientServer` has no liveness property and its specification no fairness: that a waiting handler is
answered is stated as the invariant `PromiseIsOwed`. In `Raft`, `FairSpec` assumes weak fairness of the RPC loop of each server (the thread that holds the lock and is
not waiting runs) and strong fairness of the handling of each caller's request (a handler whose
request is in its socket tries to take `meta_lock`, which may be taken and freed by others again and
again; a lock that is free infinitely often is obtained in the end). Nothing makes a timeout fire, an
update arrive or a connection break, so no liveness here rests on timing. In `Raft`, TLC checks `LockReleased`
under it for servers booted one after the other, where the connections form no cycle, and without
updates: the two violations above show that neither restriction can be dropped.

`FairClusterSpec` assumes weak fairness of booting once a process was started (`main` runs to its end), of
TimeoutThread's loop (`RunTimeout`: it sleeps a bounded time and goes on), and of the RPC loop, and the
same strong fairness of a handler with a request in its socket. No fairness makes anyone stop or start a
server, or a client send an update. `RejoinedRecovers` then says that a leader's heartbeats find a follower
that came back: the call that fails makes the leader start it again from length 0 and reconnect. The
follower may instead become a candidate, the leader may fall or the follower stop again: the property
promises nothing in those cases. What makes the leader notice is the failed
call itself; the follower's response to a heartbeat is not looked at.

## What is proved

The theorems hold for every finite set of servers, every set of keys and values, every bound and every
boot graph, under the named assumptions of `Raft` (`ServerAssumption`: the servers are a finite
nonempty set without `NoServer`; `ValueAssumption`; `BoundAssumption`; `GarbageAssumption`: terms read
from uninitialised buffers are naturals; `BootAssumption`: no server connects to itself). One
idealisation is inherited from the model: terms and lengths are unbounded naturals and not 32-bit
integers, and an uninitialised term is not negative.

**`RaftProofs`.** `TypeOK` and `LengthsWithinLog` are not inductive. A response with `ack = n` is taken
for granted by the leader, and that `n` is within the *leader's* log depends on the request it answers,
made an arbitrary time ago. So the invariant `IInv` adds `CallsOK`: a call under way belongs to the
holder of `meta_lock` and has one message on its way (`CallOK`); a log request was made from the
`sent_length` the server still has, and carries no operation exactly when that is the end of its log
(`RequestOK`); a successful response acknowledges that `sent_length` plus one (`ReplyOK`, so the leader,
which looks only at responses to operations, stays within its log); and a heartbeat announces no more
committed than its prefix, so that a follower which appends nothing also executes nothing it does not
have (`HeartbeatOK`). What keeps it true is the lock: handlers may change the term and the status of a
server that is free only, so neither its log nor its lengths change under a call. There is one lemma per
action and `NextIInv` combines them. `TypeCorrect` and `LengthsStayWithinLog` follow.

**`RaftCommitProofs`.** `AckInv` says that `ack_length`, and the acknowledgement in a response the leader
will look at (`ReplyHeld`), are within the *follower's* log. `CommitInv` adds that every committed
length, on a server, in a request or in an orphan, is one the logs of a majority have reached. Both are
preserved because every step satisfies the relation `Progress`: logs only grow at the end; a commit
length only moves up, to a length acknowledged by a majority or announced by a request; a new `ack_length`
is held by the follower; a new request announces its sender's commit length. `AckedMajorityHolds` counts:
the leader's formula `count * 2 > GetPeerSize() + 1` is a majority of the servers. `CommitsAreFinal` is
read off the same relation.

**`RaftStoreProofs`.** `ExecuteLogComposes`: executing up to `a` and then from `a` to `b` is executing up to
`b`. `ReplicaInv` adds to `CommitInv` that an operation in a request is, at the request's place, in some
server's log (`RequestsFromLogs`; the sender's own, while the call lasts, and logs never lose an operation)
and `AppliedMatchesLog`. `RecordIsReplay` follows, and `RaftImplementsStore`: every step of every action is
mapped to `Lead`, `Submit`, `Learn`, `Copy` or a stutter (`StepIsStoreStep`), the follower's by
`StoreLogIsCopy`. `ReplicatedStore` proves of itself that one reign's logs are prefixes of the leader's
(`OneReignHolds`), and `OneReignKeepsLogs` carries that down the refinement to `SingleReign`: the
proof about messages and threads and the proof about logs are separate. `OneReignAgrees` puts the two together:
until a second server is elected `StateMachineSafety` holds, and servers that executed as many entries have the
same record (`SameRecords`). `diverged_records` shows that the condition is needed.

**`RaftElectionProofs`.** Two parts.

*Calls.* A server calls only servers it knows (`Known`: connected, failed, kept or still to be called), and what
it knows only shrinks (`NextLearnsNothing`), so it stays within the links of the boot. When the servers were
started one after another (`StartedInOrder`), the first-started server of a circle would call an earlier one:
`NoServersWaitInACircle`. The hypothesis is about the boot and is what `calls_wait_for_each_other` lacks. It is
not claimed for restarts, after which two servers may know each other. That no circle exists is not yet that
every lock is given back: that is liveness, and `LockReleased` stays with TLC.

*Ballots.* `WonElection` compares with the number of peers, and votes of an earlier candidature are not cleared.
In clusters of up to three servers (`SmallCluster`) neither does harm to an election that is decided by a
response, because the first vote of another server elects: `BallotInv` says that a server which does not lead has
at most its own vote (`Tallies`; a vote read from an uninitialised buffer elects at once and is cleared when
that leader falls), that a candidate asks with its own id and its present term and is answered by the server it
called (`Asks`), and that no thread takes a leader for anything else (`seen`). `LeadersHaveMajority` follows,
whatever buffers read as; that a leader elected by such a buffer has no majority is `own_vote_elects`.

*The first term.* A term has one leader only while nobody is taken back to it after having voted in it, and
requests of a deposed leader do take followers back (`two_leaders_of_a_term`). They take nobody back to the time
before the first term, since no leader and no log request is of that time (`TermsStarted`). So a server
enters the first term once, and has one vote in it: a vote that was counted or is on its way stands at the voter,
who has voted for that candidate, or has gone on to a later term, perhaps to come back with its vote forgotten
(`VotesStand`), and no server's vote counts for two candidates (`VotesExclusive`).
`FirstTermHasOneLeader` follows, until a connection breaks, since from then on a candidate may lead without a
vote.

**`ClusterProofs`.** A server that ends (`EndOfServer`) takes nothing with it that `IInv` needs: what it knew is
reset together, and a call to it loses its messages, not their shape. Every step of a running server is a
step of `Raft` (`RunsRaft`), so `NextIInv` and `NextApplied` are reused as they are. `OneCanCall` is not
inductive for two reasons. While a server boots it has yet to try a neighbour (`WillTry`), and it forgets one
only if that one does not listen, and so has yet to boot. And `ReplicateLog` replaces `node_socket` by
the nodes that answered, so a connection is one the loop will keep (`Reaches`) only while its node is still
to be called, is being called, or was kept; a node that is dropped is one whose connection broke because it
stopped. `Linked` says that of two listening servers one reaches the other or will try to. `OneCanAlwaysCall`,
`RestartedRecordIsReplay` and `RestartedLengthsWithinLog` follow, for any number of servers and stops.
`LivingServersKeepCommits` and `LivingLeadersKeepTheirTerm` are about steps, with the invariant holding before
them: the steps of a server that does not end only append to its log and only raise its commit length
(`StepKeepsCommits`), also when the request comes from a leader that came back with less; and for a leader to
raise its term its TimeoutThread would have to run an election, which `NotElectedYet`, carried through
restarts, rules out. The assumptions are those of `Raft` and `StopsAssumption`, `NoLinksAssumption` of `Cluster`.

**`ClientServerProofs`**, from `ServerAssumption`, `ThreadAssumption`, `ClientAssumption` and
`BoundAssumption` of `ClientServer`; servers, clients and LeaderThreads may be infinitely many. `OrdersKept`
is about places; what makes it inductive is `fulfilled`, the orders whose promise is set. An order
in a queue is not fulfilled, and once in one queue; one in a hand or a log is fulfilled; the thread that has
`meta_lock` has written the order in its hand, the others have not (`OrderInv`). That a new request is
in none of these places is a fact about the client: it sends nothing before it has connected to the
server it stays with (`ConnectsFirst`), its numbers go up (`PlacedBelow`, `SentBelow`, `SentInOrder`), and
its handler places the first unanswered request only (`SentNotPlaced`, `WaitsForHead`). `OrderInvariant`
is that invariant; `OrdersAreKept`, `PromisesAreOwed` and `ClientsImplementService` follow.

`OrdersConfirmedInOrder` has its own invariant, `OneByOne`: for each updating client there is a number `m` below
which its orders are confirmed, from which on they are on the connection without a gap, and past which none is
placed (`HandledTo`). The client cannot be relied on for this, since it may take an address for an answer and send
the next order early; the handler can, since it serves the requests of its connection in turn and waits for
each promise. `OvertakingTakesTwoThreads` then says what `orders_overtake` is about: while no two LeaderThreads
of a server wait for `meta_lock` with orders of one client (`OneWaitsPerClient`), logs are in order
(`WaitsAfterLog`: an order that waits is later than those of its client in the log, since what is taken from the
queue has not been confirmed and what comes before a confirmed order has). With a single LeaderThread that condition
holds by itself.

`ClientTypesAreKept` is about the words on the connections. That `GetLeader` is not asked for nobody
takes that a handler looks for an address only after it saw a leader, and that a server which heard of a leader
never forgets that there is one (`LooksForLeader`). That a client connects to a server takes that the words it
takes for an address are an address, although the same words may later be read as an answer: until its first
request nothing but the answer to its enquiry and addresses is on its connection (`AddressFollows`).

**`RaftLeaderProofs`.** `LeaderInv` adds to `LeaderIdInitialised` that everything which acts as a leader has
been one (`Reigned`: a leader, a TimeoutThread that read LEADER, a replication loop, the sender of a log
request), and that TimeoutThread, while it still believes in CANDIDATE, is on a server that has not
been elected (`NotElectedYet`): only that thread runs elections, so the term is never raised under a
leader. `LeadersKeepTheirTerm` follows from the same step relation, `LeaderStep`.

Before the proofs, `IInv`, `LeaderInv`, `BallotInv`, `FirstTermInv`, `LinkInv` and the invariants of `ClientServerProofs` (`Inv`,
`TypeInv`, `OneByOne`, `WaitsAfterLog`) were checked as invariants by TLC, on the instances of the runs.

**Only model-checked:** `LockReleased` and `RejoinedRecovers` (liveness under fairness, which is outside the
prover's reach, as are `ENABLED`, induction over data with the library's operator-parameterised theorems, and
modules with `RECURSIVE` operators; the proved modules have none). Every invariant and every action
property of the passing runs is a theorem; two of them under hypotheses, which are stated above:
`NoCircularWait` (the servers were started one after another) and `ElectedByVotes` (`SmallCluster`).

## Not modelled, and not claimed

* After a restart: that acknowledged entries are held (`AckedLengthHeld`), that committed ones are on a majority
  (`CommittedOnMajority`) and final, that a redirected client finds a leader whose arrays exist
  (`LeaderIdInitialised`) and that one reign's logs are prefixes (`SingleReign`). Nothing is persisted, so each is lost
  with the memory of a server, which the repository's README says in "Further optimization". They are
  claimed, and proved, for servers that may stop but do not come back. What does survive is what a server that
  lives has itself: its commits (`CommitsKept`), and a leader's term.
* What a read returns: `ReadRecord` reads a `std::map` without the lock while `ExecuteLog` writes it.
* `ClientMain`'s threads are the clients; its arguments, timers and statistics are left out.
* Composition of clients with elections: `ClientServer` abstracts elections and replication, `Raft`
  abstracts clients to `BeginUpdate`; each uses of the other what the correspondence above says.
* Addresses as text (`ParseIp`, `GetIp`) and the bounds of 32-bit fields. Random timeouts are arbitrary delays.
* Arguments of `main`; a port that cannot be bound, which is a server that does not boot.
* The machine of a peer that dies without closing its connections: a caller then waits until TCP gives up. In
  the model a lost call always ends.
* `SIGPIPE` towards clients. A client that took an address for its answer may leave with a request unanswered,
  and the answer may end the server; that end is one of `ServerStops`.
* A leader that `SIGPIPE` ends when a follower dies is in `Cluster` (`BrokenPipe`) and contradicts
  `README.md:170-171` ("The leader program does not crash") and `README.md:178` ("leader server should not
  break"). No run is spent on it; `RejoinedRecovers` promises nothing once the leader is gone.
* Logging, the build, the experiment script and `ClientTimer`.

## Plan

1. The servers (`Raft`, `ReplicatedStore`, `RaftStore`), the cluster (`Cluster`), the clients (`ClientServer`,
   `OrderService`) and their theorems: done.
2. The matching of logs of different leaders, while no term is lowered and no diverging entry is acknowledged.
3. Restarts of three servers, where a majority can survive: the present instances are of two.
4. `Wire`: addresses and word order as operators, checked against a reference over bounded inputs.

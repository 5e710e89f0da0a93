------------------------------ MODULE RaftStore ------------------------------
(* The replicated store that the servers of Raft implement: the logs, the  *)
(* committed lengths and the customer records are the abstract ones, and   *)
(* the servers whose leader arrays exist are those that have led.          *)
EXTENDS Raft

MoreThanHalf == {Q \in SUBSET Server : Cardinality(Q) * 2 > Cardinality(Server)}

Store == INSTANCE ReplicatedStore WITH
            Majority <- MoreThanHalf,
            leaders <- {s \in Server : allocated[s]},
            log <- smr_log,
            committed <- commit_length,
            record <- customer_record

\* Every step of the servers is a step of the store, or none: whatever a leader, a stale
\* leader or a handler on a broken connection does, an operation enters a log at its end
\* and from its place in the log it was read from, and is executed once a majority of
\* the logs is that long.
ImplementsStore == Store!Spec
=============================================================================

------------------------------- MODULE MCRaft -------------------------------
(* Raft on small clusters.  The configurations give Server, Key and Value  *)
(* model values and choose the boot graphs and the bounds from here.       *)
EXTENDS RaftStore, TLC

\* Every server was listening before any of them connected to its neighbours.
SimultaneousBoot == {[s \in Server |-> Server \ {s}]}

\* The servers were started one after the other: each connected to the earlier ones.
SequentialBoot ==
    {g \in [Server -> SUBSET Server] :
        \E order \in [Server -> 1..Cardinality(Server)] :
            /\ \A s, j \in Server : order[s] = order[j] => s = j
            /\ \A s \in Server : g[s] = {j \in Server : order[j] < order[s]}}

\* A buffer nothing was received into reads as anything, or as zeros.
AnyTerm == 0..MaxTerm
Zeros   == {0}

ServerSymmetry == Permutations(Server)
=============================================================================

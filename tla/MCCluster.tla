------------------------------ MODULE MCCluster ------------------------------
(* The cluster on small sets of servers. *)
EXTENDS Cluster, TLC

\* Before any server was booted there is no connection.
NoLinks == {[s \in Server |-> {}]}

\* A buffer nothing was received into reads as zeros.
Zeros == {0}

ServerSymmetry == Permutations(Server)
=============================================================================

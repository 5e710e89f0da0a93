--------------------------- MODULE MCClientServer ---------------------------
(* A few clients of a small cluster, with two of the four LeaderThreads.   *)
EXTENDS ClientServer, TLC

Symmetric == Permutations(Server) \cup Permutations(LeaderThread)
=============================================================================

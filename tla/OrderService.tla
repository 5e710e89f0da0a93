----------------------------- MODULE OrderService -----------------------------
(* What the servers promise about the orders of their clients: an order is *)
(* placed once, confirmed to its client once, and enters one log, once,    *)
(* only after it was confirmed.  A confirmed order may never get there.    *)
EXTENDS Integers, Sequences

CONSTANTS Server, Order

VARIABLES
    placed,      \* the orders a server has queued, now or before
    confirmed,   \* those whose client is, or will be, told so
    log          \* per server: the orders written to its log

serviceVars == <<placed, confirmed, log>>

Init ==
    /\ placed = {}
    /\ confirmed = {}
    /\ log = [s \in Server |-> <<>>]

Place(o) ==
    /\ o \notin placed
    /\ placed' = placed \cup {o}
    /\ UNCHANGED <<confirmed, log>>

Confirm(o) ==
    /\ o \in placed \ confirmed
    /\ confirmed' = confirmed \cup {o}
    /\ UNCHANGED <<placed, log>>

InLog(o) == \E t \in Server : \E i \in 1..Len(log[t]) : log[t][i] = o

Write(s, o) ==
    /\ o \in confirmed /\ ~InLog(o)
    /\ log' = [log EXCEPT ![s] = Append(@, o)]
    /\ UNCHANGED <<placed, confirmed>>

Next == \E o \in Order : Place(o) \/ Confirm(o) \/ \E s \in Server : Write(s, o)

Spec == Init /\ [][Next]_serviceVars
=============================================================================

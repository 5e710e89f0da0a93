--------------------------- MODULE ReplicatedStore ---------------------------
(* What the servers promise together, without their messages, terms, votes *)
(* and threads: each server has a log that only grows, at its end.  A new  *)
(* operation enters it at a server that has been a leader; at any other it *)
(* is copied from another server's log, from the same place.  A server     *)
(* commits only what a majority of the logs is long enough to hold, and    *)
(* its record is the replay of what it committed.                          *)
(*                                                                         *)
(* It does not promise that the logs agree: with two leaders they may not. *)
EXTENDS Integers, Sequences, TLAPS

CONSTANTS
    Server, Key, Value, NoValue,
    Majority     \* the sets of servers that are more than half of them

VARIABLES
    leaders,     \* the servers that have been a leader
    log,         \* the operations each server has
    committed,   \* how many of them it has executed
    record       \* the value it returns for each key

storeVars == <<leaders, log, committed, record>>

Operations == [term : Nat, arg1 : Key, arg2 : Value]

\* The records the first n operations leave behind.
Replay(operations, n) ==
    [k \in Key |->
        LET writes == {i \in 1..n : operations[i].arg1 = k}
        IN  IF writes = {} THEN NoValue
            ELSE operations[CHOOSE i \in writes : \A j \in writes : i >= j].arg2]

Init ==
    /\ leaders = {}
    /\ log = [s \in Server |-> <<>>]
    /\ committed = [s \in Server |-> 0]
    /\ record = [s \in Server |-> [k \in Key |-> NoValue]]

Lead(s) ==
    /\ leaders' = leaders \cup {s}
    /\ UNCHANGED <<log, committed, record>>

\* A client's operation is the one that turns up at the end of a leader's log.
Submit(s) ==
    /\ s \in leaders
    /\ Len(log'[s]) = Len(log[s]) + 1
    /\ LET op == log'[s][Len(log[s]) + 1]
       IN  op \in Operations /\ log' = [log EXCEPT ![s] = Append(@, op)]
    /\ UNCHANGED <<leaders, committed, record>>

HeldByMajority(logs, n) == \E Q \in Majority : \A j \in Q : Len(logs[j]) >= n

\* s commits some of the operations it has not committed yet.
Commit(s) ==
    \E n \in committed[s] + 1 .. Len(log'[s]) :
        /\ HeldByMajority(log', n)
        /\ committed' = [committed EXCEPT ![s] = n]
        /\ record' = [record EXCEPT ![s] = Replay(log'[s], n)]

Learn(s) == Commit(s) /\ UNCHANGED <<leaders, log>>

\* s takes its next operation from the log of t, and may commit in the same step.
Copy(s, t) ==
    /\ Len(log[s]) < Len(log[t])
    /\ log' = [log EXCEPT ![s] = Append(@, log[t][Len(@) + 1])]
    /\ Commit(s) \/ UNCHANGED <<committed, record>>
    /\ UNCHANGED leaders

Next ==
    \E s \in Server :
        Lead(s) \/ Submit(s) \/ Learn(s) \/ \E t \in Server : Copy(s, t)

Spec == Init /\ [][Next]_storeVars

-----------------------------------------------------------------------------
(* What follows from the promise. *)

\* As long as one server only has been a leader, its log holds every other.
OneReign ==
    \A l \in Server :
        leaders \subseteq {l} =>
            \A s \in Server :
                /\ Len(log[s]) <= Len(log[l])
                /\ \A i \in 1..Len(log[s]) : log[s][i] = log[l][i]

-----------------------------------------------------------------------------
(* The proof. *)

\* The logs are sequences, and that of the only leader, if there has been only one, holds
\* every other.
StoreInv ==
    /\ log \in [Server -> Seq(Operations)]
    /\ OneReign

\* The log l begins with all of k.
Holds(l, k) == Len(k) <= Len(l) /\ \A i \in 1..Len(k) : k[i] = l[i]

\* A log that grows at its end holds what it held before, and is held where its new
\* operation has its place.
LEMMA AppendHolds ==
    ASSUME NEW l \in Seq(Operations), NEW k \in Seq(Operations), NEW op \in Operations
    PROVE  /\ Append(l, op) \in Seq(Operations)
           /\ Holds(l, k) => Holds(Append(l, op), k)
           /\ Holds(l, k) /\ Len(k) < Len(l) /\ op = l[Len(k) + 1] => Holds(l, Append(k, op))
           /\ Holds(l, l)
BY DEF Holds

LEMMA InitStoreInv == Init => StoreInv
BY DEF Init, StoreInv, OneReign

\* A leader's log grows: it holds what it held, and no other server has ever led.
LEMMA SubmitStoreInv ==
    ASSUME StoreInv, NEW s \in Server, Submit(s)
    PROVE  StoreInv'
<1>1. PICK op \in Operations : log' = [log EXCEPT ![s] = Append(@, op)]
  BY DEF Submit
<1>2. /\ log \in [Server -> Seq(Operations)] /\ leaders' = leaders /\ s \in leaders
  BY DEF StoreInv, Submit
<1>3. log' \in [Server -> Seq(Operations)]
  BY <1>1, <1>2, AppendHolds
<1>4. ASSUME NEW l \in Server, leaders \subseteq {l}, NEW r \in Server
      PROVE  Holds(log'[l], log'[r])
  <2>1. l = s /\ Holds(log[l], log[r])
    BY <1>2, <1>4 DEF StoreInv, OneReign, Holds
  <2>2. log'[l] = Append(log[l], op)
    BY <1>1, <1>2, <2>1
  <2>3. CASE r = s
    BY <1>3, <2>1, <2>3 DEF Holds
  <2>4. CASE r # s
    BY <1>1, <1>2, <2>1, <2>2, <2>4, AppendHolds
  <2> QED BY <2>3, <2>4
<1> QED BY <1>2, <1>3, <1>4 DEF StoreInv, OneReign, Holds

\* An operation copied from a log that the leader's log holds is the leader's, too.
LEMMA CopyStoreInv ==
    ASSUME StoreInv, NEW s \in Server, NEW t \in Server, Copy(s, t)
    PROVE  StoreInv'
<1> DEFINE op == log[t][Len(log[s]) + 1]
<1>1. /\ log \in [Server -> Seq(Operations)] /\ leaders' = leaders
      /\ log' = [log EXCEPT ![s] = Append(@, op)] /\ Len(log[s]) < Len(log[t])
  BY DEF StoreInv, Copy
<1>2. op \in Operations
  BY <1>1
<1>3. log' \in [Server -> Seq(Operations)]
  <2> HIDE DEF op
  <2> QED BY <1>1, <1>2, AppendHolds
<1>4. ASSUME NEW l \in Server, leaders \subseteq {l}, NEW r \in Server
      PROVE  Holds(log'[l], log'[r])
  <2>1. \A q \in Server : Holds(log[l], log[q])
    BY <1>4 DEF StoreInv, OneReign, Holds
  <2>2. l # s /\ Len(log[s]) < Len(log[l]) /\ op = log[l][Len(log[s]) + 1]
    BY <1>1, <2>1 DEF Holds
  <2>3. log'[l] = log[l]
    BY <1>1, <2>2
  <2> HIDE DEF op
  <2>4. CASE r = s
    <3>1. log'[r] = Append(log[s], op)
      BY <1>1, <2>4
    <3> QED BY <1>1, <1>2, <2>1, <2>2, <2>3, <3>1, AppendHolds
  <2>5. CASE r # s
    BY <1>1, <2>1, <2>3, <2>5
  <2> QED BY <2>4, <2>5
<1> QED BY <1>1, <1>3, <1>4 DEF StoreInv, OneReign, Holds

LEMMA NextStoreInv == StoreInv /\ [Next]_storeVars => StoreInv'
<1> SUFFICES ASSUME StoreInv, [Next]_storeVars PROVE StoreInv'
  OBVIOUS
<1>1. CASE UNCHANGED storeVars
  BY <1>1 DEF storeVars, StoreInv, OneReign
<1>2. CASE \E s \in Server : Lead(s) \/ Learn(s)
  BY <1>2 DEF Lead, Learn, StoreInv, OneReign
<1>3. CASE \E s \in Server : Submit(s)
  BY <1>3, SubmitStoreInv
<1>4. CASE \E s, t \in Server : Copy(s, t)
  BY <1>4, CopyStoreInv
<1> QED BY <1>1, <1>2, <1>3, <1>4 DEF Next

\* Whatever the servers copy from whom, and in whatever order: as long as one server only
\* has been a leader, its log holds every other.
THEOREM OneReignHolds == Spec => []OneReign
<1>1. StoreInv => OneReign
  BY DEF StoreInv
<1> QED BY <1>1, InitStoreInv, NextStoreInv, PTL DEF Spec
=============================================================================

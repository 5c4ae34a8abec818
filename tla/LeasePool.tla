------------------------------ MODULE LeasePool ------------------------------
(***************************************************************************)
(* What a connection pool promises to the goroutines that use it,          *)
(* whatever it does to keep the promise: while the pool is open a client   *)
(* may be lent a connection that nobody else is holding and that is not    *)
(* retired, at most Capacity connections are lent at a time, a connection  *)
(* is never retired under a client (except by closing the pool), and after *)
(* the pool is closed nothing is lent any more.                            *)
(*                                                                         *)
(* client/pool.go is shown to implement this specification by module       *)
(* ConnPool.                                                               *)
(***************************************************************************)
EXTENDS Naturals, FiniteSets

CONSTANTS Client,      \* goroutines that borrow connections
          Resource,    \* the connections there can ever be
          Nothing,     \* held by a client that holds no connection
          Capacity     \* how many connections may be lent at a time

VARIABLES status,      \* "new", then "open", then "closed"
          lent,        \* lent[h]: the connection client h holds, or Nothing
          retired      \* connections that have been closed for good

vars == <<status, lent, retired>>

Lent == {c \in Resource : \E h \in Client : lent[h] = c}

Init == /\ status = "new"
        /\ lent = [h \in Client |-> Nothing]
        /\ retired = {}

Open == /\ status = "new"
        /\ status' = "open"
        /\ UNCHANGED <<lent, retired>>

Grant(h, c) == /\ status = "open"
               /\ lent[h] = Nothing
               /\ c \notin Lent \cup retired
               /\ Cardinality(Lent) < Capacity
               /\ lent' = [lent EXCEPT ![h] = c]
               /\ UNCHANGED <<status, retired>>

Return(h) == /\ lent[h] # Nothing
             /\ lent' = [lent EXCEPT ![h] = Nothing]
             /\ UNCHANGED <<status, retired>>

Retire(R) == /\ R \cap Lent = {}
             /\ retired' = retired \cup R
             /\ UNCHANGED <<status, lent>>

Shutdown(R) == /\ status' = "closed"
               /\ retired' = retired \cup R
               /\ UNCHANGED lent

Next == \/ Open
        \/ \E h \in Client : Return(h) \/ \E c \in Resource : Grant(h, c)
        \/ \E R \in SUBSET Resource : Retire(R) \/ Shutdown(R)

Spec == Init /\ [][Next]_vars
==============================================================================

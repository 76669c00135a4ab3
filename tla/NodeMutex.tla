------------------------------ MODULE NodeMutex ------------------------------
(***************************************************************************)
(* What the node lock promises: a target node is held by at most one       *)
(* claimant (a Knowledge Agent process that runs a mutating command) at a  *)
(* time, and a claimant holds at most one node.     NodeLocks implements   *)
(* it with expiring rows of the node_locks table.                          *)
(***************************************************************************)
CONSTANTS Node, Claimant, NoOne

VARIABLE holder       \* who holds each node, NoOne when nobody does

Init == holder = [n \in Node |-> NoOne]

Grant(c, n) ==
  /\ holder[n] = NoOne
  /\ \A m \in Node : holder[m] # c
  /\ holder' = [holder EXCEPT ![n] = c]

\* Claimants stop holding their nodes: one has finished or died, or time has
\* passed and ended the leases of several at once.
Drop(S) ==
  /\ S # {} /\ \A n \in S : holder[n] # NoOne
  /\ holder' = [n \in Node |-> IF n \in S THEN NoOne ELSE holder[n]]

Next ==
  \/ \E n \in Node, c \in Claimant : Grant(c, n)
  \/ \E S \in SUBSET Node : Drop(S)

Spec == Init /\ [][Next]_holder
==============================================================================

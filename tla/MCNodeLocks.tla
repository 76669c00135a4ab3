----------------------------- MODULE MCNodeLocks -----------------------------
(***************************************************************************)
(* NodeLocks for TLC: two processes, two nodes, and the shipped catalogue  *)
(* in smaller numbers.  Its restarts of 60 seconds with two attempts fill  *)
(* a lease of 120 to the last second, and so does `long` its lease of 4;   *)
(* the commands of 30 seconds fit the default lease, and so does `short`,  *)
(* with nothing to spare.  The database takes up to a second of a train,   *)
(* so that a lease runs out before, at and after each deadline.            *)
(***************************************************************************)
EXTENDS NodeLocks

long == [timeout |-> 2, attempts |-> 2]
short == [timeout |-> 1, attempts |-> 2]
Catalogue == {long, short}
==============================================================================

------------------------------- MODULE Clusters -------------------------------
(***************************************************************************)
(* The aggregator of Layer 2: a batch of anomalies becomes clusters, each  *)
(* anomaly going to the first cluster that ended at most a window before   *)
(* it and shares its container or its service.                             *)
(***************************************************************************)
EXTENDS Selections, SequencesExt

CONSTANTS Window, MinClusterSize

ASSUME WindowAssumption == Window \in Nat /\ MinClusterSize \in Nat

NewCluster(a) ==
  [containers |-> {a.container}, services |-> {a.service}, seen |-> a.seen,
   config |-> a.config, end |-> a.time, members |-> <<a>>]

AddAnomaly(c, a) ==
  [containers |-> c.containers \cup {a.container}, services |-> c.services \cup {a.service},
   seen |-> c.seen \cup a.seen, config |-> c.config \/ a.config,
   end |-> IF a.time > c.end THEN a.time ELSE c.end, members |-> Append(c.members, a)]

\* Mutant: asks for the container and the service.
BelongsBug(a, c) ==
  /\ a.time - c.end \in -Window .. Window
  /\ a.container \in c.containers /\ a.service \in c.services

Belongs(a, c) ==
  /\ a.time - c.end \in -Window .. Window
  /\ a.container \in c.containers \/ a.service \in c.services

Place(clusters, a) ==
  LET fits == {i \in DOMAIN clusters : Belongs(a, clusters[i])}
      first == CHOOSE i \in fits : \A j \in fits : i <= j
  IN IF fits = {} THEN Append(clusters, NewCluster(a))
     ELSE [clusters EXCEPT ![first] = AddAnomaly(@, a)]

\* sorted() is stable: equal times stay in the order of the batch.
Earlier(batch) ==
  {p \in (DOMAIN batch) \X (DOMAIN batch) :
     \/ batch[p[1]].time < batch[p[2]].time
     \/ batch[p[1]].time = batch[p[2]].time /\ p[1] < p[2]}

ByTime(batch) ==
  [k \in DOMAIN batch |-> batch[Enumerate(DOMAIN batch, Earlier(batch))[k]]]

\* One anomaly after the other is placed.
Grouped(batch) ==
  LET sorted == ByTime(batch)
      placed[n \in 0 .. Len(batch)] ==
        IF n = 0 THEN <<>> ELSE Place(placed[n - 1], sorted[n])
  IN placed[Len(batch)]

\* aggregate: clusters below the minimum size are dropped.
LargeEnough(c) == Len(c.members) >= MinClusterSize

Aggregate(batch) ==
  LET clusters == Grouped(batch)
  IN Filter(clusters, {c \in ToSet(clusters) : LargeEnough(c)})
==============================================================================

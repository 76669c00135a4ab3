--------------------------- MODULE Analysis_proofs ---------------------------
(***************************************************************************)
(* Proofs about the analyzer, for every set of anomalies, drafts, batches  *)
(* and environments, every window, every number of reports and every cap   *)
(* that leaves the graph its super-steps: all the safety properties that   *)
(* Analysis states, and that it implements DiagnosisTable.                 *)
(***************************************************************************)
EXTENDS Analysis, FixingPlan_proofs

-----------------------------------------------------------------------------
(* The cap of the investigation *)

\* The super-steps follow from the turns.
StepsFollowTurns ==
  /\ turn \in 0 .. MaxIterations + 1
  /\ pc = "investigator" => turn <= MaxIterations /\ supersteps = 2 * turn
  /\ pc = "tools" => turn \in 1 .. MaxIterations /\ supersteps = 2 * turn - 1
  /\ pc = "planner" => turn >= 1 /\ supersteps = 2 * turn - 1
  /\ pc \notin {"investigator", "tools", "planner"} => supersteps = 0

LEMMA InitFollows == Init => StepsFollowTurns
BY LimitAssumption DEF Init, StepsFollowTurns

LEMMA NextFollows == StepsFollowTurns /\ [Next]_vars => StepsFollowTurns'
<1> SUFFICES ASSUME StepsFollowTurns, [Next]_vars PROVE StepsFollowTurns'
  OBVIOUS
<1> USE LimitAssumption DEF StepsFollowTurns, agentVars
<1>1. ASSUME NEW b \in Batch, TakeBatch(b) PROVE StepsFollowTurns'
  BY <1>1 DEF TakeBatch
<1>2. CASE StartBatch
  BY <1>2 DEF StartBatch
<1>3. CASE FindSimilar
  BY <1>3 DEF FindSimilar
<1>4. CASE StartInvestigation
  BY <1>4 DEF StartInvestigation
<1>5. CASE Investigator
  BY <1>5 DEF Investigator
<1>6. CASE RunTools
  BY <1>6 DEF RunTools
<1>7. CASE Planner
  BY <1>7 DEF Planner
<1>8. CASE Convert
  BY <1>8 DEF Convert
<1>9. CASE Notify
  BY <1>9 DEF Notify
<1>10. CASE StoreDiagnosis
  BY <1>10 DEF StoreDiagnosis, NextCluster
<1>11. CASE InvestigatorFails
  BY <1>11 DEF InvestigatorFails
<1>12. CASE ClusterFails
  BY <1>12 DEF ClusterFails, NextCluster
<1>13. CASE Restart
  BY <1>13 DEF Restart
<1>14. CASE UNCHANGED vars
  BY <1>14 DEF vars
<1> QED
  BY <1>1, <1>2, <1>3, <1>4, <1>5, <1>6, <1>7, <1>8, <1>9, <1>10, <1>11, <1>12, <1>13, <1>14
     DEF Next, Work

\* CapBeforeLimit: investigator_node's cap ends every investigation while
\* LangGraph still has a super-step for the planner (agent/graph.py:93).
THEOREM CapComesFirst == Spec => []CapBeforeLimit
<1>1. StepsFollowTurns => CapBeforeLimit
  BY LimitAssumption DEF StepsFollowTurns, CapBeforeLimit
<1> QED
  BY <1>1, InitFollows, NextFollows, PTL DEF Spec

-----------------------------------------------------------------------------
(* The clusters of a batch *)

ClusterType ==
  [containers : SUBSET Container, services : SUBSET {a.service : a \in Anomaly},
   seen : SUBSET Service, config : BOOLEAN, end : Int, members : Seq(Anomaly)]

\* The anomaly that a cluster was made for is one of those it stands for.
Led(c) ==
  /\ c.members # <<>>
  /\ c.members[1].container \in c.containers /\ c.members[1].service \in c.services
  /\ c.members[1].time <= c.end

Apart(a, b) ==
  a.time - b.time \in -Window .. Window => a.container # b.container /\ a.service # b.service

\* What grouping keeps up: of two clusters the first anomalies do not belong
\* together.
Formed(cs) ==
  /\ cs \in Seq(ClusterType)
  /\ \A i \in DOMAIN cs : Led(cs[i])
  /\ \A i, j \in DOMAIN cs : i # j => Apart(cs[i].members[1], cs[j].members[1])

LEMMA NewClusterIsLed ==
  ASSUME NEW a \in Anomaly
  PROVE  /\ NewCluster(a) \in ClusterType /\ Led(NewCluster(a))
         /\ NewCluster(a).members[1] = a /\ NewCluster(a).end = a.time
<1> DEFINE c == NewCluster(a)
<1>1. /\ c.containers = {a.container} /\ c.services = {a.service} /\ c.seen = a.seen
      /\ c.config = a.config /\ c.end = a.time /\ c.members = <<a>>
  BY DEF NewCluster
<1>2. c \in ClusterType
  <2>1. <<a>> \in Seq(Anomaly)
    OBVIOUS
  <2>2. /\ {a.container} \in SUBSET Container /\ {a.service} \in SUBSET {x.service : x \in Anomaly}
        /\ a.seen \in SUBSET Service /\ a.config \in BOOLEAN /\ a.time \in Int
    BY AnomalyAssumption DEF Container
  <2> QED
    BY <2>1, <2>2 DEF NewCluster, ClusterType
<1>3. c.members[1] = a /\ c.members # <<>>
  BY <1>1
<1>4. a.time <= a.time
  BY AnomalyAssumption
<1> QED
  BY <1>1, <1>2, <1>3, <1>4 DEF Led

LEMMA AddedKeepsLead ==
  ASSUME NEW c \in ClusterType, Led(c), NEW a \in Anomaly, c.end <= a.time
  PROVE  /\ AddAnomaly(c, a) \in ClusterType /\ Led(AddAnomaly(c, a))
         /\ AddAnomaly(c, a).members[1] = c.members[1] /\ AddAnomaly(c, a).end <= a.time
<1> DEFINE d == AddAnomaly(c, a)
<1>1. /\ d.containers = c.containers \cup {a.container}
      /\ d.services = c.services \cup {a.service} /\ d.seen = c.seen \cup a.seen
      /\ d.config = (c.config \/ a.config)
      /\ d.end = (IF a.time > c.end THEN a.time ELSE c.end)
      /\ d.members = Append(c.members, a)
  BY DEF AddAnomaly
<1>2. /\ c.containers \in SUBSET Container /\ c.services \in SUBSET {x.service : x \in Anomaly}
      /\ c.seen \in SUBSET Service /\ c.config \in BOOLEAN /\ c.end \in Int
      /\ c.members \in Seq(Anomaly)
  BY DEF ClusterType
<1>3. /\ a.container \in Container /\ a.service \in {x.service : x \in Anomaly}
      /\ a.seen \in SUBSET Service /\ a.config \in BOOLEAN /\ a.time \in Int
  BY AnomalyAssumption DEF Container
<1>4. /\ Append(c.members, a) \in Seq(Anomaly) /\ Append(c.members, a) # <<>>
      /\ Append(c.members, a)[1] = c.members[1]
  <2>1. Len(c.members) >= 1
    BY <1>2 DEF Led
  <2> QED
    BY <1>2, <2>1
<1>5. d \in ClusterType
  <2>1. /\ c.containers \cup {a.container} \in SUBSET Container
        /\ c.services \cup {a.service} \in SUBSET {x.service : x \in Anomaly}
        /\ c.seen \cup a.seen \in SUBSET Service /\ (c.config \/ a.config) \in BOOLEAN
        /\ (IF a.time > c.end THEN a.time ELSE c.end) \in Int
    BY <1>2, <1>3
  <2> QED
    BY <2>1, <1>4 DEF AddAnomaly, ClusterType
<1>6. c.members[1].time \in Int
  <2>1. c.members[1] \in Anomaly
    BY <1>2 DEF Led
  <2> QED
    BY <2>1, AnomalyAssumption
<1>7. d.members[1].time <= d.end /\ d.end <= a.time
  BY <1>1, <1>2, <1>3, <1>4, <1>6 DEF Led
<1> QED
  BY <1>1, <1>4, <1>5, <1>7 DEF Led

\* An anomaly that is no earlier than what there is and belongs to no cluster is
\* apart from every first one.
LEMMA NotBelongsApart ==
  ASSUME NEW c \in ClusterType, Led(c), NEW a \in Anomaly, c.end <= a.time, ~Belongs(a, c)
  PROVE  Apart(a, c.members[1]) /\ Apart(c.members[1], a)
<1> DEFINE b == c.members[1]
<1>1. b \in Anomaly
  BY DEF ClusterType, Led
<1>2. a.time \in Int /\ b.time \in Int /\ c.end \in Int /\ Window \in Nat
  BY <1>1, AnomalyAssumption, WindowAssumption DEF ClusterType
<1>3. b.time <= c.end /\ b.container \in c.containers /\ b.service \in c.services
  BY DEF Led
<1>4. CASE a.time - c.end \notin -Window .. Window
  <2>1. a.time - b.time \notin -Window .. Window /\ b.time - a.time \notin -Window .. Window
    <3> HIDE DEF b
    <3> QED
      BY <1>2, <1>3, <1>4
  <2> QED
    BY <2>1 DEF Apart
<1>5. CASE a.container # b.container /\ a.service # b.service
  BY <1>5 DEF Apart
<1> QED
  BY <1>3, <1>4, <1>5 DEF Belongs

LEMMA PlaceKeeps ==
  ASSUME NEW cs, Formed(cs), NEW a \in Anomaly, \A i \in DOMAIN cs : cs[i].end <= a.time
  PROVE  Formed(Place(cs, a)) /\ \A i \in DOMAIN Place(cs, a) : Place(cs, a)[i].end <= a.time
<1> DEFINE fits == {i \in DOMAIN cs : Belongs(a, cs[i])}
           first == CHOOSE i \in fits : \A j \in fits : i <= j
           p == Place(cs, a)
<1>0. cs \in Seq(ClusterType) /\ DOMAIN cs = 1 .. Len(cs) /\ Len(cs) \in Nat
  BY DEF Formed
<1>1. CASE fits = {}
  <2>1. p = Append(cs, NewCluster(a))
    BY <1>1 DEF Place
  <2>2. NewCluster(a) \in ClusterType
    BY NewClusterIsLed
  <2>3. /\ p \in Seq(ClusterType) /\ DOMAIN p = 1 .. Len(cs) + 1
        /\ \A i \in 1 .. Len(cs) : p[i] = cs[i]
        /\ p[Len(cs) + 1] = NewCluster(a)
    BY <1>0, <2>1, <2>2
  <2>4. \A i \in 1 .. Len(cs) :
           /\ Led(p[i]) /\ p[i].end <= a.time
           /\ Apart(a, p[i].members[1]) /\ Apart(p[i].members[1], a)
    <3> SUFFICES ASSUME NEW i \in 1 .. Len(cs)
                 PROVE  /\ Led(p[i]) /\ p[i].end <= a.time
                        /\ Apart(a, p[i].members[1]) /\ Apart(p[i].members[1], a)
      OBVIOUS
    <3>1. /\ p[i] = cs[i] /\ cs[i] \in ClusterType /\ Led(cs[i]) /\ cs[i].end <= a.time
          /\ ~Belongs(a, cs[i])
      BY <1>0, <1>1, <2>3 DEF Formed
    <3> QED
      BY <3>1, NotBelongsApart
  <2>5. Led(p[Len(cs) + 1]) /\ p[Len(cs) + 1].end <= a.time /\ p[Len(cs) + 1].members[1] = a
    BY <2>3, NewClusterIsLed, AnomalyAssumption
  <2> HIDE DEF p, fits
  <2>6. \A i \in DOMAIN p : i \in 1 .. Len(cs) \/ i = Len(cs) + 1
    BY <1>0, <2>3
  <2>7. \A i, j \in 1 .. Len(cs) : i # j => Apart(p[i].members[1], p[j].members[1])
    BY <1>0, <2>3 DEF Formed
  <2>8. \A i, j \in DOMAIN p : i # j => Apart(p[i].members[1], p[j].members[1])
    BY <2>4, <2>5, <2>6, <2>7
  <2> QED
    BY <2>3, <2>4, <2>5, <2>6, <2>8 DEF Formed, p
<1>2. CASE fits # {}
  <2>1. first \in fits
    <3>1. fits \in SUBSET Nat
      BY <1>0
    <3> HIDE DEF fits
    <3>2. \E i \in fits : \A j \in fits : i <= j
      BY <1>2, <3>1, LeastOf
    <3> QED
      BY <3>2
  <2>2. p = [cs EXCEPT ![first] = AddAnomaly(cs[first], a)]
    BY <1>2 DEF Place
  <2> DEFINE c == cs[first]
             d == AddAnomaly(c, a)
  <2>3. first \in 1 .. Len(cs) /\ c \in ClusterType /\ Led(c) /\ c.end <= a.time
    <3>1. first \in DOMAIN cs
      BY <2>1
    <3> HIDE DEF first
    <3> QED
      BY <1>0, <3>1 DEF Formed
  <2> HIDE DEF first, fits
  <2>4. d \in ClusterType /\ Led(d) /\ d.members[1] = c.members[1] /\ d.end <= a.time
    BY <2>3, AddedKeepsLead
  <2> HIDE DEF d
  <2>5. /\ p \in Seq(ClusterType) /\ DOMAIN p = DOMAIN cs
        /\ \A i \in DOMAIN cs : p[i] = IF i = first THEN d ELSE cs[i]
    BY <1>0, <2>2, <2>3, <2>4 DEF d
  <2> HIDE DEF p
  <2>6. \A i \in DOMAIN p : /\ Led(p[i]) /\ p[i].end <= a.time
                            /\ p[i].members[1] = cs[i].members[1]
    BY <2>3, <2>4, <2>5 DEF Formed
  <2> QED
    BY <2>5, <2>6 DEF Formed, p
<1> QED
  BY <1>1, <1>2

LEMMA ByTimeSorts ==
  ASSUME NEW batch \in Seq(Anomaly)
  PROVE  /\ ByTime(batch) \in [1 .. Len(batch) -> Anomaly]
         /\ \A k, l \in 1 .. Len(batch) : k < l => ByTime(batch)[k].time <= ByTime(batch)[l].time
<1> DEFINE S == DOMAIN batch
           order == Earlier(batch)
           list == Enumerate(S, order)
<1>1. S = 1 .. Len(batch) /\ Len(batch) \in Nat /\ IsFiniteSet(S) /\ Cardinality(S) = Len(batch)
  <2>1. S = 1 .. Len(batch) /\ Len(batch) \in Nat
    OBVIOUS
  <2> HIDE DEF S
  <2> QED
    BY <2>1, FS_Interval
<1>2. \A i \in S : batch[i] \in Anomaly /\ batch[i].time \in Int
  BY AnomalyAssumption
<1>3. \A i, j \in S : <<i, j>> \in order <=>
         \/ batch[i].time < batch[j].time
         \/ batch[i].time = batch[j].time /\ i < j
  <2> SUFFICES ASSUME NEW i \in S, NEW j \in S
               PROVE  <<i, j>> \in order <=>
                        \/ batch[i].time < batch[j].time
                        \/ batch[i].time = batch[j].time /\ i < j
    OBVIOUS
  <2>1. <<i, j>> \in S \X S /\ <<i, j>>[1] = i /\ <<i, j>>[2] = j
    OBVIOUS
  <2>2. <<i, j>> \in order <=>
          /\ <<i, j>> \in S \X S
          /\ \/ batch[<<i, j>>[1]].time < batch[<<i, j>>[2]].time
             \/ batch[<<i, j>>[1]].time = batch[<<i, j>>[2]].time /\ <<i, j>>[1] < <<i, j>>[2]
    BY Zenon DEF Earlier
  <2> HIDE DEF S, order
  <2> QED
    BY <2>1, <2>2
<1>4. StrictOrder(S, order)
  <2>0. S \subseteq Nat /\ \A i \in S : batch[i].time \in Int
    BY <1>1, <1>2
  <2> HIDE DEF S, order
  <2>1. \A i \in S : <<i, i>> \notin order
    BY <2>0, <1>3
  <2>2. ASSUME NEW i \in S, NEW j \in S
        PROVE  i = j \/ <<i, j>> \in order \/ <<j, i>> \in order
    <3>1. i \in Nat /\ j \in Nat /\ batch[i].time \in Int /\ batch[j].time \in Int
      BY <2>0
    <3>2. \/ batch[i].time < batch[j].time \/ batch[j].time < batch[i].time
          \/ batch[i].time = batch[j].time /\ (i < j \/ j < i \/ i = j)
      BY <3>1
    <3> QED
      BY <1>3, <3>2
  <2>3. \A i, j, k \in S : <<i, j>> \in order /\ <<j, k>> \in order => <<i, k>> \in order
    BY <2>0, <1>3
  <2> QED
    BY <2>1, <2>2, <2>3 DEF StrictOrder
<1>5. /\ list \in [1 .. Len(batch) -> S]
      /\ \A k, l \in 1 .. Len(batch) : k < l => <<list[k], list[l]>> \in order
  <2> HIDE DEF S, order
  <2> QED
    BY <1>1, <1>4, Enumerates
<1>6. ByTime(batch) = [k \in 1 .. Len(batch) |-> batch[list[k]]]
  BY <1>1 DEF ByTime
<1> HIDE DEF list
<1>7. \A k, l \in 1 .. Len(batch) : k < l => batch[list[k]].time <= batch[list[l]].time
  <2> SUFFICES ASSUME NEW k \in 1 .. Len(batch), NEW l \in 1 .. Len(batch), k < l
               PROVE  batch[list[k]].time <= batch[list[l]].time
    OBVIOUS
  <2>1. list[k] \in S /\ list[l] \in S /\ <<list[k], list[l]>> \in order
    BY <1>5
  <2> HIDE DEF S, order
  <2> QED
    BY <1>2, <1>3, <2>1
<1> QED
  BY <1>2, <1>5, <1>6, <1>7

\* Grouping has an intermediate result for every anomaly.
LEMMA Placements ==
  ASSUME NEW N \in Nat, NEW sorted
  PROVE  \E placed : placed = [n \in 0 .. N |->
                       IF n = 0 THEN <<>> ELSE Place(placed[n - 1], sorted[n])]
<1> DEFINE Upto(f, m) == f = [n \in 0 .. m |->
                                IF n = 0 THEN <<>> ELSE Place(f[n - 1], sorted[n])]
           Bad == {m \in 0 .. N : ~\E f : Upto(f, m)}
<1> SUFFICES ASSUME Bad # {} PROVE FALSE
  <2>1. N \in 0 .. N
    OBVIOUS
  <2> QED
    BY <2>1
<1>1. PICK m \in Bad : \A k \in Bad : m <= k
  <2>1. Bad \in SUBSET Nat
    OBVIOUS
  <2> HIDE DEF Bad
  <2> QED
    BY <2>1, LeastOf
<1>2. m \in Nat /\ m <= N /\ ~\E f : Upto(f, m)
  OBVIOUS
<1>3. CASE m = 0
  <2> DEFINE f == [n \in 0 .. m |-> <<>>]
  <2>1. Upto(f, m)
    BY <1>3
  <2> HIDE DEF f, Upto
  <2> QED
    BY <1>2, <2>1
<1>4. CASE m # 0
  <2>1. m - 1 \in 0 .. N /\ m - 1 \notin Bad
    <3> HIDE DEF Bad
    <3> QED
      BY <1>1, <1>2, <1>4
  <2>2. PICK g : Upto(g, m - 1)
    BY <2>1
  <2> DEFINE f == [n \in 0 .. m |-> IF n = m THEN Place(g[m - 1], sorted[m]) ELSE g[n]]
             h == [n \in 0 .. m |-> IF n = 0 THEN <<>> ELSE Place(f[n - 1], sorted[n])]
  <2>3. ASSUME NEW n \in 0 .. m PROVE f[n] = h[n]
    <3>1. CASE n = m
      <4>1. f[m - 1] = g[m - 1]
        BY <1>2, <1>4
      <4> QED
        BY <1>2, <1>4, <3>1, <4>1
    <3>2. CASE n # m /\ n # 0
      <4>1. n - 1 \in 0 .. m /\ n - 1 # m /\ n \in 0 .. m - 1
        BY <1>2, <3>2
      <4>2. f[n - 1] = g[n - 1] /\ f[n] = g[n]
        BY <3>2, <4>1
      <4>3. g[n] = Place(g[n - 1], sorted[n])
        BY <2>2, <3>2, <4>1
      <4> QED
        BY <3>2, <4>2, <4>3
    <3>3. CASE n # m /\ n = 0
      <4>1. g[0] = <<>>
        BY <1>2, <1>4, <2>2
      <4> QED
        BY <3>3, <4>1
    <3> QED
      BY <3>1, <3>2, <3>3
  <2>4. f = h
    BY <2>3
  <2>5. Upto(f, m)
    BY <2>4
  <2> HIDE DEF f, h, Upto
  <2> QED
    BY <1>2, <2>5
<1> QED
  BY <1>3, <1>4

LEMMA GroupedIsFormed == ASSUME NEW batch \in Seq(Anomaly) PROVE Formed(Grouped(batch))
<1> DEFINE N == Len(batch)
           sorted == ByTime(batch)
           Rec(f) == [n \in 0 .. N |-> IF n = 0 THEN <<>> ELSE Place(f[n - 1], sorted[n])]
           placed == CHOOSE f : f = Rec(f)
           Kept(n) == /\ Formed(placed[n])
                      /\ \A k \in n + 1 .. N : \A i \in DOMAIN placed[n] :
                           placed[n][i].end <= sorted[k].time
           Bad == {n \in 0 .. N : ~Kept(n)}
<1>1. Grouped(batch) = placed[N]
  BY DEF Grouped
<1>2. N \in Nat /\ sorted \in [1 .. N -> Anomaly]
      /\ \A k, l \in 1 .. N : k < l => sorted[k].time <= sorted[l].time
  BY ByTimeSorts
<1> HIDE DEF N, sorted
<1>3. placed = Rec(placed)
  <2>1. \E f : f = Rec(f)
    BY <1>2, Placements
  <2> QED
    BY <2>1
<1> HIDE DEF placed
<1>4. placed[0] = <<>> /\ \A n \in 1 .. N : placed[n] = Place(placed[n - 1], sorted[n])
  BY <1>2, <1>3
<1> HIDE DEF Rec
<1>5. Bad = {}
  <2> SUFFICES ASSUME Bad # {} PROVE FALSE
    OBVIOUS
  <2>1. PICK n \in Bad : \A k \in Bad : n <= k
    <3>1. Bad \in SUBSET Nat
      OBVIOUS
    <3> HIDE DEF Bad
    <3> QED
      BY <3>1, LeastOf
  <2>2. n \in 0 .. N /\ ~Kept(n)
    BY <2>1
  <2>3. CASE n = 0
    <3>1. placed[n] = <<>>
      BY <1>4, <2>3
    <3>2. Formed(<<>>) /\ DOMAIN <<>> = {}
      BY DEF Formed
    <3> QED
      BY <2>2, <3>1, <3>2
  <2>4. CASE n # 0
    <3>1. n - 1 \in 0 .. N /\ n \in 1 .. N /\ n - 1 + 1 = n
      BY <1>2, <2>2, <2>4
    <3>2. Kept(n - 1)
      <4>1. n - 1 \notin Bad
        <5> HIDE DEF Bad
        <5> QED
          BY <1>2, <2>1, <2>2, <2>4
      <4> QED
        BY <3>1, <4>1
    <3>3. \A i \in DOMAIN placed[n - 1] : placed[n - 1][i].end <= sorted[n].time
      BY <1>2, <3>1, <3>2
    <3>4. /\ Formed(placed[n])
          /\ \A i \in DOMAIN placed[n] : placed[n][i].end <= sorted[n].time
      <4>1. placed[n] = Place(placed[n - 1], sorted[n]) /\ sorted[n] \in Anomaly
        BY <1>2, <1>4, <3>1
      <4> QED
        BY <3>2, <3>3, <4>1, PlaceKeeps
    <3>5. ASSUME NEW k \in n + 1 .. N, NEW i \in DOMAIN placed[n]
          PROVE  placed[n][i].end <= sorted[k].time
      <4>1. k \in 1 .. N /\ n < k /\ sorted[n].time <= sorted[k].time
        BY <1>2, <3>1
      <4>2. sorted[n].time \in Int /\ sorted[k].time \in Int
        BY <1>2, <3>1, <4>1, AnomalyAssumption
      <4>3. placed[n][i].end \in Int
        <5>1. placed[n] \in Seq(ClusterType)
          BY <3>4 DEF Formed
        <5>2. placed[n][i] \in ClusterType
          BY <5>1
        <5> QED
          BY <5>2 DEF ClusterType
      <4> QED
        BY <3>4, <4>1, <4>2, <4>3
    <3> QED
      BY <2>2, <3>4, <3>5
  <2> QED
    BY <2>3, <2>4
<1>6. Kept(N)
  <2>1. N \in 0 .. N
    BY <1>2
  <2> QED
    BY <1>5, <2>1
<1> QED
  BY <1>1, <1>6

-----------------------------------------------------------------------------
(* Type correctness *)

EvidenceType == [containers : SUBSET Container, seen : SUBSET Service, config : BOOLEAN]

ReportType == [diagnosis : DiagnosisType, queued : BOOLEAN, flagged : BOOLEAN]

ControlType ==
  /\ settings \in Settings
  /\ pc \in {"idle", "batch", "similar", "paths", "investigator", "tools", "planner",
             "convert", "notify", "store"}
  /\ inbox \in Seq(Anomaly)
  /\ findings \in BOOLEAN /\ tainted \in BOOLEAN
  /\ draft \in Draft \cup {NoSteps}

\* There is a cluster at hand from the start of a batch to its end.
ClustersType ==
  /\ clusters \in Seq(EvidenceType)
  /\ pc = "idle" => clusters = <<>>
  /\ clusters = <<>> => pc \in {"idle", "batch"}

RecordsType == diagnosis \in DiagnosisType /\ reports \in Seq(ReportType)

TypeInv == ControlType /\ ClustersType /\ RecordsType

LEMMA NoPlanType == NoPlan \in FixingPlanType
<1>1. <<>> \in Seq(Operation)
  OBVIOUS
<1> QED
  BY <1>1 DEF NoPlan, FixingPlanType

LEMMA AggregateType ==
  ASSUME NEW batch \in Seq(Anomaly)
  PROVE  [i \in DOMAIN Aggregate(batch) |-> Evidence(Aggregate(batch)[i])] \in Seq(EvidenceType)
<1> DEFINE formed == Aggregate(batch)
<1>1. formed \in Seq(ClusterType)
  <2>1. Grouped(batch) \in Seq(ClusterType)
    BY GroupedIsFormed DEF Formed
  <2> DEFINE large == {c \in ToSet(Grouped(batch)) : LargeEnough(c)}
  <2>2. formed = Filter(Grouped(batch), large)
    BY DEF Aggregate
  <2> HIDE DEF large, formed
  <2>3. formed \in Seq(ClusterType \cap large)
    BY <2>1, <2>2, FilterSelects
  <2>4. ClusterType \cap large \subseteq ClusterType
    OBVIOUS
  <2> QED
    BY <2>3, <2>4
<1> HIDE DEF formed
<1>2. \A i \in 1 .. Len(formed) : Evidence(formed[i]) \in EvidenceType
  <2> SUFFICES ASSUME NEW i \in 1 .. Len(formed) PROVE Evidence(formed[i]) \in EvidenceType
    OBVIOUS
  <2>1. formed[i] \in ClusterType
    BY <1>1
  <2> QED
    BY <2>1 DEF ClusterType, EvidenceType, Evidence
<1>3. [i \in 1 .. Len(formed) |-> Evidence(formed[i])] \in Seq(EvidenceType)
  BY <1>1, <1>2
<1> QED
  BY <1>1, <1>3 DEF formed

LEMMA InitTypes == Init => TypeInv
<1> SUFFICES ASSUME Init PROVE TypeInv
  OBVIOUS
<1>1. NoDiagnosis \in DiagnosisType
  BY NoPlanType DEF NoDiagnosis, DiagnosisType, Origin
<1>2. <<>> \in Seq(Anomaly) /\ <<>> \in Seq(EvidenceType) /\ <<>> \in Seq(ReportType)
  OBVIOUS
<1>3. ControlType
  BY <1>2 DEF Init, ControlType
<1>4. ClustersType
  BY <1>2 DEF Init, ClustersType
<1>5. RecordsType
  BY <1>1, <1>2 DEF Init, RecordsType
<1> QED
  BY <1>3, <1>4, <1>5 DEF TypeInv

LEMMA NextClusterTypes ==
  ASSUME TypeInv, NextCluster, pc \notin {"idle", "batch"}
  PROVE  ClustersType' /\ diagnosis' \in DiagnosisType /\ pc' \in {"idle", "similar"}
<1>1. clusters \in Seq(EvidenceType) /\ clusters # <<>>
  BY DEF TypeInv, ClustersType
<1>2. /\ clusters' = Tail(clusters) /\ pc' = (IF Len(clusters) = 1 THEN "idle" ELSE "similar")
      /\ diagnosis' = NoDiagnosis
  BY DEF NextCluster
<1>3. Tail(clusters) \in Seq(EvidenceType) /\ (Tail(clusters) = <<>> <=> Len(clusters) = 1)
  <2>1. Len(clusters) >= 1
    BY <1>1
  <2>2. Tail(clusters) \in Seq(EvidenceType) /\ Len(Tail(clusters)) = Len(clusters) - 1
    BY <1>1, HeadTailProperties
  <2> DEFINE rest == Tail(clusters)
  <2>3. rest \in Seq(EvidenceType)
    BY <2>2
  <2>4. Len(rest) = Len(clusters) - 1
    BY <2>2
  <2> HIDE DEF rest
  <2>5. rest = <<>> <=> Len(clusters) = 1
    BY <1>1, <2>1, <2>3, <2>4
  <2> QED
    BY <2>3, <2>5 DEF rest
<1>4. NoDiagnosis \in DiagnosisType
  BY NoPlanType DEF NoDiagnosis, DiagnosisType, Origin
<1> QED
  BY <1>2, <1>3, <1>4 DEF ClustersType

LEMMA DraftIsList == ASSUME TypeInv PROVE draft.execute \in Seq(ToSet(draft.execute))
<1>1. CASE draft \in Draft
  BY <1>1, DraftAssumption
<1>2. CASE draft = NoSteps
  <2>1. draft.execute = <<>>
    BY <1>2 DEF NoSteps
  <2> QED
    BY <2>1
<1> QED
  BY <1>1, <1>2 DEF TypeInv, ControlType

\* The cluster at hand, and a diagnosis of it.
LEMMA DiagnosisHasType ==
  ASSUME TypeInv, pc \notin {"idle", "batch"},
         NEW plan \in FixingPlanType, NEW found \in BOOLEAN
  PROVE  Current \in EvidenceType /\ Diagnosis(plan, found) \in DiagnosisType
<1>1. Current \in EvidenceType
  BY DEF TypeInv, ClustersType, Current
<1>2. /\ Current.containers \ {NoContainer} \in SUBSET Container
      /\ [tainted |-> tainted, seen |-> Current.seen, config |-> Current.config] \in Origin
  BY <1>1 DEF EvidenceType, Origin, TypeInv, ControlType
<1> QED
  BY <1>1, <1>2 DEF Diagnosis, DiagnosisType

LEMMA ConvertTypes == ASSUME TypeInv, Convert PROVE diagnosis' \in DiagnosisType
<1> DEFINE steps == EnsureLabSteps(draft, Current)
           plan == PlanOf(steps, settings.test, settings.force, findings)
<1>1. /\ pc = "convert"
      /\ \/ diagnosis' = Diagnosis(plan, findings) /\ Convertible(steps, Current)
         \/ diagnosis' = Diagnosis(NoPlan, FALSE)
  BY DEF Convert
<1>2. Convertible(steps, Current) => steps \in Seq(Operation)
  BY DraftIsList, KnownSteps DEF Convertible
<1> HIDE DEF steps
<1>3. findings \in BOOLEAN /\ settings.test \in BOOLEAN /\ settings.force \in BOOLEAN
  BY SettingsAssumption DEF TypeInv, ControlType
<1>4. Convertible(steps, Current) => plan \in FixingPlanType
  BY <1>2, <1>3 DEF PlanOf, FixingPlanType
<1> HIDE DEF plan
<1> QED
  BY <1>1, <1>3, <1>4, NoPlanType, DiagnosisHasType

LEMMA NextTypes == TypeInv /\ [Next]_vars => TypeInv'
<1> SUFFICES ASSUME TypeInv, [Next]_vars PROVE TypeInv'
  OBVIOUS
<1> USE DEF TypeInv, agentVars
<1>a. ASSUME UNCHANGED <<clusters, pc>> PROVE ClustersType'
  BY <1>a DEF ClustersType
<1>b. ASSUME UNCHANGED <<diagnosis, reports>> PROVE RecordsType'
  BY <1>b DEF RecordsType
<1>c. ASSUME UNCHANGED clusters, pc' \notin {"idle", "batch"}, pc \notin {"idle", "batch"}
      PROVE  ClustersType'
  BY <1>c DEF ClustersType
<1>1. ASSUME NEW b \in Batch, TakeBatch(b) PROVE TypeInv'
  <2>1. b \in Seq(Anomaly)
    BY BatchAssumption
  <2>2. clusters' \in Seq(EvidenceType)
    BY <1>1, <2>1, AggregateType DEF TakeBatch
  <2> QED
    BY <1>1, <2>1, <2>2, <1>b DEF TakeBatch, ControlType, ClustersType
<1>2. CASE StartBatch
  BY <1>2, <1>b DEF StartBatch, ControlType, ClustersType
<1>3. CASE FindSimilar
  <2>1. pc = "similar" /\ pc' \in {"paths", "notify"}
    BY <1>3 DEF FindSimilar
  <2>2. diagnosis' \in DiagnosisType
    <3>1. CASE UNCHANGED diagnosis
      BY <3>1 DEF RecordsType
    <3>2. CASE \E i \in DOMAIN reports : diagnosis' = Reused(reports[i].diagnosis)
      <4>1. PICK i \in DOMAIN reports : diagnosis' = Reused(reports[i].diagnosis)
        BY <3>2
      <4>2. reports[i] \in ReportType
        BY DEF RecordsType
      <4>3. reports[i].diagnosis \in DiagnosisType
        BY <4>2 DEF ReportType
      <4>4. Current.containers \ {NoContainer} \in SUBSET Container
        BY <2>1, <4>3, NoPlanType, DiagnosisHasType DEF EvidenceType
      <4> QED
        BY <4>1, <4>3, <4>4 DEF Reused, DiagnosisType
    <3> QED
      BY <1>3, <3>1, <3>2 DEF FindSimilar, RecordsType
  <2>3. RecordsType'
    BY <1>3, <2>2 DEF FindSimilar, RecordsType
  <2> QED
    BY <1>3, <2>1, <2>3, <1>c DEF FindSimilar, ControlType
<1>4. CASE StartInvestigation
  BY <1>4, <1>b, <1>c DEF StartInvestigation, ControlType
<1>5. CASE Investigator
  BY <1>5, <1>b, <1>c DEF Investigator, ControlType
<1>6. CASE RunTools
  BY <1>6, <1>b, <1>c DEF RunTools, Guard, ControlType
<1>7. CASE Planner
  BY <1>7, <1>b, <1>c DEF Planner, ControlType
<1>8. CASE Convert
  <2>1. RecordsType'
    BY <1>8, ConvertTypes DEF Convert, RecordsType
  <2> QED
    BY <1>8, <2>1, <1>c DEF Convert, ControlType
<1>9. CASE Notify
  BY <1>9, <1>b, <1>c DEF Notify, ControlType
<1>10. CASE StoreDiagnosis
  <2> DEFINE row == [diagnosis |-> diagnosis, queued |-> AutoAllowed(diagnosis.plan),
                     flagged |-> diagnosis.findings]
  <2>1. row \in ReportType
    <3>1. AutoAllowed(diagnosis.plan) \in BOOLEAN
      BY DEF AutoAllowed
    <3>2. diagnosis \in DiagnosisType /\ diagnosis.findings \in BOOLEAN
      BY DEF RecordsType, DiagnosisType
    <3> QED
      BY <3>1, <3>2 DEF ReportType
  <2>2. reports' = Append(reports, row) /\ pc = "store" /\ NextCluster
    BY <1>10 DEF StoreDiagnosis
  <2> HIDE DEF row
  <2>3. RecordsType'
    BY <2>1, <2>2, NextClusterTypes DEF RecordsType
  <2> QED
    BY <1>10, <2>2, <2>3, NextClusterTypes DEF StoreDiagnosis, ControlType
<1>11. CASE InvestigatorFails
  <2>1. RecordsType'
    BY <1>11, NoPlanType, DiagnosisHasType DEF InvestigatorFails, RecordsType
  <2> QED
    BY <1>11, <2>1, <1>c DEF InvestigatorFails, ControlType
<1>12. CASE ClusterFails
  <2>1. RecordsType'
    BY <1>12, NextClusterTypes DEF ClusterFails, RecordsType
  <2> QED
    BY <1>12, <2>1, NextClusterTypes DEF ClusterFails, ControlType
<1>13. CASE Restart
  <2>1. NoDiagnosis \in DiagnosisType
    BY NoPlanType DEF NoDiagnosis, DiagnosisType, Origin
  <2>2. <<>> \in Seq(Anomaly) /\ <<>> \in Seq(EvidenceType)
    OBVIOUS
  <2>3. ControlType'
    BY <1>13, <2>2 DEF Restart, ControlType
  <2>4. ClustersType'
    BY <1>13, <2>2 DEF Restart, ClustersType
  <2>5. RecordsType'
    BY <1>13, <2>1 DEF Restart, RecordsType
  <2> QED
    BY <2>3, <2>4, <2>5
<1>14. CASE UNCHANGED vars
  BY <1>14, <1>a, <1>b DEF vars, ControlType
<1> QED
  BY <1>1, <1>2, <1>3, <1>4, <1>5, <1>6, <1>7, <1>8, <1>9, <1>10, <1>11, <1>12, <1>13, <1>14
     DEF Next, Work

LEMMA TypesSpec == Spec => []TypeInv
BY InitTypes, NextTypes, PTL DEF Spec

\* TypeOK: in particular there is a cluster at hand whenever one is worked on, and
\* every plan that is stored is a list of operations of the catalogue.
THEOREM TypeCorrect == Spec => []TypeOK
<1>1. TypeInv /\ StepsFollowTurns => TypeOK
  BY LimitAssumption
     DEF TypeInv, ControlType, ClustersType, EvidenceType, RecordsType, ReportType,
         StepsFollowTurns, TypeOK
<1> QED
  BY <1>1, TypesSpec, InitFollows, NextFollows, PTL DEF Spec

\* LoneLeftOut: sorting first and looking at every earlier cluster is enough for
\* the aggregator to lose no pair, for batches of every length.
THEOREM LoneAreApart == Spec => []LoneLeftOut
<1>1. TypeInv => LoneLeftOut
  <2> SUFFICES ASSUME TypeInv PROVE LoneLeftOut
    OBVIOUS
  <2>1. Formed(Grouped(inbox))
    BY GroupedIsFormed DEF TypeInv, ControlType
  <2> QED
    BY <2>1 DEF LoneLeftOut, Formed, Apart
<1> QED
  BY <1>1, TypesSpec, PTL

-----------------------------------------------------------------------------
(* What suspicious text has touched *)

Flags ==
  /\ findings \in BOOLEAN /\ tainted \in BOOLEAN
  /\ tainted => findings

\* A plan that goes back to a tainted investigation carries the mark that takes
\* its policy back, and its diagnosis the findings.
Marked(d) ==
  /\ d.findings \in BOOLEAN /\ d.origin.tainted \in BOOLEAN
  /\ d.origin.tainted /\ d.plan # NoPlan => d.plan.review /\ d.findings

RowOK(row) ==
  /\ Marked(row.diagnosis)
  /\ row.queued \in BOOLEAN
  /\ row.queued => AutoAllowed(row.diagnosis.plan)
  /\ row.flagged = row.diagnosis.findings

\* The table is a sequence of such rows.
TableOK ==
  /\ Len(reports) \in Nat
  /\ reports = [i \in 1 .. Len(reports) |-> reports[i]]
  /\ \A i \in 1 .. Len(reports) : RowOK(reports[i])

TaintInv == Flags /\ Marked(diagnosis) /\ TableOK

Report ==
  [diagnosis |-> diagnosis, queued |-> AutoAllowed(diagnosis.plan),
   flagged |-> diagnosis.findings]

LEMMA NewRowOK == ASSUME Marked(diagnosis) PROVE RowOK(Report)
<1>1. AutoAllowed(diagnosis.plan) \in BOOLEAN
  BY DEF AutoAllowed
<1> QED
  BY <1>1 DEF RowOK, Report, Marked

\* What Append does to a sequence that is known only by its shape.
LEMMA AppendShape ==
  ASSUME NEW s, NEW row, Len(s) \in Nat, s = [i \in 1 .. Len(s) |-> s[i]]
  PROVE  /\ Len(Append(s, row)) = Len(s) + 1
         /\ Append(s, row) = [i \in 1 .. Len(s) + 1 |-> IF i = Len(s) + 1 THEN row ELSE s[i]]
<1> DEFINE S == {s[i] : i \in 1 .. Len(s)} \cup {row}
<1>1. s \in Seq(S)
  <2>1. s \in [1 .. Len(s) -> S]
    OBVIOUS
  <2> QED
    BY <2>1
<1>2. row \in S
  OBVIOUS
<1> HIDE DEF S
<1>3. Append(s, row) \in Seq(S) /\ Len(Append(s, row)) = Len(s) + 1
  BY <1>1, <1>2
<1>4. \A i \in 1 .. Len(s) + 1 : Append(s, row)[i] = IF i = Len(s) + 1 THEN row ELSE s[i]
  BY <1>1, <1>2
<1>5. Append(s, row) \in [1 .. Len(s) + 1 -> S]
  BY <1>3, LenProperties
<1> QED
  BY <1>3, <1>4, <1>5

LEMMA NoPlanMarked ==
  ASSUME Flags, NEW d, d = Diagnosis(NoPlan, FALSE)
  PROVE  Marked(d)
BY DEF Diagnosis, Flags, Marked

LEMMA NoDiagnosisMarked == Marked(NoDiagnosis)
BY DEF NoDiagnosis, NoPlan, Marked

LEMMA InitTaint == Init => TaintInv
<1> SUFFICES ASSUME Init PROVE TaintInv
  OBVIOUS
<1>1. Flags /\ Marked(diagnosis)
  BY NoDiagnosisMarked DEF Init, Flags
<1>2. TableOK
  BY DEF Init, TableOK
<1> QED
  BY <1>1, <1>2 DEF TaintInv

LEMMA ConvertMarks == ASSUME Flags, Convert PROVE Marked(diagnosis')
<1> DEFINE steps == EnsureLabSteps(draft, Current)
           plan == PlanOf(steps, settings.test, settings.force, findings)
<1>1. \/ diagnosis' = Diagnosis(plan, findings) /\ Convertible(steps, Current)
      \/ diagnosis' = Diagnosis(NoPlan, FALSE)
  BY DEF Convert
<1>2. plan.review = findings
  BY DEF PlanOf
<1> HIDE DEF plan, steps
<1>3. CASE diagnosis' = Diagnosis(plan, findings) /\ Convertible(steps, Current)
  <2>1. /\ diagnosis'.findings = findings /\ diagnosis'.plan.review = findings
        /\ diagnosis'.origin.tainted = tainted
    BY <1>2, <1>3 DEF Diagnosis
  <2> QED
    BY <2>1 DEF Flags, Marked
<1>4. CASE diagnosis' = Diagnosis(NoPlan, FALSE)
  BY <1>4, NoPlanMarked
<1> QED
  BY <1>1, <1>3, <1>4

LEMMA StoreKeeps == ASSUME TaintInv, StoreDiagnosis PROVE TableOK'
<1>1. reports' = Append(reports, Report)
  BY DEF StoreDiagnosis, Report
<1>2. RowOK(Report)
  BY NewRowOK DEF TaintInv
<1>3. /\ Len(reports') = Len(reports) + 1
      /\ reports' = [i \in 1 .. Len(reports) + 1 |->
                       IF i = Len(reports) + 1 THEN Report ELSE reports[i]]
  BY <1>1, AppendShape DEF TaintInv, TableOK
<1>4. \A i \in 1 .. Len(reports') : RowOK(reports'[i])
  BY <1>2, <1>3 DEF TaintInv, TableOK
<1>5. Len(reports') \in Nat /\ reports' = [i \in 1 .. Len(reports') |-> reports'[i]]
  BY <1>3 DEF TaintInv, TableOK
<1> QED
  BY <1>4, <1>5 DEF TableOK

LEMMA NextTaint == TaintInv /\ [Next]_vars => TaintInv'
<1> SUFFICES ASSUME TaintInv, [Next]_vars PROVE TaintInv'
  OBVIOUS
<1> USE DEF TaintInv, agentVars
<1>a. ASSUME UNCHANGED <<findings, tainted>> PROVE Flags'
  BY <1>a DEF Flags
<1>b. ASSUME UNCHANGED diagnosis PROVE Marked(diagnosis)'
  BY <1>b DEF Marked
<1>c. ASSUME UNCHANGED reports PROVE TableOK'
  BY <1>c DEF TableOK
<1>d. ASSUME NextCluster PROVE Marked(diagnosis)'
  BY <1>d, NoDiagnosisMarked DEF NextCluster
<1>1. ASSUME NEW b \in Batch, TakeBatch(b) PROVE TaintInv'
  BY <1>1, <1>a, <1>b, <1>c DEF TakeBatch
<1>2. CASE StartBatch
  BY <1>2, <1>a, <1>b, <1>c DEF StartBatch
<1>3. CASE FindSimilar
  <2>1. Marked(diagnosis)'
    <3>1. CASE UNCHANGED diagnosis
      BY <3>1, <1>b
    <3>2. CASE \E i \in 1 .. Len(reports) : diagnosis' = Reused(reports[i].diagnosis)
      <4>1. PICK i \in 1 .. Len(reports) : diagnosis' = Reused(reports[i].diagnosis)
        BY <3>2
      <4>2. Marked(reports[i].diagnosis)
        BY DEF TableOK, RowOK
      <4>3. /\ diagnosis'.findings = reports[i].diagnosis.findings
            /\ diagnosis'.origin = reports[i].diagnosis.origin
            /\ diagnosis'.plan = reports[i].diagnosis.plan
        BY <4>1 DEF Reused
      <4> QED
        BY <4>2, <4>3 DEF Marked
    <3> QED
      BY <1>3, <3>1, <3>2 DEF FindSimilar, TableOK
  <2> QED
    BY <1>3, <2>1, <1>a, <1>c DEF FindSimilar
<1>4. CASE StartInvestigation
  BY <1>4, <1>b, <1>c DEF StartInvestigation, Flags
<1>5. CASE Investigator
  BY <1>5, <1>a, <1>b, <1>c DEF Investigator
<1>6. CASE RunTools
  BY <1>6, <1>b, <1>c DEF RunTools, Guard, Flags
<1>7. CASE Planner
  BY <1>7, <1>a, <1>b, <1>c DEF Planner
<1>8. CASE Convert
  BY <1>8, ConvertMarks, <1>a, <1>c DEF Convert
<1>9. CASE Notify
  BY <1>9, <1>a, <1>b, <1>c DEF Notify
<1>10. CASE StoreDiagnosis
  BY <1>10, StoreKeeps, <1>a, <1>d DEF StoreDiagnosis
<1>11. CASE InvestigatorFails
  <2>1. Marked(diagnosis')
    BY <1>11, NoPlanMarked DEF InvestigatorFails
  <2> QED
    BY <1>11, <2>1, <1>a, <1>c DEF InvestigatorFails
<1>12. CASE ClusterFails
  BY <1>12, <1>a, <1>c, <1>d DEF ClusterFails
<1>13. CASE Restart
  BY <1>13, <1>c, NoDiagnosisMarked DEF Restart, Flags
<1>14. CASE UNCHANGED vars
  BY <1>14, <1>a, <1>b, <1>c DEF vars
<1> QED
  BY <1>1, <1>2, <1>3, <1>4, <1>5, <1>6, <1>7, <1>8, <1>9, <1>10, <1>11, <1>12, <1>13, <1>14
     DEF Next, Work

LEMMA AutoIsReviewed ==
  ASSUME NEW row, RowOK(row), row.queued
  PROVE  row.diagnosis.plan # NoPlan /\ ~row.diagnosis.origin.tainted
BY DEF RowOK, Marked, AutoAllowed, NoPlan

LEMMA TaintSpec == Spec => []TaintInv
BY InitTaint, NextTaint, PTL DEF Spec

\* TaintedNeverAuto: what log_guard has found suspicious text in is never put
\* into the queue by store_diagnosis, however often it is reused.
THEOREM TaintReachesAHuman == Spec => []TaintedNeverAuto
<1>1. TaintInv => TaintedNeverAuto
  <2> SUFFICES ASSUME TaintInv, NEW i \in DOMAIN reports, reports[i].queued
               PROVE  ~reports[i].diagnosis.origin.tainted
    BY DEF TaintedNeverAuto
  <2>1. RowOK(reports[i])
    BY DEF TaintInv, TableOK
  <2> QED
    BY <2>1, AutoIsReviewed
<1> QED
  BY <1>1, TaintSpec, PTL

-----------------------------------------------------------------------------
(* What a plan fits *)

\* A diagnosis has no plan at all, or one with steps that its evidence bears out.
Fits(d) ==
  /\ d.plan = NoPlan \/ d.plan.steps # <<>>
  /\ OnlyObserved(d) /\ NotWhatIsBroken(d)

FitInv == Fits(diagnosis) /\ \A i \in DOMAIN reports : Fits(reports[i].diagnosis)

LEMMA NoPlanFits == ASSUME NEW d, d.plan = NoPlan PROVE Fits(d)
<1>1. d.plan.steps = <<>>
  BY DEF NoPlan
<1>2. DOMAIN d.plan.steps = {}
  BY <1>1
<1> QED
  BY <1>2 DEF Fits, OnlyObserved, NotWhatIsBroken, Services

LEMMA NoDiagnosisFits == Fits(NoDiagnosis)
<1>1. NoDiagnosis.plan = NoPlan
  BY DEF NoDiagnosis
<1> QED
  BY <1>1, NoPlanFits

LEMMA ConvertFits == ASSUME TypeInv, Convert PROVE Fits(diagnosis')
<1> DEFINE steps == EnsureLabSteps(draft, Current)
           plan == PlanOf(steps, settings.test, settings.force, findings)
<1>1. \/ diagnosis' = Diagnosis(plan, findings) /\ Convertible(steps, Current)
      \/ diagnosis' = Diagnosis(NoPlan, FALSE)
  BY DEF Convert
<1>2. plan.steps = steps
  BY DEF PlanOf
<1>3. CASE diagnosis' = Diagnosis(plan, findings) /\ Convertible(steps, Current)
  <2>1. /\ diagnosis'.plan.steps = steps /\ diagnosis'.origin.seen = Current.seen
        /\ diagnosis'.origin.config = Current.config
    <3> HIDE DEF plan, steps
    <3> QED
      BY <1>2, <1>3 DEF Diagnosis
  <2>2. steps # <<>> /\ Services(steps) \subseteq Current.seen
    BY <1>3 DEF Convertible, MatchesEvidence, Known
  <2>3. ASSUME Current.config, NEW j \in DOMAIN steps
        PROVE  steps[j][2] \notin {"start", "restart", "reload"}
    BY <1>3, <2>3, DraftIsList, NothingStartsBroken
  <2> HIDE DEF plan, steps
  <2> QED
    BY <2>1, <2>2, <2>3 DEF Fits, OnlyObserved, NotWhatIsBroken
<1>4. CASE diagnosis' = Diagnosis(NoPlan, FALSE)
  <2>1. diagnosis'.plan = NoPlan
    BY <1>4 DEF Diagnosis
  <2> QED
    BY <2>1, NoPlanFits
<1> QED
  BY <1>1, <1>3, <1>4

LEMMA InitFits == Init => FitInv
<1> SUFFICES ASSUME Init PROVE FitInv
  OBVIOUS
<1>1. diagnosis = NoDiagnosis /\ DOMAIN reports = {}
  BY DEF Init
<1> QED
  BY <1>1, NoDiagnosisFits DEF FitInv

LEMMA NextFits == TypeInv /\ FitInv /\ [Next]_vars => FitInv'
<1> SUFFICES ASSUME TypeInv, FitInv, [Next]_vars PROVE FitInv'
  OBVIOUS
<1> USE DEF FitInv
<1>1. CASE UNCHANGED <<diagnosis, reports>>
  BY <1>1 DEF Fits, OnlyObserved, NotWhatIsBroken
<1>2. CASE UNCHANGED reports /\ diagnosis' = NoDiagnosis
  BY <1>2, NoDiagnosisFits
<1>3. CASE FindSimilar
  <2>1. CASE UNCHANGED diagnosis
    BY <1>1, <1>3, <2>1 DEF FindSimilar
  <2>2. CASE \E i \in DOMAIN reports : diagnosis' = Reused(reports[i].diagnosis)
    <3>1. PICK i \in DOMAIN reports : diagnosis' = Reused(reports[i].diagnosis)
      BY <2>2
    <3> DEFINE d == reports[i].diagnosis
    <3>2. Fits(d)
      OBVIOUS
    <3>3. diagnosis'.plan = d.plan /\ diagnosis'.origin = d.origin
      <4>1. reports[i] \in ReportType
        BY DEF TypeInv, RecordsType
      <4>2. d \in DiagnosisType
        BY <4>1 DEF ReportType
      <4> HIDE DEF d
      <4> QED
        BY <3>1, <4>2 DEF Reused, DiagnosisType, d
    <3> HIDE DEF d
    <3>4. Fits(diagnosis')
      BY <3>2, <3>3 DEF Fits, OnlyObserved, NotWhatIsBroken
    <3> QED
      BY <1>3, <3>4 DEF FindSimilar
  <2> QED
    BY <1>3, <2>1, <2>2 DEF FindSimilar, TypeInv, RecordsType
<1>4. CASE Convert
  BY <1>4, ConvertFits DEF Convert
<1>5. CASE StoreDiagnosis
  <2> DEFINE row == [diagnosis |-> diagnosis, queued |-> AutoAllowed(diagnosis.plan),
                     flagged |-> diagnosis.findings]
  <2>1. reports' = Append(reports, row) /\ diagnosis' = NoDiagnosis
    BY <1>5 DEF StoreDiagnosis, NextCluster
  <2>2. row.diagnosis = diagnosis
    OBVIOUS
  <2> HIDE DEF row
  <2>3. ASSUME NEW i \in DOMAIN reports' PROVE Fits(reports'[i].diagnosis)
    <3>1. reports'[i] = IF i = Len(reports) + 1 THEN row ELSE reports[i]
      BY <2>1, <2>3 DEF TypeInv, RecordsType
    <3>2. i = Len(reports) + 1 \/ i \in DOMAIN reports
      BY <2>1, <2>3 DEF TypeInv, RecordsType
    <3> QED
      BY <2>2, <3>1, <3>2 DEF TypeInv, RecordsType
  <2> QED
    BY <2>1, <2>3, NoDiagnosisFits
<1>6. CASE InvestigatorFails
  <2>1. diagnosis'.plan = NoPlan
    BY <1>6 DEF InvestigatorFails, Diagnosis
  <2> QED
    BY <1>6, <2>1, NoPlanFits DEF InvestigatorFails
<1> QED
  BY <1>1, <1>2, <1>3, <1>4, <1>5, <1>6
     DEF Next, Work, vars, agentVars, NextCluster, TakeBatch, StartBatch, StartInvestigation,
         Investigator, RunTools, Planner, Notify, ClusterFails, Restart

LEMMA FitSpec == Spec => [](TypeInv /\ FitInv)
BY InitFits, NextFits, InitTypes, NextTypes, PTL DEF Spec

\* PlanFitsEvidence: whatever the LLM drafts, and however often a diagnosis is
\* reused, a stored plan touches only services that were observed in the cluster
\* that was investigated, and does not start what its evidence shows to be broken.
THEOREM PlansFitEvidence == Spec => []PlanFitsEvidence
<1>1. FitInv => PlanFitsEvidence
  BY DEF FitInv, Fits, PlanFitsEvidence
<1> QED
  BY <1>1, FitSpec, PTL

-----------------------------------------------------------------------------
(* The manifest of a plan that is about to be stored *)

MoreWords == Words \cup {"more"}

\* An altered command is none of the catalogue.
LEMMA AlteredIsRefused ==
  ASSUME NEW steps \in Seq(Operation), steps # <<>>, NEW o \in ToSet(PlanOps(steps)),
         NEW r \in Altered(RunnerFor(o))
  PROVE  ~ProfileAllows(ProfileOf(steps), r)
<1> SUFFICES ASSUME ProfileAllows(ProfileOf(steps), r) PROVE FALSE
  OBVIOUS
<1> DEFINE g == RunnerFor(o)
<1>1. /\ PlanOps(steps) \in Seq(Operation) /\ o \in Operation
      /\ \A q \in ToSet(PlanOps(steps)) : q[2] = "http_check" => "nginx" \in Services(steps)
  BY PlanOpsInCatalogue DEF ToSet
<1>2. Argv(o) \in Seq(Words) /\ Len(Argv(o)) = 3
  BY <1>1, ArgvIsSeq
<1>3. /\ g.argv = Argv(o) /\ g.root \in BOOLEAN /\ g.effect \in {"read", "mutate"}
      /\ g.timeout \in Nat /\ g.env = FALSE
      /\ g = [argv |-> g.argv, root |-> g.root, effect |-> g.effect, timeout |-> g.timeout,
              cwd |-> g.cwd, env |-> g.env]
  BY DEF RunnerFor, Timeout
<1> HIDE DEF g
<1> DEFINE longer == Append(Argv(o), "more")
<1>4. \/ r = [g EXCEPT !.root = ~@]
      \/ r = [g EXCEPT !.timeout = @ + 1]
      \/ r = [g EXCEPT !.env = TRUE]
      \/ r = [g EXCEPT !.effect = IF @ = "read" THEN "mutate" ELSE "read"]
      \/ r = [g EXCEPT !.argv = longer]
  BY <1>3 DEF Altered, g
<1>5. longer \in Seq(MoreWords) /\ Len(longer) = 4
  <2>1. Argv(o) \in Seq(MoreWords) /\ "more" \in MoreWords
    BY <1>2 DEF MoreWords
  <2>2. longer \in Seq(MoreWords)
    BY <2>1, AppendProperties
  <2>3. Len(longer) = Len(Argv(o)) + 1
    BY <2>1, AppendProperties
  <2>4. Len(longer) = 3 + 1
    BY <1>2, <2>3
  <2> HIDE DEF longer
  <2> QED
    BY <2>2, <2>4
<1> HIDE DEF longer
<1>6. Argv(o) \in Seq(MoreWords) /\ r.argv \in {Argv(o), longer}
  BY <1>2, <1>3, <1>4 DEF MoreWords
<1>7. PICK p \in ToSet(PlanOps(steps)) :
        /\ r.argv = RunnerFor(p).argv
        /\ r.root = RunnerFor(p).root /\ r.effect = RunnerFor(p).effect
        /\ r.timeout <= RunnerFor(p).timeout /\ ~r.env
  <2>1. Words \subseteq MoreWords /\ r.argv \in Seq(MoreWords)
    BY <1>5, <1>6 DEF MoreWords
  <2>2. ProfileAllows(ExecutionProfileFor(PlanOps(steps), Services(steps)), r)
    BY DEF ProfileOf
  <2> QED
    BY <1>1, <2>1, <2>2, ManifestIsExact
<1>8. p \in Operation /\ RunnerFor(p).argv = Argv(p) /\ Len(Argv(p)) = 3
  BY <1>1, <1>7, ArgvIsSeq DEF ToSet, RunnerFor
<1>9. r.argv = Argv(o) /\ longer # Argv(o)
  <2>1. Len(longer) # 3
    BY <1>5
  <2> QED
    BY <1>2, <1>6, <1>7, <1>8, <2>1, Zenon
<1>10. p = o
  BY <1>1, <1>7, <1>8, <1>9, ArgvTellsApart
<1>11. r.root = g.root /\ r.effect = g.effect /\ r.timeout <= g.timeout /\ ~r.env
  BY <1>7, <1>10 DEF g
<1> QED
  BY <1>3, <1>4, <1>9, <1>11

LEMMA OthersAreRefused ==
  ASSUME NEW steps \in Seq(Operation), steps # <<>>, NEW o \in Operation,
         ProfileAllows(ProfileOf(steps), RunnerFor(o))
  PROVE  o \in ToSet(PlanOps(steps))
<1>1. /\ PlanOps(steps) \in Seq(Operation)
      /\ \A q \in ToSet(PlanOps(steps)) : q[2] = "http_check" => "nginx" \in Services(steps)
  BY PlanOpsInCatalogue
<1>2. RunnerFor(o).argv = Argv(o) /\ Argv(o) \in Seq(Words)
  BY ArgvIsSeq DEF RunnerFor
<1>3. PICK p \in ToSet(PlanOps(steps)) : Argv(o) = RunnerFor(p).argv
  BY <1>1, <1>2, ManifestIsExact DEF ProfileOf
<1>4. p \in Operation /\ RunnerFor(p).argv = Argv(p)
  BY <1>1, <1>3 DEF ToSet, RunnerFor
<1> QED
  BY <1>3, <1>4, ArgvTellsApart

\* Where the agent starts a command of the plan: the root and the directories of
\* the services that the plan repairs.
LEMMA PlacesAreExact ==
  ASSUME NEW steps \in Seq(Operation), steps # <<>>, NEW o \in ToSet(PlanOps(steps)), NEW place
  PROVE  ProfileAllows(ProfileOf(steps), [RunnerFor(o) EXCEPT !.cwd = place])
           <=> AtHome(place, Services(steps))
<1> DEFINE r == [RunnerFor(o) EXCEPT !.cwd = place]
<1>1. /\ PlanOps(steps) \in Seq(Operation) /\ o \in Operation
      /\ \A q \in ToSet(PlanOps(steps)) : q[2] = "http_check" => "nginx" \in Services(steps)
  BY PlanOpsInCatalogue DEF ToSet
<1>2. /\ r.argv = RunnerFor(o).argv /\ r.root = RunnerFor(o).root
      /\ r.effect = RunnerFor(o).effect /\ r.timeout = RunnerFor(o).timeout
      /\ r.cwd = place /\ ~r.env
  BY DEF RunnerFor
<1>3. RunnerFor(o).argv \in Seq(Words) /\ RunnerFor(o).timeout <= RunnerFor(o).timeout
  BY <1>1, ArgvIsSeq DEF RunnerFor, Timeout
<1> HIDE DEF r
<1>4. ProfileAllows(ProfileOf(steps), r) <=> AtHome(place, Services(steps))
  BY <1>1, <1>2, <1>3, ManifestIsExact DEF ProfileOf
<1> QED
  BY <1>4 DEF r

\* ProfileExact: the manifest of every plan that the analyzer makes is neither too
\* narrow for its plan nor, on the On-Device Agent, any wider.
THEOREM ManifestsAreExact == Spec => []ProfileExact
<1>1. ASSUME TypeInv, FitInv PROVE ProfileExact
  <2>1. ASSUME Known(EnsureLabSteps(draft, Current))
        PROVE  Covered(EnsureLabSteps(draft, Current))
    <3>1. /\ EnsureLabSteps(draft, Current) \in Seq(Operation)
          /\ EnsureLabSteps(draft, Current) # <<>>
      BY <1>1, <2>1, DraftIsList, KnownSteps
    <3> QED
      BY <3>1, PlanIsCovered
  <2> DEFINE steps == diagnosis.plan.steps
             granted == {RunnerFor(o) : o \in ToSet(PlanOps(steps))}
             other == {RunnerFor(o) : o \in Operation} \ granted
             Refused(r) == \A answer \in RunCommand("enforce", ProfileOf(steps), r) :
                             answer.status = "blocked"
  <2>2. ASSUME diagnosis.plan # NoPlan
        PROVE  /\ \A r \in granted : ~Refused(r)
               /\ \A r \in other \cup UNION {Altered(g) : g \in granted} : Refused(r)
               /\ \A g \in granted, place \in Places :
                    Refused([g EXCEPT !.cwd = place]) <=> ~AtHome(place, Services(steps))
    <3>1. steps \in Seq(Operation) /\ steps # <<>>
      BY <1>1, <2>2 DEF TypeInv, RecordsType, DiagnosisType, FixingPlanType, FitInv, Fits
    <3> HIDE DEF steps
    <3>2. \A r : Refused(r) <=> ~ProfileAllows(ProfileOf(steps), r)
      BY EnforceAnswers
    <3> HIDE DEF Refused
    <3>3. ASSUME NEW o \in ToSet(PlanOps(steps)) PROVE ~Refused(RunnerFor(o))
      <4>1. /\ PlanOps(steps) \in Seq(Operation)
            /\ \A q \in ToSet(PlanOps(steps)) : q[2] = "http_check" => "nginx" \in Services(steps)
        BY <3>1, PlanOpsInCatalogue
      <4>2. ProfileAllows(ProfileOf(steps), RunnerFor(o))
        BY <4>1, ManifestCovers DEF ProfileOf
      <4> QED
        BY <3>2, <4>2
    <3>4. ASSUME NEW r \in other PROVE Refused(r)
      <4>1. PICK o \in Operation : r = RunnerFor(o)
        OBVIOUS
      <4>2. o \notin ToSet(PlanOps(steps))
        BY <4>1
      <4> QED
        BY <3>1, <3>2, <4>1, <4>2, OthersAreRefused
    <3>5. ASSUME NEW g \in granted, NEW r \in Altered(g) PROVE Refused(r)
      <4>1. PICK o \in ToSet(PlanOps(steps)) : g = RunnerFor(o)
        OBVIOUS
      <4> QED
        BY <3>1, <3>2, <3>5, <4>1, AlteredIsRefused
    <3>6. ASSUME NEW g \in granted, NEW place \in Places
          PROVE  Refused([g EXCEPT !.cwd = place]) <=> ~AtHome(place, Services(steps))
      <4>1. PICK o \in ToSet(PlanOps(steps)) : g = RunnerFor(o)
        OBVIOUS
      <4> QED
        BY <3>1, <3>2, <4>1, PlacesAreExact
    <3> QED
      BY <3>3, <3>4, <3>5, <3>6
  <2> QED
    BY <2>1, <2>2 DEF ProfileExact
<1> QED
  BY <1>1, FitSpec, PTL

-----------------------------------------------------------------------------
(* The reports implement the table *)

AbstractRow(row) ==
  [plan    |-> row.diagnosis.plan # NoPlan,
   tainted |-> row.diagnosis.origin.tainted,
   queued  |-> row.queued,
   flagged |-> row.flagged]

TableMap == [i \in DOMAIN reports |-> AbstractRow(reports[i])]

LEMMA RowIsSound ==
  ASSUME NEW row, RowOK(row)
  PROVE  AbstractRow(row) \in Table!Row /\ Table!Sound(AbstractRow(row))
<1>1. AbstractRow(row) \in Table!Row
  BY DEF RowOK, Marked, AbstractRow, Table!Row
<1>2. row.queued => row.diagnosis.plan # NoPlan /\ ~row.diagnosis.origin.tainted
  BY AutoIsReviewed
<1>3. row.diagnosis.plan # NoPlan /\ row.diagnosis.origin.tainted => row.flagged
  BY DEF RowOK, Marked
<1> QED
  BY <1>1, <1>2, <1>3 DEF AbstractRow, Table!Sound

LEMMA StoreAdds ==
  ASSUME TaintInv, StoreDiagnosis
  PROVE  TableMap' = Append(TableMap, AbstractRow(Report))
<1>1. reports' = Append(reports, Report)
  BY DEF StoreDiagnosis, Report
<1>2. reports' = [i \in 1 .. Len(reports) + 1 |->
                   IF i = Len(reports) + 1 THEN Report ELSE reports[i]]
  BY <1>1, AppendShape DEF TaintInv, TableOK
<1>3. /\ DOMAIN TableMap = 1 .. Len(reports) /\ Len(reports) \in Nat
      /\ \A i \in 1 .. Len(reports) : TableMap[i] = AbstractRow(reports[i])
  BY DEF TaintInv, TableOK, TableMap
<1>4. Len(TableMap) = Len(reports) /\ TableMap = [i \in 1 .. Len(TableMap) |-> TableMap[i]]
  BY <1>3 DEF TableMap
<1>5. Append(TableMap, AbstractRow(Report)) =
        [i \in 1 .. Len(reports) + 1 |->
          IF i = Len(reports) + 1 THEN AbstractRow(Report) ELSE TableMap[i]]
  BY <1>3, <1>4, AppendShape
<1>6. TableMap' = [i \in 1 .. Len(reports) + 1 |-> AbstractRow(reports'[i])]
  BY <1>2 DEF TableMap
<1> QED
  BY <1>2, <1>3, <1>5, <1>6

\* TableSpec: Layer 2 only ever adds complete rows to diagnosis_reports, and all
\* of them are sound.
THEOREM AnalysisImplementsTable == Spec => TableSpec
<1>1. Init => Table!Init
  BY DEF Init, Table!Init
<1>2. ASSUME TaintInv, [Next]_vars PROVE [Table!Next]_TableMap
  <2>1. CASE UNCHANGED reports
    BY <2>1 DEF TableMap
  <2>2. CASE StoreDiagnosis
    <3>1. RowOK(Report)
      BY <1>2, NewRowOK DEF TaintInv
    <3>2. AbstractRow(Report) \in Table!Row /\ Table!Sound(AbstractRow(Report))
      BY <3>1, RowIsSound
    <3>3. TableMap' = Append(TableMap, AbstractRow(Report))
      BY <1>2, <2>2, StoreAdds
    <3> QED
      BY <3>2, <3>3 DEF Table!Next, TableMap, AbstractRow
  <2> QED
    BY <1>2, <2>1, <2>2
       DEF Next, Work, vars, TakeBatch, StartBatch, FindSimilar, StartInvestigation,
           Investigator, RunTools, Planner, Convert, Notify, InvestigatorFails, ClusterFails,
           Restart
<1>3. TaintInv /\ [Next]_vars => [Table!Next]_[i \in DOMAIN reports |->
              [plan    |-> reports[i].diagnosis.plan # NoPlan,
               tainted |-> reports[i].diagnosis.origin.tainted,
               queued  |-> reports[i].queued,
               flagged |-> reports[i].flagged]]
  BY <1>2 DEF TableMap, AbstractRow
<1> QED
  BY <1>1, <1>3, TaintSpec, PTL DEF Spec, TableSpec, Table!Spec
==============================================================================

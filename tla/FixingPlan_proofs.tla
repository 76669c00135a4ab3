-------------------------- MODULE FixingPlan_proofs --------------------------
(***************************************************************************)
(* Proofs about the plan that is made of a draft and about its permission  *)
(* manifest, for drafts and plans of every length: the deterministic lab   *)
(* steps leave nothing in that starts what is broken, the manifest covers  *)
(* every command of its plan, and what it lets run is one of them.         *)
(***************************************************************************)
EXTENDS FixingPlan, SequenceTheorems, FiniteSetTheorems, WellFoundedInduction, TLAPS

-----------------------------------------------------------------------------
(* Lists: sorting and filtering *)

StrictOrder(S, order) ==
  /\ \A i \in S : <<i, i>> \notin order
  /\ \A i, j \in S : i = j \/ <<i, j>> \in order \/ <<j, i>> \in order
  /\ \A i, j, k \in S : <<i, j>> \in order /\ <<j, k>> \in order => <<i, k>> \in order

\* Ranks count the elements before one: they increase along the order, so that
\* each of 0 .. n - 1 is the rank of one element.
LEMMA Ranks ==
  ASSUME NEW S, IsFiniteSet(S), NEW order, StrictOrder(S, order)
  PROVE  /\ \A i \in S : Cardinality({j \in S : <<j, i>> \in order}) \in 0 .. Cardinality(S) - 1
         /\ \A i, k \in S : <<i, k>> \in order =>
              Cardinality({j \in S : <<j, i>> \in order}) < Cardinality({j \in S : <<j, k>> \in order})
<1> DEFINE Before(i) == {j \in S : <<j, i>> \in order}
<1>1. Cardinality(S) \in Nat
  BY FS_CardinalityType
<1>2. \A i \in S : IsFiniteSet(Before(i)) /\ Cardinality(Before(i)) \in Nat
  <2> SUFFICES ASSUME NEW i \in S PROVE IsFiniteSet(Before(i)) /\ Cardinality(Before(i)) \in Nat
    OBVIOUS
  <2>1. Before(i) \in SUBSET S
    OBVIOUS
  <2>2. IsFiniteSet(Before(i))
    BY <2>1, FS_Subset
  <2> QED
    BY <2>2, FS_CardinalityType
<1>3. ASSUME NEW i \in S PROVE Cardinality(Before(i)) \in 0 .. Cardinality(S) - 1
  <2>1. Before(i) \in SUBSET S /\ i \notin Before(i)
    BY DEF StrictOrder
  <2> HIDE DEF Before
  <2>2. Before(i) # S
    BY <2>1
  <2>3. Cardinality(Before(i)) <= Cardinality(S) /\ Cardinality(Before(i)) # Cardinality(S)
    BY <2>1, <2>2, FS_Subset
  <2> QED
    BY <1>1, <1>2, <2>3
<1>4. ASSUME NEW i \in S, NEW k \in S, <<i, k>> \in order
      PROVE  Cardinality(Before(i)) < Cardinality(Before(k))
  <2>1. Before(i) \in SUBSET Before(k) /\ i \in Before(k) /\ i \notin Before(i)
    BY <1>4 DEF StrictOrder
  <2> HIDE DEF Before
  <2>2. /\ Cardinality(Before(i)) <= Cardinality(Before(k))
        /\ Cardinality(Before(i)) # Cardinality(Before(k))
    BY <1>2, <2>1, FS_Subset
  <2> QED
    BY <1>2, <2>2
<1> QED
  BY <1>3, <1>4

\* Enumerate lists every element of the set once, in the order.
LEMMA Enumerates ==
  ASSUME NEW S, IsFiniteSet(S), NEW order, StrictOrder(S, order)
  PROVE  /\ Cardinality(S) \in Nat
         /\ Enumerate(S, order) \in [1 .. Cardinality(S) -> S]
         /\ \A k, l \in 1 .. Cardinality(S) :
              k < l => <<Enumerate(S, order)[k], Enumerate(S, order)[l]>> \in order
         /\ \A i \in S : \E k \in 1 .. Cardinality(S) : Enumerate(S, order)[k] = i
<1> DEFINE n == Cardinality(S)
           Before(i) == {j \in S : <<j, i>> \in order}
           rank == [i \in S |-> Cardinality(Before(i)) + 1]
<1>1. n \in Nat
  BY FS_CardinalityType
<1>2. rank \in [S -> 1 .. n]
  <2>1. \A i \in S : Cardinality(Before(i)) \in 0 .. n - 1
    BY Ranks
  <2> HIDE DEF Before, n
  <2> QED
    BY <1>1, <2>1
<1>3. ASSUME NEW i \in S, NEW k \in S, <<i, k>> \in order PROVE rank[i] < rank[k]
  <2>1. Cardinality(Before(i)) < Cardinality(Before(k))
    BY <1>3, Ranks
  <2>2. Cardinality(Before(i)) \in 0 .. n - 1 /\ Cardinality(Before(k)) \in 0 .. n - 1
    BY Ranks
  <2>3. rank[i] = Cardinality(Before(i)) + 1 /\ rank[k] = Cardinality(Before(k)) + 1
    OBVIOUS
  <2> HIDE DEF Before, n, rank
  <2> QED
    BY <1>1, <2>1, <2>2, <2>3
<1>4. \A i, k \in S : rank[i] = rank[k] => i = k
  <2> SUFFICES ASSUME NEW i \in S, NEW k \in S, i # k PROVE rank[i] # rank[k]
    OBVIOUS
  <2>1. rank[i] \in 1 .. n /\ rank[k] \in 1 .. n
    BY <1>2
  <2>2. rank[i] < rank[k] \/ rank[k] < rank[i]
    BY <1>3 DEF StrictOrder
  <2> HIDE DEF rank, n
  <2> QED
    BY <1>1, <2>1, <2>2
<1>5. \A m \in 1 .. n : \E i \in S : rank[i] = m
  <2>1. rank \in Injection(S, 1 .. n)
    BY <1>2, <1>4 DEF Injection, IsInjective
  <2>2. IsFiniteSet(1 .. n) /\ Cardinality(1 .. n) = n
    BY <1>1, FS_Interval
  <2> HIDE DEF rank
  <2>3. rank \in Surjection(S, 1 .. n)
    BY <2>1, <2>2, FS_Injection
  <2> QED
    BY <2>3 DEF Surjection
<1>6. \A k \in 1 .. n : Enumerate(S, order)[k] \in S /\ rank[Enumerate(S, order)[k]] = k
  <2> SUFFICES ASSUME NEW k \in 1 .. n
               PROVE  Enumerate(S, order)[k] \in S /\ rank[Enumerate(S, order)[k]] = k
    OBVIOUS
  <2>1. Enumerate(S, order)[k] = CHOOSE i \in S : Cardinality(Before(i)) = k - 1
    BY DEF Enumerate
  <2>2. PICK i \in S : rank[i] = k
    BY <1>5
  <2>3. Cardinality(Before(i)) \in 0 .. n - 1 /\ rank[i] = Cardinality(Before(i)) + 1
    BY Ranks
  <2>4. Cardinality(Before(i)) = k - 1
    <3> HIDE DEF Before, rank, n
    <3> QED
      BY <1>1, <2>2, <2>3
  <2>5. Enumerate(S, order)[k] \in S /\ Cardinality(Before(Enumerate(S, order)[k])) = k - 1
    <3> HIDE DEF Before, n
    <3> QED
      BY <2>1, <2>4
  <2>6. rank[Enumerate(S, order)[k]] = k - 1 + 1
    BY <2>5
  <2>7. k - 1 + 1 = k
    BY <1>1
  <2> QED
    BY <2>5, <2>6, <2>7
<1> HIDE DEF rank
<1>7. Enumerate(S, order) \in [1 .. n -> S]
  BY <1>6 DEF Enumerate
<1>8. ASSUME NEW k \in 1 .. n, NEW l \in 1 .. n, k < l
      PROVE  <<Enumerate(S, order)[k], Enumerate(S, order)[l]>> \in order
  <2>1. \/ Enumerate(S, order)[k] = Enumerate(S, order)[l]
        \/ <<Enumerate(S, order)[k], Enumerate(S, order)[l]>> \in order
        \/ <<Enumerate(S, order)[l], Enumerate(S, order)[k]>> \in order
    BY <1>6 DEF StrictOrder
  <2>2. <<Enumerate(S, order)[l], Enumerate(S, order)[k]>> \in order => l < k
    BY <1>3, <1>6
  <2>3. ~(l < k) /\ k # l
    BY <1>1, <1>8
  <2> QED
    BY <1>6, <2>1, <2>2, <2>3
<1>9. ASSUME NEW i \in S PROVE \E k \in 1 .. n : Enumerate(S, order)[k] = i
  <2>1. rank[i] \in 1 .. n
    BY <1>2
  <2> QED
    BY <1>4, <1>6, <2>1
<1> QED
  BY <1>1, <1>7, <1>8, <1>9

\* Filter returns a list of those elements of the list that are in the set.
LEMMA FilterSelects ==
  ASSUME NEW A, NEW s \in Seq(A), NEW T
  PROVE  Filter(s, T) \in Seq(A \cap T) /\ ToSet(Filter(s, T)) = ToSet(s) \cap T
<1> DEFINE positions == {i \in DOMAIN s : s[i] \in T}
           order == {p \in positions \X positions : p[1] < p[2]}
           list == Enumerate(positions, order)
           n == Cardinality(positions)
<1>1. IsFiniteSet(positions)
  <2>1. IsFiniteSet(1 .. Len(s)) /\ positions \in SUBSET (1 .. Len(s))
    BY FS_Interval
  <2> QED
    BY <2>1, FS_Subset
<1>2. StrictOrder(positions, order)
  <2>1. \A i, j \in positions : <<i, j>> \in order <=> i < j
    OBVIOUS
  <2>2. positions \subseteq Nat
    OBVIOUS
  <2> HIDE DEF positions, order
  <2> QED
    BY <2>1, <2>2 DEF StrictOrder
<1>3. /\ n \in Nat /\ list \in [1 .. n -> positions]
      /\ \A i \in positions : \E k \in 1 .. n : list[k] = i
  <2> HIDE DEF positions, order
  <2> QED
    BY <1>1, <1>2, Enumerates
<1>4. Filter(s, T) = [k \in 1 .. n |-> s[list[k]]]
  BY DEF Filter
<1> HIDE DEF list, n
<1>5. \A k \in 1 .. n : s[list[k]] \in A \cap T
  BY <1>3
<1>6. Filter(s, T) \in [1 .. n -> A \cap T]
  BY <1>4, <1>5
<1>7. Filter(s, T) \in Seq(A \cap T)
  BY <1>3, <1>6
<1>8. ASSUME NEW i \in DOMAIN s, s[i] \in T
      PROVE  \E k \in DOMAIN Filter(s, T) : Filter(s, T)[k] = s[i]
  BY <1>3, <1>4, <1>8
<1>9. \A k \in DOMAIN Filter(s, T) : Filter(s, T)[k] \in T /\ \E i \in DOMAIN s : Filter(s, T)[k] = s[i]
  BY <1>3, <1>4
<1>10. ToSet(Filter(s, T)) = ToSet(s) \cap T
  BY <1>8, <1>9 DEF ToSet
<1> QED
  BY <1>7, <1>10

\* The least element of a set of numbers, for arguments by a least counterexample.
LEMMA LeastOf ==
  ASSUME NEW S \in SUBSET Nat, S # {}
  PROVE  \E m \in S : \A k \in S : m <= k
<1> DEFINE Less == {ss \in Nat \X Nat : ss[1] < ss[2]}
<1>1. IsWellFoundedOn(Less, Nat)
  BY NatLessThanWellFounded DEF OpToRel
<1>2. PICK m \in S : \A k \in S : <<k, m>> \notin Less
  BY <1>1, WFMin
<1>3. ASSUME NEW k \in S PROVE m <= k
  <2>1. <<k, m>> \in Nat \X Nat /\ <<k, m>>[1] = k /\ <<k, m>>[2] = m
    OBVIOUS
  <2>2. ~(k < m)
    BY <1>2, <2>1
  <2> QED
    BY <2>2
<1> QED
  BY <1>3

-----------------------------------------------------------------------------
(* The catalogue *)

LEMMA OperationShape ==
  ASSUME NEW o \in Operation
  PROVE  /\ o[1] \in Service /\ o = <<o[1], o[2]>>
         /\ o[2] = "http_check" => o[1] = "nginx"
BY DEF Operation, Probes, Mutations, Named, Service

Words == {Argv(o)[i] : o \in Operation, i \in 1 .. 3}

LEMMA ArgvIsSeq ==
  ASSUME NEW o \in Operation
  PROVE  Argv(o) \in Seq(Words) /\ Len(Argv(o)) = 3
<1>1. PICK a, b, c : Argv(o) = <<a, b, c>>
  BY DEF Argv
<1>2. a \in Words /\ b \in Words /\ c \in Words
  <2>1. Argv(o)[1] = a /\ Argv(o)[2] = b /\ Argv(o)[3] = c
    BY <1>1
  <2> QED
    BY <2>1 DEF Words
<1> QED
  BY <1>1, <1>2

\* No two operations of the catalogue have the same command.
LEMMA ArgvTellsApart ==
  ASSUME NEW o \in Operation, NEW p \in Operation, Argv(o) = Argv(p)
  PROVE  o = p
<1>1. /\ o = <<o[1], o[2]>> /\ (o[2] = "http_check" => o[1] = "nginx")
      /\ p = <<p[1], p[2]>> /\ (p[2] = "http_check" => p[1] = "nginx")
  BY OperationShape
<1>2. Argv(o)[1] = Argv(p)[1] /\ Argv(o)[2] = Argv(p)[2] /\ Argv(o)[3] = Argv(p)[3]
  OBVIOUS
<1>3. CASE o[2] = "status"
  <2>1. p[2] = "status" /\ o[1] = p[1]
    BY <1>2, <1>3 DEF Argv
  <2> QED
    BY <1>1, <1>3, <2>1
<1>4. CASE o[2] = "http_check"
  <2>1. p[2] = "http_check"
    BY <1>2, <1>4 DEF Argv
  <2> QED
    BY <1>1, <1>4, <2>1
<1>5. CASE o[2] \notin {"status", "http_check"}
  <2>1. p[2] \notin {"status", "http_check"}
    BY <1>2, <1>5 DEF Argv
  <2>2. o[1] = p[1] /\ o[2] = p[2]
    BY <1>2, <1>5, <2>1 DEF Argv
  <2> QED
    BY <1>1, <2>2
<1> QED
  BY <1>3, <1>4, <1>5

LEMMA ProbesInCatalogue ==
  /\ \A s \in Service : FinalProbe(s) \in Operation
  /\ \A s \in Service : <<s, "ensure_snapshot">> \in Operation /\ <<s, "restore_config">> \in Operation
  /\ \A o \in Operation : VerificationFor(o) \in Operation
<1>1. \A s \in Service : FinalProbe(s) \in Operation
  BY DEF FinalProbe, Operation, Probes, Mutations, Named, Service
<1>2. \A s \in Service : <<s, "ensure_snapshot">> \in Operation /\ <<s, "restore_config">> \in Operation
  BY DEF Operation, Mutations, Named
<1>3. \A o \in Operation : VerificationFor(o) \in Operation
  <2> SUFFICES ASSUME NEW o \in Operation PROVE VerificationFor(o) \in Operation
    OBVIOUS
  <2>1. <<"nginx", "status">> \in Operation /\ <<"nginx", "config_test">> \in Operation
    BY DEF Operation, Probes, Named, Service
  <2> QED
    BY <1>1, <2>1, OperationShape DEF VerificationFor
<1> QED
  BY <1>1, <1>2, <1>3

-----------------------------------------------------------------------------
(* The deterministic lab steps *)

\* What is left of the draft, and the repairs of what was observed.
LEMMA LabStepsShape ==
  ASSUME NEW draft, draft.execute \in Seq(ToSet(draft.execute)), NEW cluster
  PROVE  LET steps == EnsureLabSteps(draft, cluster)
             kept == ToSet(draft.execute) \ Removed(cluster)
             repairs == {Repair(s, cluster) : s \in cluster.seen}
         IN /\ steps \in Seq(kept \cup repairs)
            /\ kept \subseteq ToSet(steps)
            /\ \A s \in cluster.seen \cap ToSet(LabServices) :
                 Repair(s, cluster) \in ToSet(steps) \cup draft.aside
<1> DEFINE kept == ToSet(draft.execute) \ Removed(cluster)
           existing == (ToSet(draft.execute) \cup draft.aside) \ Removed(cluster)
           missing == {s \in cluster.seen : Repair(s, cluster) \notin existing}
           repairs == {Repair(s, cluster) : s \in cluster.seen}
           left == Filter(draft.execute, kept)
           services == Filter(LabServices, missing)
           added == Repairs(services, cluster)
           X == kept \cup repairs
<1>1. left \in Seq(kept) /\ ToSet(left) = kept
  <2>1. kept \subseteq ToSet(draft.execute)
    OBVIOUS
  <2> HIDE DEF kept
  <2>2. /\ left \in Seq(ToSet(draft.execute) \cap kept)
        /\ ToSet(left) = ToSet(draft.execute) \cap kept
    BY FilterSelects
  <2>3. ToSet(draft.execute) \cap kept = kept
    BY <2>1
  <2> QED
    BY <2>2, <2>3
<1>2. LabServices \in Seq(Service) /\ ToSet(LabServices) = Service
  BY DEF LabServices, ToSet, Service
<1>3. services \in Seq(missing) /\ ToSet(services) = Service \cap missing
  <2>1. services \in Seq(Service \cap missing) /\ ToSet(services) = Service \cap missing
    <3> HIDE DEF missing
    <3> QED
      BY <1>2, FilterSelects
  <2>2. services \in Seq(missing)
    <3>1. Service \cap missing \subseteq missing
      OBVIOUS
    <3> HIDE DEF services, missing
    <3> QED
      BY <2>1, <3>1
  <2> QED
    BY <2>1, <2>2
<1> HIDE DEF left, services
<1>4. added \in Seq(repairs) /\ DOMAIN added = DOMAIN services
  <2>1. \A i \in DOMAIN services : services[i] \in cluster.seen
    BY <1>3
  <2>2. added = [i \in 1 .. Len(services) |-> Repair(services[i], cluster)]
    BY <1>3 DEF Repairs
  <2>3. added \in [1 .. Len(services) -> repairs]
    BY <1>3, <2>1, <2>2
  <2>4. Len(services) \in Nat
    BY <1>3
  <2> HIDE DEF added, repairs
  <2> QED
    BY <1>3, <2>3, <2>4
<1>5. EnsureLabSteps(draft, cluster) = left \o added
  BY DEF EnsureLabSteps, left, services
<1> DEFINE steps == EnsureLabSteps(draft, cluster)
<1>6. left \in Seq(X) /\ added \in Seq(X)
  BY <1>1, <1>4
<1> HIDE DEF added, X, kept
<1>7. steps \in Seq(X)
  BY <1>5, <1>6
<1>8. ToSet(left) \subseteq ToSet(steps) /\ ToSet(added) \subseteq ToSet(steps)
  <2>1. /\ Len(steps) = Len(left) + Len(added) /\ Len(left) \in Nat /\ Len(added) \in Nat
        /\ \A i \in 1 .. Len(left) : steps[i] = left[i]
        /\ \A i \in 1 .. Len(added) : steps[Len(left) + i] = added[i]
    BY <1>5, <1>6
  <2> HIDE DEF steps
  <2>2. \A i \in DOMAIN left : left[i] \in ToSet(steps)
    <3> SUFFICES ASSUME NEW i \in 1 .. Len(left) PROVE left[i] \in ToSet(steps)
      BY <1>6
    <3>1. i \in DOMAIN steps
      BY <1>7, <2>1
    <3> QED
      BY <2>1, <3>1 DEF ToSet
  <2>3. \A i \in DOMAIN added : added[i] \in ToSet(steps)
    <3> SUFFICES ASSUME NEW i \in 1 .. Len(added) PROVE added[i] \in ToSet(steps)
      BY <1>6
    <3>1. Len(left) + i \in DOMAIN steps
      BY <1>7, <2>1
    <3> QED
      BY <2>1, <3>1 DEF ToSet
  <2> QED
    BY <2>2, <2>3 DEF ToSet
<1>9. kept \subseteq ToSet(steps)
  BY <1>1, <1>8
<1>10. ASSUME NEW s \in cluster.seen \cap ToSet(LabServices)
       PROVE  Repair(s, cluster) \in ToSet(steps) \cup draft.aside
  <2>1. CASE s \in missing
    <3>1. PICK k \in DOMAIN services : services[k] = s
      BY <1>2, <1>3, <1>10, <2>1 DEF ToSet
    <3>2. added[k] = Repair(s, cluster) /\ k \in DOMAIN added
      BY <1>4, <3>1 DEF added, Repairs
    <3> QED
      BY <1>8, <3>2 DEF ToSet
  <2>2. CASE s \notin missing
    BY <1>9, <1>10, <2>2 DEF kept
  <2> QED
    BY <2>1, <2>2
<1> QED
  BY <1>7, <1>9, <1>10 DEF X, kept

\* _ensure_lab_node_agent_steps leaves no service out: for everything that the
\* evidence mentions the resulting plan has the repair, unless the draft has it
\* somewhere else than in an Execute step.
THEOREM EveryServiceIsRepaired ==
  ASSUME NEW draft, draft.execute \in Seq(ToSet(draft.execute)),
         NEW cluster, NEW s \in cluster.seen \cap Service
  PROVE  Repair(s, cluster) \in ToSet(EnsureLabSteps(draft, cluster)) \cup draft.aside
<1>1. ToSet(LabServices) = Service
  BY DEF LabServices, ToSet, Service
<1> QED
  BY <1>1, LabStepsShape

\* The steps that the conversion accepts are a list of catalogue operations.
LEMMA KnownSteps ==
  ASSUME NEW draft, draft.execute \in Seq(ToSet(draft.execute)), NEW cluster,
         Known(EnsureLabSteps(draft, cluster))
  PROVE  /\ EnsureLabSteps(draft, cluster) \in Seq(Operation)
         /\ EnsureLabSteps(draft, cluster) # <<>>
<1> DEFINE steps == EnsureLabSteps(draft, cluster)
<1>1. PICK X : steps \in Seq(X)
  BY LabStepsShape
<1>2. steps # <<>> /\ ToSet(steps) \subseteq Operation
  BY DEF Known
<1> HIDE DEF steps
<1>3. \A i \in 1 .. Len(steps) : steps[i] \in Operation
  BY <1>1, <1>2 DEF ToSet
<1>4. steps \in Seq(Operation)
  BY <1>1, <1>3
<1> QED
  BY <1>2, <1>4 DEF steps

\* With the signature of a configuration error in the evidence, nothing that can
\* be converted starts, restarts or reloads a service, whatever was drafted.
THEOREM NothingStartsBroken ==
  ASSUME NEW draft, draft.execute \in Seq(ToSet(draft.execute)), NEW cluster,
         cluster.config, Convertible(EnsureLabSteps(draft, cluster), cluster),
         NEW j \in DOMAIN EnsureLabSteps(draft, cluster)
  PROVE  EnsureLabSteps(draft, cluster)[j][2] \notin {"start", "restart", "reload"}
<1> DEFINE steps == EnsureLabSteps(draft, cluster)
           o == steps[j]
<1>1. steps \in Seq(Operation)
  BY KnownSteps DEF Convertible
<1>2. /\ o \in Operation /\ o[1] \in cluster.seen
      /\ o \in (ToSet(draft.execute) \ Removed(cluster)) \cup {Repair(s, cluster) : s \in cluster.seen}
  <2>1. o[1] \in Services(steps) /\ Services(steps) \subseteq cluster.seen
    BY DEF Services, Convertible, MatchesEvidence
  <2>2. steps \in Seq((ToSet(draft.execute) \ Removed(cluster))
                        \cup {Repair(s, cluster) : s \in cluster.seen})
    BY LabStepsShape
  <2>3. j \in 1 .. Len(steps)
    BY <1>1
  <2>4. o[1] \in Services(steps)
    BY DEF Services
  <2> HIDE DEF steps
  <2> QED
    BY <1>1, <2>1, <2>2, <2>3
<1> HIDE DEF o
<1>3. CASE o \in {Repair(s, cluster) : s \in cluster.seen}
  BY <1>3 DEF Repair, o
<1>4. CASE o \notin Removed(cluster)
  <2>1. o = <<o[1], o[2]>> /\ Start(o[1]) \in Removed(cluster) /\ <<o[1], "reload">> \in Removed(cluster)
    BY <1>2, OperationShape DEF Removed
  <2>2. o[2] # "reload"
    BY <1>4, <2>1
  <2>3. o[2] = "start" => o[1] = "nginx"
    BY <1>2 DEF Operation, Probes, Mutations, Named
  <2>4. o[2] = "restart" => o[1] # "nginx"
    BY <1>2 DEF Operation, Probes, Mutations, Named
  <2> QED
    BY <1>4, <2>1, <2>2, <2>3, <2>4 DEF Start, o
<1> QED
  BY <1>2, <1>3, <1>4

-----------------------------------------------------------------------------
(* The commands of a plan *)

LEMMA PrimaryIsObserved ==
  ASSUME NEW services \in SUBSET Service, services # {}
  PROVE  PrimaryService(services) \in services
<1> DEFINE order == <<"postgresql", "redis", "mysql", "nginx">>
           Leads(i) == order[i] \in services /\ \A j \in 1 .. i - 1 : order[j] \notin services
<1>1. /\ order[1] = "postgresql" /\ order[2] = "redis"
      /\ order[3] = "mysql" /\ order[4] = "nginx"
  OBVIOUS
<1>2. \E i \in 1 .. 4 : Leads(i)
  <2>1. CASE "postgresql" \in services
    BY <1>1, <2>1
  <2>2. CASE "postgresql" \notin services /\ "redis" \in services
    BY <1>1, <2>2
  <2>3. CASE "postgresql" \notin services /\ "redis" \notin services /\ "mysql" \in services
    <3>1. \A j \in 1 .. 2 : order[j] \notin services
      BY <1>1, <2>3
    <3> QED
      BY <1>1, <2>3, <3>1
  <2>4. CASE services = {"nginx"}
    <3>1. \A j \in 1 .. 3 : order[j] \notin services
      BY <1>1, <2>4
    <3> QED
      BY <1>1, <2>4, <3>1
  <2> QED
    BY <2>1, <2>2, <2>3, <2>4 DEF Service
<1> HIDE DEF Leads
<1>3. Leads(CHOOSE i \in 1 .. 4 : Leads(i)) /\ (CHOOSE i \in 1 .. 4 : Leads(i)) \in 1 .. 4
  BY <1>2
<1> QED
  BY <1>3 DEF PrimaryService, Leads

LEMMA PlanOpsInCatalogue ==
  ASSUME NEW steps \in Seq(Operation), steps # <<>>
  PROVE  /\ PlanOps(steps) \in Seq(Operation)
         /\ Services(steps) \in SUBSET Service
         /\ \A o \in ToSet(PlanOps(steps)) :
              o[2] = "http_check" => "nginx" \in Services(steps)
<1> DEFINE p == PrimaryService(Services(steps))
           probes == [i \in DOMAIN steps |-> VerificationFor(steps[i])]
           last == <<FinalProbe(p), <<p, "ensure_snapshot">>, <<p, "restore_config">>>>
<1>1. Services(steps) \in SUBSET Service /\ Services(steps) # {}
  BY OperationShape DEF Services
<1>2. p \in Services(steps) /\ p \in Service
  BY <1>1, PrimaryIsObserved
<1>3. probes \in Seq(Operation) /\ Len(probes) = Len(steps)
  <2>1. probes \in [1 .. Len(steps) -> Operation] /\ Len(steps) \in Nat
    BY ProbesInCatalogue
  <2> QED
    BY <2>1
<1>4. last \in Seq(Operation) /\ Len(last) = 3
  <2>1. FinalProbe(p) \in Operation /\ <<p, "ensure_snapshot">> \in Operation /\ <<p, "restore_config">> \in Operation
    BY <1>2, ProbesInCatalogue
  <2> QED
    BY <2>1
<1>5. PlanOps(steps) = steps \o probes \o last
  BY DEF PlanOps
<1> HIDE DEF probes, last
<1>6. PlanOps(steps) \in Seq(Operation)
  BY <1>3, <1>4, <1>5
<1>7. \A o \in ToSet(PlanOps(steps)) :
         \/ \E i \in DOMAIN steps : o = steps[i] \/ o = VerificationFor(steps[i])
         \/ o \in {FinalProbe(p), <<p, "ensure_snapshot">>, <<p, "restore_config">>}
  <2> SUFFICES ASSUME NEW i \in DOMAIN PlanOps(steps)
               PROVE  \/ \E k \in DOMAIN steps :
                           PlanOps(steps)[i] \in {steps[k], VerificationFor(steps[k])}
                      \/ PlanOps(steps)[i] \in
                            {FinalProbe(p), <<p, "ensure_snapshot">>, <<p, "restore_config">>}
    BY DEF ToSet
  <2>1. i \in 1 .. Len(steps) + Len(steps) + 3 /\ Len(steps) \in Nat
    <3>1. Len(steps \o probes) = Len(steps) + Len(steps) /\ steps \o probes \in Seq(Operation)
      BY <1>3
    <3>2. Len(PlanOps(steps)) = Len(steps) + Len(steps) + 3
      <4>1. Len((steps \o probes) \o last) = Len(steps \o probes) + Len(last)
        BY <3>1, <1>4, ConcatProperties
      <4> QED
        BY <4>1, <3>1, <1>4, <1>5
    <3> QED
      BY <3>2, <1>6
  <2>2. CASE i <= Len(steps)
    <3>1. PlanOps(steps)[i] = steps[i]
      BY <1>3, <1>4, <1>5, <2>1, <2>2
    <3> QED
      BY <2>1, <2>2, <3>1
  <2>3. CASE Len(steps) < i /\ i <= Len(steps) + Len(steps)
    <3>1. PlanOps(steps)[i] = probes[i - Len(steps)]
      BY <1>3, <1>4, <1>5, <2>1, <2>3
    <3>2. i - Len(steps) \in DOMAIN steps
      BY <2>1, <2>3
    <3> QED
      BY <3>1, <3>2 DEF probes
  <2>4. CASE Len(steps) + Len(steps) < i
    <3>1. PlanOps(steps)[i] = last[i - (Len(steps) + Len(steps))]
      BY <1>3, <1>4, <1>5, <2>1, <2>4
    <3>2. i - (Len(steps) + Len(steps)) \in 1 .. 3
      BY <2>1, <2>4
    <3> QED
      BY <3>1, <3>2 DEF last
  <2> QED
    BY <2>1, <2>2, <2>3, <2>4
<1>8. \A o \in ToSet(PlanOps(steps)) :
         o[2] = "http_check" => "nginx" \in Services(steps)
  <2>1. \A i \in DOMAIN steps : steps[i][2] = "http_check" => "nginx" \in Services(steps)
    BY OperationShape DEF Services
  <2>2. \A s \in Service : FinalProbe(s)[2] = "http_check" => s = "nginx"
    BY DEF FinalProbe
  <2>3. \A i \in DOMAIN steps : VerificationFor(steps[i])[2] # "http_check"
    BY <2>2, OperationShape DEF VerificationFor
  <2> QED
    BY <1>2, <1>7, <2>1, <2>2, <2>3
<1> QED
  BY <1>1, <1>6, <1>8

-----------------------------------------------------------------------------
(* The manifest *)

\* A permission is pinned to the last word: it matches its own argv only.
LEMMA PinnedMatches ==
  ASSUME NEW W, NEW a \in Seq(W), NEW b \in Seq(W), NEW perm,
         perm.argv = a, perm.extra = FALSE
  PROVE  Matches(perm, b) <=> a = b
<1>1. Matches(perm, b) <=> IsPrefix(a, b) /\ Len(a) = Len(b)
  BY DEF Matches, IsPrefix
<1>2. SubSeq(a, 1, Len(a)) = a /\ SubSeq(b, 1, Len(b)) = b
  OBVIOUS
<1>3. IsPrefix(a, b) <=> Len(a) <= Len(b) /\ SubSeq(a, 1, Len(a)) = SubSeq(b, 1, Len(a))
  BY DEF IsPrefix
<1>4. ASSUME IsPrefix(a, b), Len(a) = Len(b) PROVE a = b
  BY <1>2, <1>3, <1>4
<1>5. ASSUME a = b PROVE IsPrefix(a, b) /\ Len(a) = Len(b)
  BY <1>3, <1>5
<1> QED
  BY <1>1, <1>4, <1>5

\* The paths among the arguments of a command of the catalogue are those that the
\* manifest of its service names.
LEMMA ArgsAreGranted ==
  ASSUME NEW o \in Operation, NEW services, NEW ops,
         o[2] = "http_check" => "nginx" \in services,
         NEW path \in PathArgs(Argv(o))
  PROVE  Grants(ExecutionProfileFor(ops, services).paths, path, {})
<1>1. path = DevNull /\ NullArg \in {Argv(o)[i] : i \in 2 .. 3}
  BY ArgvIsSeq DEF PathArgs
<1>2. o[2] = "http_check"
  <2>1. o[1] # NullArg /\ o[2] # NullArg
    BY DEF Operation, Probes, Mutations, Named, Service, NullArg
  <2> QED
    BY <1>1, <2>1 DEF Argv, NullArg
<1> DEFINE perm == [path |-> DevNull, mode |-> {"w"}]
<1>3. perm \in ExecutionProfileFor(ops, services).paths
  <2>1. perm \in PathPermissions("nginx")
    BY DEF PathPermissions
  <2> QED
    BY <1>2, <2>1 DEF ExecutionProfileFor
<1>4. IsPrefix(DevNull, DevNull)
  <2>1. DevNull \in Seq({"dev", "null"})
    BY DEF DevNull
  <2>2. SubSeq(DevNull, 1, Len(DevNull)) = DevNull /\ Len(DevNull) \in Nat
    BY <2>1
  <2> QED
    BY <2>2 DEF IsPrefix
<1>5. IsPrefix(perm.path, path) /\ {} \subseteq perm.mode
  BY <1>1, <1>4
<1> QED
  BY <1>3, <1>5 DEF Grants

\* A directory may be started in when it is one of a service of the plan.
LEMMA PlacesAreGranted ==
  ASSUME NEW ops, NEW services, NEW place
  PROVE  StartsIn(ExecutionProfileFor(ops, services), place) <=> AtHome(place, services)
<1> DEFINE paths == UNION {PathPermissions(s) : s \in services}
<1>1. ExecutionProfileFor(ops, services).paths = paths
  BY DEF ExecutionProfileFor
<1>2. ASSUME Grants(paths, place, {"r"})
      PROVE  \E s \in services : IsPrefix(Etc(s), place) \/ IsPrefix(Snapshots(s), place)
  <2>1. PICK s \in services : \E perm \in PathPermissions(s) :
          IsPrefix(perm.path, place) /\ "r" \in perm.mode
    BY <1>2 DEF Grants
  <2>2. \A perm \in PathPermissions(s) : "r" \in perm.mode => perm.path \in {Etc(s), Snapshots(s)}
    BY DEF PathPermissions
  <2> QED
    BY <2>1, <2>2
<1>3. ASSUME NEW s \in services, NEW d \in {Etc(s), Snapshots(s)}, IsPrefix(d, place)
      PROVE  Grants(paths, place, {"r"})
  <2> DEFINE perm == [path |-> d, mode |-> {"r", "w"}]
  <2>1. perm \in PathPermissions(s)
    BY DEF PathPermissions
  <2>2. perm \in paths
    BY <2>1
  <2>3. perm.path = d /\ {"r"} \subseteq perm.mode
    OBVIOUS
  <2> QED
    BY <1>3, <2>2, <2>3 DEF Grants
<1>4. Grants(paths, place, {"r"})
        <=> \E s \in services : IsPrefix(Etc(s), place) \/ IsPrefix(Snapshots(s), place)
  BY <1>2, <1>3
<1>5. \A i \in DOMAIN Root : Root[i] # ".."
  BY DEF Root
<1> QED
  BY <1>1, <1>4, <1>5 DEF StartsIn, AtHome

\* profile_allows on a manifest of execution_profile_for: it lets a command run
\* exactly when that is one of the plan's word for word, with the privilege and the
\* effect that the catalogue gives it and no more time, in the root or in a
\* directory of a service of the plan, and without an environment.
THEOREM ManifestIsExact ==
  ASSUME NEW ops \in Seq(Operation), NEW services,
         \A o \in ToSet(ops) : o[2] = "http_check" => "nginx" \in services,
         NEW W, Words \subseteq W, NEW r, r.argv \in Seq(W)
  PROVE  ProfileAllows(ExecutionProfileFor(ops, services), r) <=>
           /\ \E o \in ToSet(ops) :
                /\ r.argv = RunnerFor(o).argv
                /\ r.root = RunnerFor(o).root /\ r.effect = RunnerFor(o).effect
                /\ r.timeout <= RunnerFor(o).timeout
           /\ AtHome(r.cwd, services) /\ ~r.env
<1> DEFINE profile == ExecutionProfileFor(ops, services)
           perms == profile.commands
<1>1. /\ DOMAIN perms = DOMAIN ops
      /\ \A i \in DOMAIN ops : perms[i] = Permission(RunnerFor(ops[i]), Argv(ops[i]), FALSE)
  BY DEF ExecutionProfileFor
<1>2. \A i \in DOMAIN ops : ops[i] \in Operation /\ ops[i] \in ToSet(ops)
  BY DEF ToSet
<1>3. StartsIn(profile, r.cwd) <=> AtHome(r.cwd, services)
  BY PlacesAreGranted
<1> HIDE DEF profile
<1>4. ASSUME NEW i \in DOMAIN ops
      PROVE  /\ Matches(perms[i], r.argv) <=> r.argv = Argv(ops[i])
             /\ perms[i].root = RunnerFor(ops[i]).root
             /\ perms[i].effect = RunnerFor(ops[i]).effect
             /\ perms[i].timeout = RunnerFor(ops[i]).timeout
  <2>1. /\ perms[i].argv = Argv(ops[i]) /\ perms[i].extra = FALSE
        /\ perms[i].root = RunnerFor(ops[i]).root
        /\ perms[i].effect = RunnerFor(ops[i]).effect
        /\ perms[i].timeout = RunnerFor(ops[i]).timeout
    <3>1. perms[i] = Permission(RunnerFor(ops[i]), Argv(ops[i]), FALSE)
      BY <1>1
    <3> HIDE DEF perms
    <3> QED
      BY <3>1 DEF Permission
  <2>2. Argv(ops[i]) \in Seq(W)
    BY <1>2, ArgvIsSeq
  <2>3. Matches(perms[i], r.argv) <=> Argv(ops[i]) = r.argv
    <3> DEFINE perm == perms[i]
    <3>1. perm.argv = Argv(ops[i]) /\ perm.extra = FALSE
      BY <2>1
    <3> HIDE DEF perm
    <3>2. Matches(perm, r.argv) <=> Argv(ops[i]) = r.argv
      BY <2>2, <3>1, PinnedMatches
    <3> QED
      BY <3>2 DEF perm
  <2> QED
    BY <2>1, <2>3
<1>5. ASSUME ProfileAllows(profile, r)
      PROVE  \E o \in ToSet(ops) :
               /\ r.argv = RunnerFor(o).argv
               /\ r.root = RunnerFor(o).root /\ r.effect = RunnerFor(o).effect
               /\ r.timeout <= RunnerFor(o).timeout
  <2>1. PICK i \in DOMAIN perms :
          /\ Matches(perms[i], r.argv)
          /\ r.root = perms[i].root /\ r.effect = perms[i].effect
          /\ r.timeout <= perms[i].timeout
    BY <1>5 DEF ProfileAllows
  <2>2. i \in DOMAIN ops /\ RunnerFor(ops[i]).argv = Argv(ops[i])
    BY <1>1, <2>1 DEF RunnerFor
  <2>3. r.argv = RunnerFor(ops[i]).argv
    BY <1>4, <2>1, <2>2
  <2> QED
    BY <1>2, <1>4, <2>1, <2>2, <2>3
<1>6. ASSUME StartsIn(profile, r.cwd), ~r.env, NEW o \in ToSet(ops),
             r.argv = RunnerFor(o).argv,
             r.root = RunnerFor(o).root, r.effect = RunnerFor(o).effect,
             r.timeout <= RunnerFor(o).timeout
      PROVE  ProfileAllows(profile, r)
  <2> DEFINE Same == {i \in DOMAIN ops : ops[i] = o}
  <2>1. o \in Operation /\ Same # {} /\ Same \in SUBSET Nat
    BY DEF ToSet
  <2>2. PICK i \in Same : \A j \in Same : i <= j
    BY <2>1, LeastOf
  <2>3. r.argv = Argv(o)
    BY <1>6 DEF RunnerFor
  <2>4. \A j \in DOMAIN ops : Matches(perms[j], r.argv) <=> ops[j] = o
    BY <1>2, <1>4, <2>1, <2>3, ArgvTellsApart
  <2>5. \A j \in 1 .. i - 1 : j \in DOMAIN ops /\ ops[j] # o
    BY <2>2
  <2>6. /\ i \in DOMAIN perms /\ Matches(perms[i], r.argv)
        /\ \A j \in 1 .. i - 1 : ~Matches(perms[j], r.argv)
        /\ r.root = perms[i].root /\ r.effect = perms[i].effect
        /\ r.timeout <= perms[i].timeout
    BY <1>1, <1>4, <1>6, <2>2, <2>4, <2>5
  <2>7. \A path \in PathArgs(r.argv) : Grants(profile.paths, path, {})
    BY <2>1, <2>3, ArgsAreGranted DEF profile
  <2> QED
    BY <1>6, <2>6, <2>7 DEF ProfileAllows
<1>7. ProfileAllows(profile, r) => StartsIn(profile, r.cwd) /\ ~r.env
  BY DEF ProfileAllows
<1> QED
  BY <1>3, <1>5, <1>6, <1>7 DEF profile

\* The manifest of a list of catalogue operations covers them all.
LEMMA ManifestCovers ==
  ASSUME NEW ops \in Seq(Operation), NEW services, NEW o \in ToSet(ops),
         \A p \in ToSet(ops) : p[2] = "http_check" => "nginx" \in services
  PROVE  ProfileAllows(ExecutionProfileFor(ops, services), RunnerFor(o))
<1>1. o \in Operation
  BY DEF ToSet
<1>2. /\ RunnerFor(o).argv \in Seq(Words) /\ RunnerFor(o).timeout <= RunnerFor(o).timeout
      /\ RunnerFor(o).cwd = Root /\ ~RunnerFor(o).env
  BY <1>1, ArgvIsSeq DEF RunnerFor, Timeout
<1>3. AtHome(RunnerFor(o).cwd, services)
  BY <1>2 DEF AtHome
<1> QED
  BY <1>2, <1>3, ManifestIsExact

\* _to_fixing_plan never builds a plan that its own validator refuses: a plan of
\* catalogue operations covers its steps, probes, snapshot and rollback.
THEOREM PlanIsCovered ==
  ASSUME NEW steps \in Seq(Operation), steps # <<>>
  PROVE  Covered(steps)
<1>1. PlanOps(steps) \in Seq(Operation)
  BY PlanOpsInCatalogue
<1> SUFFICES ASSUME NEW i \in DOMAIN PlanOps(steps)
             PROVE  ProfileAllows(ProfileOf(steps), RunnerFor(PlanOps(steps)[i]))
  BY DEF Covered
<1>2. PlanOps(steps)[i] \in ToSet(PlanOps(steps))
  BY DEF ToSet
<1>3. \A o \in ToSet(PlanOps(steps)) : o[2] = "http_check" => "nginx" \in Services(steps)
  BY PlanOpsInCatalogue
<1> QED
  BY <1>1, <1>2, <1>3, ManifestCovers DEF ProfileOf

\* In the mode "enforce" the manifest alone decides.
LEMMA EnforceAnswers ==
  ASSUME NEW profile, NEW r
  PROVE  (\A answer \in RunCommand("enforce", profile, r) : answer.status = "blocked")
           <=> ~ProfileAllows(profile, r)
<1>1. CASE ProfileAllows(profile, r)
  <2>1. Decisions("enforce", profile, r) = <<"allow", "allow">>
    BY <1>1 DEF Decisions, BeforeRun
  <2>2. ~Contains(<<"allow", "allow">>, "deny")
    BY DEF Contains
  <2>3. \E answer \in RunCommand("enforce", profile, r) : answer.status = "success"
    <3> DEFINE hooks == Decisions("enforce", profile, r)
               hook == IF Contains(hooks, "warn") THEN "warn" ELSE Last(hooks)
               Answer(s) == [status |-> s, hook |-> hook, retryable |-> s # "success"]
    <3>1. RunCommand("enforce", profile, r) = {Answer(s) : s \in RunnerAnswers}
      BY <2>1, <2>2 DEF RunCommand
    <3>2. Answer("success") \in RunCommand("enforce", profile, r)
      BY <3>1 DEF RunnerAnswers
    <3> QED
      BY <3>2
  <2> QED
    BY <1>1, <2>3
<1>2. CASE ~ProfileAllows(profile, r)
  <2>1. Decisions("enforce", profile, r) = <<"deny", "allow">>
    BY <1>2 DEF Decisions, BeforeRun
  <2>2. Contains(<<"deny", "allow">>, "deny")
    BY DEF Contains
  <2> QED
    BY <1>2, <2>1, <2>2 DEF RunCommand
<1> QED
  BY <1>1, <1>2

\* run_command in the mode "enforce": the On-Device Agent runs no command but
\* those of the plan whose manifest comes with it, and starts them nowhere but in
\* the root and in the directories of the services that the plan repairs.
THEOREM AgentRunsOnlyThePlan ==
  ASSUME NEW steps \in Seq(Operation), steps # <<>>, NEW W, Words \subseteq W,
         NEW r, r.argv \in Seq(W),
         NEW answer \in RunCommand("enforce", ProfileOf(steps), r), answer.status # "blocked"
  PROVE  /\ \E o \in ToSet(PlanOps(steps)) :
              /\ r.argv = RunnerFor(o).argv
              /\ r.root = RunnerFor(o).root /\ r.effect = RunnerFor(o).effect
              /\ r.timeout <= RunnerFor(o).timeout
         /\ AtHome(r.cwd, Services(steps)) /\ ~r.env
<1>1. ProfileAllows(ProfileOf(steps), r)
  BY EnforceAnswers
<1>2. /\ PlanOps(steps) \in Seq(Operation)
      /\ \A o \in ToSet(PlanOps(steps)) : o[2] = "http_check" => "nginx" \in Services(steps)
  BY PlanOpsInCatalogue
<1> QED
  BY <1>1, <1>2, ManifestIsExact DEF ProfileOf
==============================================================================

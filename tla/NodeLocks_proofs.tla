-------------------------- MODULE NodeLocks_proofs --------------------------
(***************************************************************************)
(* Proofs about NodeLocks for every number of nodes and claimants, every   *)
(* catalogue of commands, default lease and database time: nothing is      *)
(* assumed of how long a train takes against its lease.  TypeOK /\         *)
(* HoldsLease is inductive: the row and the lease of a claimant run down   *)
(* together, and a second that passes is one that its train has used up.   *)
(* The refinement of NodeMutex follows from it.                            *)
(***************************************************************************)
EXTENDS NodeLocks, TLAPS

\* A command has a timeout and at least one attempt.
LEMMA CommandType ==
  ASSUME NEW x \in Command
  PROVE  x.timeout \in Nat /\ x.attempts \in Nat /\ x.attempts > 0
  BY TimingAssumption

\* Arithmetic of the budget: k attempts of t seconds, one of them split off.
LEMMA Product ==
  ASSUME NEW k \in Nat, NEW t \in Nat
  PROVE  /\ k * t \in Nat
         /\ k > 0 => (k - 1) * t + t = k * t
<1>1. k * t \in Nat
  OBVIOUS
<1>2. ASSUME k > 0 PROVE (k - 1) * t + t = k * t
  OBVIOUS
<1> QED
  BY <1>1, <1>2

\* The lease and the overrun of a command are numbers of seconds.  The lease
\* covers two calls, so that two attempts overrun it by the database time alone.
LEMMA LeaseType ==
  ASSUME NEW x \in Command
  PROVE  /\ TTL(x) \in Nat /\ Overrun(x) \in Nat
         /\ TTL(x) + Overrun(x) >= x.attempts * x.timeout + Slack
         /\ x.attempts <= 2 => Overrun(x) <= Slack
<1>1. x.timeout \in Nat /\ x.attempts \in Nat /\ Slack \in Nat /\ DefaultTTL \in Nat
  BY CommandType, TimingAssumption
<1>2. TTL(x) \in Nat /\ TTL(x) >= 2 * x.timeout
  BY <1>1 DEF TTL
<1>3. x.attempts * x.timeout \in Nat
  BY <1>1, Product
<1>4. x.attempts <= 2 => x.attempts * x.timeout <= 2 * x.timeout
  <2> SUFFICES ASSUME x.attempts <= 2 PROVE x.attempts * x.timeout <= 2 * x.timeout
    OBVIOUS
  <2>1. x.attempts = 0 \/ x.attempts = 1 \/ x.attempts = 2
    BY <1>1
  <2> QED
    BY <1>1, <2>1
<1> QED
  BY <1>1, <1>2, <1>3, <1>4 DEF Overrun

\* What a train may still need is never negative.
LEMMA NeedsType ==
  ASSUME TypeOK, NEW c \in Claimant
  PROVE  Needs(c) \in Nat
<1>1. calls[c] * cmd[c].timeout \in Nat
  BY Product, CommandType DEF TypeOK
<1>2. clock[c] \in Nat /\ slack[c] \in Nat
  BY TimingAssumption DEF TypeOK
<1> QED
  BY <1>1, <1>2 DEF Needs

\* A train that is about to call has an attempt left, and only a call runs down
\* a clock: what the types of `calls` and `clock` need beside TypeOK.
Budget ==
  \A c \in Claimant : /\ phase[c] = "db" => calls[c] > 0
                      /\ phase[c] # "calling" => clock[c] = 0

LEMMA TypeAndBudget == Spec => [](TypeOK /\ Budget)
<1> USE TimingAssumption
<1>1. Init => TypeOK /\ Budget
  BY DEF Init, TypeOK, Phase, Budget
<1>2. TypeOK /\ Budget /\ [Next]_vars => TypeOK' /\ Budget'
  <2> SUFFICES ASSUME TypeOK, Budget, [Next]_vars PROVE TypeOK' /\ Budget'
    OBVIOUS
  <2> USE DEF TypeOK, Phase, Budget
  <2>1. ASSUME NEW c \in Claimant, NEW n \in Node, NEW x \in Command, Acquire(c, n, x)
        PROVE  TypeOK' /\ Budget'
    <3>1. TTL(x) \in Nat /\ x.attempts \in Nat /\ x.attempts > 0
      BY LeaseType, CommandType
    <3>2. left' \in [Node -> Nat \cup {-1}] /\ lease' \in [Claimant -> Int]
      BY <2>1, <3>1 DEF Acquire
    <3>3. calls' \in [Claimant -> Nat] /\ slack' \in [Claimant -> 0 .. Slack]
      BY <2>1, <3>1 DEF Acquire
    <3>4. /\ owner' \in [Node -> Claimant \cup {NoOne, Lost}]
          /\ phase' \in [Claimant -> Phase] /\ on' \in [Claimant -> Node]
          /\ cmd' \in [Claimant -> Command] /\ clock' \in [Claimant -> Nat]
      BY <2>1 DEF Acquire
    <3>5. Budget'
      BY <2>1, <3>1 DEF Acquire, Working
    <3> QED
      BY <3>2, <3>3, <3>4, <3>5
  <2>2. ASSUME NEW c \in Claimant, Call(c) PROVE TypeOK' /\ Budget'
    BY <2>2, CommandType DEF Call
  <2>3. ASSUME NEW c \in Claimant, Return(c) PROVE TypeOK' /\ Budget'
    BY <2>3 DEF Return
  <2>4. ASSUME NEW c \in Claimant, Release(c) PROVE TypeOK' /\ Budget'
    BY <2>4 DEF Release, End
  <2>5. ASSUME NEW c \in Claimant, Crash(c) PROVE TypeOK' /\ Budget'
    BY <2>5 DEF Crash, End
  <2>6. CASE Sweep
    BY <2>6 DEF Sweep, train
  <2>7. CASE Tick
    <3>1. left' \in [Node -> Nat \cup {-1}]
      <4>1. \A n \in Node : (IF left[n] < 0 THEN -1 ELSE left[n] - 1) \in Nat \cup {-1}
        OBVIOUS
      <4> QED
        BY <2>7, <4>1 DEF Tick
    <3>2. clock' \in [Claimant -> Nat]
      BY <2>7 DEF Tick
    <3>3. slack' \in [Claimant -> 0 .. Slack]
      BY <2>7 DEF Tick
    <3>4. lease' \in [Claimant -> Int]
      BY <2>7 DEF Tick
    <3> QED
      BY <2>7, <3>1, <3>2, <3>3, <3>4 DEF Tick
  <2>8. CASE UNCHANGED vars
    BY <2>8 DEF vars, train
  <2> QED
    BY <2>1, <2>2, <2>3, <2>4, <2>5, <2>6, <2>7, <2>8 DEF Next
<1> QED
  BY <1>1, <1>2, PTL DEF Spec

\* Every row, phase, budget and deadline keeps its range: an expired deadline
\* does not run on and no attempt is started that the budget does not have.
THEOREM TypeCorrect == Spec => []TypeOK
  BY TypeAndBudget, PTL

\* A claimant within its lease finds its node neither free nor expired for
\* anybody else: the guard of the upsert fails on it.
LEMMA HeldIsNotTakeable ==
  ASSUME TypeOK, HoldsLease, NEW c \in Claimant, Working(c), lease[c] >= 0
  PROVE  ~Takeable(on[c])
<1>1. owner[on[c]] = c /\ left[on[c]] = lease[c] /\ lease[c] \in Int
  BY DEF HoldsLease, TypeOK
<1> QED
  BY <1>1, NameAssumption DEF Takeable

\* The conjuncts of HoldsLease for the train of d; the third follows from the
\* second and the length of the lease.
OwnsRow(d) == lease[d] >= 0 => owner[on[d]] = d /\ left[on[d]] = lease[d]
Covered(d) == lease[d] + Overrun(cmd[d]) >= Needs(d)

LeaseParts == \A d \in Claimant : Working(d) => OwnsRow(d) /\ Covered(d)

LEMMA HoldsLeaseParts == TypeOK => (HoldsLease <=> LeaseParts)
<1> SUFFICES ASSUME TypeOK PROVE HoldsLease <=> LeaseParts
  OBVIOUS
<1>1. ASSUME NEW d \in Claimant, Covered(d), cmd[d].attempts <= 2
      PROVE  lease[d] + Slack >= Needs(d)
  <2>1. cmd[d] \in Command /\ lease[d] \in Int /\ Slack \in Nat /\ Needs(d) \in Nat
    BY NeedsType, TimingAssumption DEF TypeOK
  <2>2. Overrun(cmd[d]) \in Nat /\ Overrun(cmd[d]) <= Slack
    BY <1>1, <2>1, LeaseType
  <2> QED
    BY <1>1, <2>1, <2>2 DEF Covered
<1> QED
  BY <1>1 DEF HoldsLease, LeaseParts, OwnsRow, Covered

LEMMA HoldsLeasePartsNext == TypeOK' => (HoldsLease' <=> LeaseParts')
  BY HoldsLeaseParts, PTL

\* A claimant within its lease owns the row of its node, and no train goes on
\* after its lease by more than the overrun of its command.
THEOREM LeaseHeld == Spec => []HoldsLease
<1>1. Init => HoldsLease
  BY DEF Init, HoldsLease, Working
<1>2. TypeOK /\ TypeOK' /\ Budget /\ HoldsLease /\ [Next]_vars => HoldsLease'
  <2> SUFFICES ASSUME TypeOK, TypeOK', Budget, HoldsLease, [Next]_vars,
                      NEW d \in Claimant, Working(d)'
               PROVE  OwnsRow(d)' /\ Covered(d)'
    BY HoldsLeasePartsNext DEF LeaseParts
  <2>h. Working(d) => OwnsRow(d) /\ Covered(d)
    BY HoldsLeaseParts DEF LeaseParts
  <2>0. /\ on[d] \in Node /\ on'[d] \in Node
        /\ cmd[d] \in Command /\ cmd'[d] \in Command
        /\ cmd[d].timeout \in Nat /\ Overrun(cmd[d]) \in Nat
        /\ calls[d] \in Nat /\ calls'[d] \in Nat
        /\ clock[d] \in Nat /\ clock'[d] \in Nat
        /\ slack[d] \in Nat /\ slack'[d] \in Nat
        /\ lease[d] \in Int /\ lease'[d] \in Int
    BY CommandType, LeaseType, TimingAssumption DEF TypeOK
  <2>p. calls[d] * cmd[d].timeout \in Nat
    BY <2>0, Product
  <2>n. Needs(d) \in Nat /\ Needs(d)' \in Nat
    <3>1. calls'[d] * cmd'[d].timeout \in Nat
      BY <2>0, Product, CommandType
    <3> QED
      BY <2>0, <2>p, <3>1 DEF Needs
  <2>1. ASSUME NEW c \in Claimant, NEW n \in Node, NEW x \in Command, Acquire(c, n, x)
        PROVE  OwnsRow(d)' /\ Covered(d)'
    <3>1. CASE d = c
      <4>1. /\ owner'[on'[d]] = d /\ left'[on'[d]] = TTL(x) /\ lease'[d] = TTL(x)
            /\ cmd'[d] = x /\ calls'[d] = x.attempts /\ slack'[d] = Slack
            /\ clock'[d] = clock[d]
        BY <2>1, <3>1 DEF Acquire, TypeOK
      <4>2. clock[d] = 0
        BY <2>1, <3>1 DEF Acquire, Working, Budget
      <4>3. Needs(d)' = x.attempts * x.timeout + Slack
        BY <4>1, <4>2, CommandType, Product, TimingAssumption DEF Needs
      <4> QED
        BY <4>1, <4>3, LeaseType DEF OwnsRow, Covered
    <3>2. CASE d # c
      <4>1. /\ Working(d) /\ on'[d] = on[d] /\ cmd'[d] = cmd[d] /\ lease'[d] = lease[d]
            /\ Needs(d)' = Needs(d)
        BY <2>1, <3>2 DEF Acquire, Working, Needs, TypeOK
      <4>2. lease[d] >= 0 => on[d] # n
        BY <2>1, <4>1, HeldIsNotTakeable DEF Acquire
      <4>3. on[d] # n => owner'[on[d]] = owner[on[d]] /\ left'[on[d]] = left[on[d]]
        BY <2>0, <2>1 DEF Acquire, TypeOK
      <4> QED
        BY <2>h, <4>1, <4>2, <4>3 DEF OwnsRow, Covered
    <3> QED
      BY <3>1, <3>2
  <2>2. ASSUME NEW c \in Claimant, Call(c)
        PROVE  OwnsRow(d)' /\ Covered(d)'
    <3>1. /\ Working(d) /\ on' = on /\ owner' = owner /\ left' = left
          /\ lease' = lease /\ cmd' = cmd
      BY <2>2 DEF Call, Working, TypeOK
    <3>2. Needs(d)' = Needs(d)
      <4>1. CASE d = c
        <5>1. /\ calls[d] > 0 /\ clock[d] = 0 /\ slack'[d] = slack[d] /\ cmd'[d] = cmd[d]
              /\ calls'[d] = calls[d] - 1 /\ clock'[d] = cmd[d].timeout
          BY <2>2, <4>1 DEF Call, TypeOK, Budget
        <5>2. /\ (calls[d] - 1) * cmd[d].timeout + cmd[d].timeout = calls[d] * cmd[d].timeout
              /\ (calls[d] - 1) * cmd[d].timeout \in Nat
          BY <2>0, <5>1, Product
        <5> QED
          BY <2>0, <2>p, <5>1, <5>2 DEF Needs
      <4>2. CASE d # c
        BY <2>2, <4>2 DEF Call, Needs, TypeOK
      <4> QED
        BY <4>1, <4>2
    <3> QED
      BY <2>h, <3>1, <3>2 DEF OwnsRow, Covered
  <2>3. ASSUME NEW c \in Claimant, Return(c)
        PROVE  OwnsRow(d)' /\ Covered(d)'
    <3>1. /\ Working(d) /\ on' = on /\ owner' = owner /\ left' = left
          /\ lease' = lease /\ cmd' = cmd
      BY <2>3 DEF Return, Working, TypeOK
    <3>2. Needs(d)' <= Needs(d)
      <4>1. CASE d = c
        <5>1. slack' = slack /\ clock'[d] = 0 /\ (calls'[d] = calls[d] \/ calls'[d] = 0)
          BY <2>3, <4>1 DEF Return, TypeOK
        <5>2. calls'[d] * cmd[d].timeout <= calls[d] * cmd[d].timeout
          BY <2>0, <2>p, <5>1
        <5>3. calls'[d] * cmd[d].timeout \in Nat
          BY <2>0, Product
        <5> QED
          BY <2>0, <2>p, <3>1, <5>1, <5>2, <5>3 DEF Needs
      <4>2. CASE d # c
        <5>1. Needs(d)' = Needs(d)
          BY <2>3, <4>2 DEF Return, Needs, TypeOK
        <5> QED
          BY <2>n, <5>1
      <4> QED
        BY <4>1, <4>2
    <3> QED
      BY <2>h, <2>0, <2>n, <3>1, <3>2 DEF OwnsRow, Covered
  <2>4. ASSUME NEW c \in Claimant, End(c), d # c,
               \A n \in Node : owner[n] = d => owner'[n] = d
        PROVE  OwnsRow(d)' /\ Covered(d)'
    <3>1. /\ Working(d) /\ on'[d] = on[d] /\ left' = left /\ cmd'[d] = cmd[d]
          /\ lease'[d] = lease[d] /\ Needs(d)' = Needs(d)
      BY <2>4 DEF End, Working, Needs, TypeOK
    <3> QED
      BY <2>h, <2>0, <2>4, <3>1 DEF OwnsRow, Covered
  <2>5. ASSUME NEW c \in Claimant, Release(c)
        PROVE  OwnsRow(d)' /\ Covered(d)'
    <3>1. d # c
      BY <2>5 DEF Release, End, Working, TypeOK
    <3>2. \A n \in Node : owner[n] = d => owner'[n] = d
      BY <2>5, <3>1 DEF Release, TypeOK
    <3> QED
      BY <2>4, <2>5, <3>1, <3>2 DEF Release
  <2>6. ASSUME NEW c \in Claimant, Crash(c)
        PROVE  OwnsRow(d)' /\ Covered(d)'
    <3>1. d # c
      BY <2>6 DEF Crash, End, Working, TypeOK
    <3>2. \A n \in Node : owner[n] = d => owner'[n] = d
      BY <2>6, <3>1 DEF Crash, TypeOK
    <3> QED
      BY <2>4, <2>6, <3>1, <3>2 DEF Crash
  <2>7. CASE Sweep
    <3>1. /\ Working(d) /\ Needs(d)' = Needs(d) /\ on' = on /\ left' = left
          /\ lease' = lease /\ cmd' = cmd
      BY <2>7 DEF Sweep, train, Working, Needs
    <3>2. lease[d] >= 0 => ~Takeable(on[d])
      BY <3>1, HeldIsNotTakeable
    <3>3. ~Takeable(on[d]) => owner'[on[d]] = owner[on[d]]
      BY <2>0, <2>7 DEF Sweep, Takeable
    <3> QED
      BY <2>h, <3>1, <3>2, <3>3 DEF OwnsRow, Covered
  <2>8. CASE Tick
    <3>1. /\ Working(d) /\ on' = on /\ owner' = owner /\ phase' = phase /\ calls' = calls
          /\ cmd' = cmd /\ lease'[d] = lease[d] - 1
      BY <2>8 DEF Tick, Working
    <3>2. Needs(d)' = Needs(d) - 1
      <4>1. phase[d] \in {"db", "calling", "release"}
        BY <3>1 DEF Working, TypeOK, Phase
      <4>2. /\ phase[d] = "calling" => clock'[d] = clock[d] - 1 /\ slack'[d] = slack[d]
            /\ phase[d] \in {"db", "release"} => clock'[d] = clock[d] /\ slack'[d] = slack[d] - 1
        BY <2>8 DEF Tick
      <4> QED
        BY <2>0, <2>p, <3>1, <4>1, <4>2 DEF Needs
    <3>3. lease'[d] >= 0 => left'[on[d]] = left[on[d]] - 1
      BY <2>h, <2>0, <2>8, <3>1 DEF Tick, OwnsRow
    <3> QED
      BY <2>h, <2>0, <2>n, <3>1, <3>2, <3>3 DEF OwnsRow, Covered
  <2>9. CASE UNCHANGED vars
    BY <2>h, <2>9 DEF vars, train, OwnsRow, Covered, Working, Needs
  <2> QED
    BY <2>1, <2>2, <2>3, <2>5, <2>6, <2>7, <2>8, <2>9 DEF Next
<1> QED
  BY <1>1, <1>2, TypeCorrect, TypeAndBudget, PTL DEF Spec

\* When every command fits its lease, no node ever has two trains.
THEOREM FittingCatalogue ==
  (\A x \in Command : Fits(x)) => (Spec => []OneTrainPerNode)
<1> SUFFICES ASSUME \A x \in Command : Fits(x) PROVE Spec => []OneTrainPerNode
  OBVIOUS
<1>1. TypeOK /\ HoldsLease => OneTrainPerNode
  <2> SUFFICES ASSUME TypeOK, HoldsLease, NEW c \in Claimant, NEW d \in Claimant,
                      Working(c), Working(d), on[c] = on[d]
               PROVE  c = d
    BY DEF OneTrainPerNode
  <2>1. ASSUME NEW e \in Claimant, Working(e) PROVE owner[on[e]] = e
    <3>1. Overrun(cmd[e]) = 0 /\ lease[e] \in Int /\ Needs(e) \in Nat
      BY NeedsType DEF TypeOK, Fits
    <3>2. OwnsRow(e) /\ Covered(e)
      BY <2>1, HoldsLeaseParts DEF LeaseParts
    <3> QED
      BY <3>1, <3>2 DEF OwnsRow, Covered
  <2> QED
    BY <2>1
<1> QED
  BY <1>1, TypeCorrect, LeaseHeld, PTL

-----------------------------------------------------------------------------
(* NodeLocks implements NodeMutex *)

\* holder names the one claimant that holds a node.
HolderHolds ==
  \A n \in Node :
    /\ holder[n] \in Claimant \cup {NoOne}
    /\ \A c \in Claimant : holder[n] = c <=> Holds(c, n)

\* Two claimants never hold one node, since both would own its row.
LEMMA HolderCorrect == HoldsLease => HolderHolds
<1> SUFFICES ASSUME HoldsLease, NEW n \in Node
             PROVE  /\ holder[n] \in Claimant \cup {NoOne}
                    /\ \A c \in Claimant : holder[n] = c <=> Holds(c, n)
  BY DEF HolderHolds
<1>1. CASE \E c \in Claimant : Holds(c, n)
  <2>1. PICK d \in Claimant : Holds(d, n)
    BY <1>1
  <2>2. \A c \in Claimant : Holds(c, n) => c = d
    BY <2>1 DEF HoldsLease, Holds
  <2>3. holder[n] = (CHOOSE c \in Claimant : Holds(c, n))
    BY <1>1 DEF holder
  <2>4. holder[n] = d
    BY <2>1, <2>2, <2>3
  <2> QED
    BY <2>1, <2>2, <2>4
<1>2. CASE ~\E c \in Claimant : Holds(c, n)
  <2>1. holder[n] = NoOne
    BY <1>2 DEF holder
  <2> QED
    BY <1>2, <2>1, NameAssumption
<1> QED
  BY <1>1, <1>2

\* The same of the state after a step.
LEMMA HolderCorrectNext == HoldsLease' => HolderHolds'
  BY HolderCorrect, PTL

\* A step by which no claimant comes to hold a node drops some nodes, or none.
LEMMA OnlyDrops ==
  ASSUME HoldsLease, HoldsLease',
         \A n \in Node, c \in Claimant : Holds(c, n)' => Holds(c, n)
  PROVE  Mutex!Next \/ holder' = holder
<1> DEFINE S == {n \in Node : holder[n] # holder'[n]}
<1>1. /\ \A n \in Node : holder[n] \in Claimant \cup {NoOne}
      /\ \A n \in Node, c \in Claimant : holder[n] = c <=> Holds(c, n)
  BY HolderCorrect DEF HolderHolds
<1>2. /\ \A n \in Node : holder'[n] \in Claimant \cup {NoOne}
      /\ \A n \in Node, c \in Claimant : holder'[n] = c <=> Holds(c, n)'
  BY HolderCorrectNext DEF HolderHolds
<1>3. \A n \in S : holder[n] # NoOne /\ holder'[n] = NoOne
  <2> SUFFICES ASSUME NEW n \in S PROVE holder[n] # NoOne /\ holder'[n] = NoOne
    OBVIOUS
  <2>1. n \in Node /\ holder[n] # holder'[n]
    OBVIOUS
  <2>2. holder'[n] \in Claimant => holder[n] = holder'[n]
    BY <1>1, <1>2, <2>1
  <2> QED
    BY <1>2, <2>1, <2>2
<1>4. holder' = [n \in Node |-> IF n \in S THEN NoOne ELSE holder[n]]
  <2>1. \A n \in Node : holder'[n] = IF n \in S THEN NoOne ELSE holder[n]
    BY <1>3
  <2> HIDE DEF S
  <2> QED
    BY <2>1 DEF holder
<1>5. CASE S = {}
  <2>1. \A n \in Node : holder'[n] = holder[n]
    BY <1>5
  <2> QED
    BY <2>1 DEF holder
<1>6. CASE S # {}
  <2>1. S \in SUBSET Node
    OBVIOUS
  <2> HIDE DEF S
  <2>2. Mutex!Drop(S)
    BY <1>3, <1>4, <1>6 DEF Mutex!Drop
  <2> QED
    BY <2>1, <2>2 DEF Mutex!Next
<1> QED
  BY <1>5, <1>6

\* The table implements mutual exclusion between trains within their lease:
\* however processes crash and trains overrun, a node is granted only while
\* nobody holds it.
THEOREM Exclusion == Spec => MutexSpec
<1>1. Init => Mutex!Init
  BY DEF Init, Mutex!Init, holder, Holds, Working
<1>2. TypeOK /\ HoldsLease /\ HoldsLease' /\ [Next]_vars => [Mutex!Next]_holder
  <2> SUFFICES ASSUME TypeOK, HoldsLease, HoldsLease', [Next]_vars
               PROVE  Mutex!Next \/ holder' = holder
    OBVIOUS
  <2>1. ASSUME NEW c \in Claimant, NEW n \in Node, NEW x \in Command, Acquire(c, n, x)
        PROVE  Mutex!Grant(c, n)
    <3>1. \A m \in Node : /\ holder[m] \in Claimant \cup {NoOne}
                          /\ \A d \in Claimant : holder[m] = d <=> Holds(d, m)
      BY HolderCorrect DEF HolderHolds
    <3>2. \A m \in Node : /\ holder'[m] \in Claimant \cup {NoOne}
                          /\ \A d \in Claimant : holder'[m] = d <=> Holds(d, m)'
      BY HolderCorrectNext DEF HolderHolds
    <3>3. holder[n] = NoOne
      <4>1. \A d \in Claimant : ~Holds(d, n)
        BY <2>1, HeldIsNotTakeable DEF Acquire, Holds
      <4> QED
        BY <3>1, <4>1
    <3>4. \A m \in Node : holder[m] # c
      BY <2>1, <3>1 DEF Acquire, Holds
    <3>5. \A d \in Claimant, m \in Node : Holds(d, m)' <=> IF d = c THEN m = n ELSE Holds(d, m)
      <4> SUFFICES ASSUME NEW d \in Claimant, NEW m \in Node
                   PROVE  Holds(d, m)' <=> IF d = c THEN m = n ELSE Holds(d, m)
        OBVIOUS
      <4>1. CASE d = c
        <5>1. phase'[d] = "db" /\ on'[d] = n /\ lease'[d] = TTL(x) /\ TTL(x) >= 0
          BY <2>1, <4>1, LeaseType DEF Acquire, TypeOK
        <5> QED
          BY <4>1, <5>1 DEF Holds, Working
      <4>2. CASE d # c
        BY <2>1, <4>2 DEF Acquire, Holds, Working, TypeOK
      <4> QED
        BY <4>1, <4>2
    <3>6. \A m \in Node : holder'[m] = IF m = n THEN c ELSE holder[m]
      <4> TAKE m \in Node
      <4>1. CASE m = n
        BY <3>2, <3>5, <4>1
      <4>2. CASE m # n
        BY <3>1, <3>2, <3>4, <3>5, <4>2, NameAssumption
      <4> QED
        BY <4>1, <4>2
    <3>7. holder' = [holder EXCEPT ![n] = c]
      BY <3>6 DEF holder
    <3> QED
      BY <3>3, <3>4, <3>7 DEF Mutex!Grant
  <2>2. ASSUME \A n \in Node, c \in Claimant : Holds(c, n)' => Holds(c, n)
        PROVE  Mutex!Next \/ holder' = holder
    BY <2>2, OnlyDrops
  <2>3. ASSUME NEW c \in Claimant, Call(c) \/ Return(c)
        PROVE  \A n \in Node, d \in Claimant : Holds(d, n)' => Holds(d, n)
    BY <2>3 DEF Call, Return, Holds, Working, TypeOK
  <2>4. ASSUME NEW c \in Claimant, Release(c) \/ Crash(c)
        PROVE  \A n \in Node, d \in Claimant : Holds(d, n)' => Holds(d, n)
    <3>1. End(c)
      BY <2>4 DEF Release, Crash
    <3> QED
      BY <3>1 DEF End, Holds, Working, TypeOK
  <2>5. ASSUME Tick
        PROVE  \A n \in Node, d \in Claimant : Holds(d, n)' => Holds(d, n)
    BY <2>5 DEF Tick, Holds, Working, TypeOK
  <2>6. ASSUME Sweep \/ UNCHANGED vars
        PROVE  \A n \in Node, d \in Claimant : Holds(d, n)' => Holds(d, n)
    BY <2>6 DEF Sweep, vars, train, Holds, Working
  <2> QED
    BY <2>1, <2>2, <2>3, <2>4, <2>5, <2>6 DEF Next, Mutex!Next
<1> QED
  BY <1>1, <1>2, TypeCorrect, LeaseHeld, PTL DEF Spec, MutexSpec, Mutex!Spec
=============================================================================

------------------------------ MODULE NodeLocks ------------------------------
(***************************************************************************)
(* The node_locks table and the way the Knowledge Agent uses it around one *)
(* mutating command train: acquire_lock, up to max_attempts agent calls    *)
(* each cut off after the runner's timeout, and the DELETE of the finally  *)
(* block; sweep_expired_locks; and the death of a process, which leaves    *)
(* its row behind.                                                         *)
(*                                                                         *)
(* A claimant is one Knowledge Agent process (a container that restarts    *)
(* while its predecessor still runs counts as two).  A lock id is a fresh  *)
(* uuid, and a claimant has at most one acquisition in progress, so a row  *)
(* is named by its claimant; Lost stands for the ids of dead processes,    *)
(* which nobody knows any more.  Time is the distance to the deadlines:    *)
(* left[n] is expires_at - NOW() of the row of n, with -1 for a row that   *)
(* has expired.                                                            *)
(***************************************************************************)
EXTENDS Integers

CONSTANTS
  Node, Claimant,
  NoOne, Lost,     \* no row; a row whose process is dead
  Command,         \* the mutating commands: a runner's timeout_seconds and the
                   \* max_attempts of its step
  DefaultTTL,      \* NODE_LOCK_TTL_SECONDS
  Slack            \* bound: seconds the database statements of one train take.
                   \* Nothing relates it to the lease

\* Mutant: the same lease for every command.
TTLBug(x) == DefaultTTL
TTL(x) == IF 2 * x.timeout >= DefaultTTL THEN 2 * x.timeout ELSE DefaultTTL

\* Seconds that a train of x, with its database statements, may go on after its
\* lease.  The restarts of the shipped catalogue (60 s, two attempts) fill a
\* lease of 120 s to the last second, so that for them this is all of Slack.
Overrun(x) ==
  LET longest == x.attempts * x.timeout + Slack
  IN IF longest > TTL(x) THEN longest - TTL(x) ELSE 0

Fits(x) == Overrun(x) = 0

ASSUME TimingAssumption ==
  /\ Command \subseteq [timeout : Nat, attempts : Nat \ {0}]
  /\ DefaultTTL \in Nat /\ Slack \in Nat

ASSUME NameAssumption ==
  /\ NoOne \notin Claimant /\ Lost \notin Claimant /\ NoOne # Lost

VARIABLES
  owner,           \* node -> who inserted its row, NoOne when it has none
  left,            \* node -> seconds until the row expires, -1 once it has
  phase,           \* claimant -> where it is in run_runner_command
  on, cmd,         \* claimant -> the node and the command of its train
  calls,           \* claimant -> attempts it may still start
  clock,           \* claimant -> seconds until its current call is cut off
  slack,           \* claimant -> seconds left for database statements
  lease            \* history: claimant -> seconds until the lease that it took
                   \* ends, negative once it has; the code never looks at it

train == <<on, cmd, calls, clock, slack, lease>>
vars == <<owner, left, phase, train>>

Phase == {"idle", "db", "calling", "release"}

TypeOK ==
  /\ owner \in [Node -> Claimant \cup {NoOne, Lost}]
  /\ left \in [Node -> Nat \cup {-1}]
  /\ phase \in [Claimant -> Phase]
  /\ on \in [Claimant -> Node]
  /\ cmd \in [Claimant -> Command]
  /\ calls \in [Claimant -> Nat]
  /\ clock \in [Claimant -> Nat]
  /\ slack \in [Claimant -> 0 .. Slack]
  /\ lease \in [Claimant -> Int]

Working(c) == phase[c] # "idle"

Init ==
  /\ owner = [n \in Node |-> NoOne]
  /\ left = [n \in Node |-> -1]
  /\ phase = [c \in Claimant |-> "idle"]
  /\ on \in [Claimant -> Node]
  /\ cmd \in [Claimant -> Command]
  /\ calls = [c \in Claimant |-> 0]
  /\ clock = [c \in Claimant |-> 0]
  /\ slack = [c \in Claimant |-> 0]
  /\ lease = [c \in Claimant |-> 0]

\* Mutant: takes over a lease that has not quite ended.
TakeableBug(n) == owner[n] = NoOne \/ left[n] <= 0
\* INSERT ... ON CONFLICT (node_id) DO UPDATE ... WHERE expires_at < NOW()
Takeable(n) == owner[n] = NoOne \/ left[n] < 0

\* The upsert of acquire_lock, for a train of x on n.
Acquire(c, n, x) ==
  /\ ~Working(c)
  /\ Takeable(n)
  /\ owner' = [owner EXCEPT ![n] = c]
  /\ left' = [left EXCEPT ![n] = TTL(x)]
  /\ phase' = [phase EXCEPT ![c] = "db"]
  /\ on' = [on EXCEPT ![c] = n]
  /\ cmd' = [cmd EXCEPT ![c] = x]
  /\ calls' = [calls EXCEPT ![c] = x.attempts]
  /\ slack' = [slack EXCEPT ![c] = Slack]
  /\ lease' = [lease EXCEPT ![c] = TTL(x)]
  /\ UNCHANGED clock

\* upsert_step and audit are done; the HTTP request leaves with its timeout.
Call(c) ==
  /\ phase[c] = "db"
  /\ phase' = [phase EXCEPT ![c] = "calling"]
  /\ calls' = [calls EXCEPT ![c] = @ - 1]
  /\ clock' = [clock EXCEPT ![c] = cmd[c].timeout]
  /\ UNCHANGED <<owner, left, on, cmd, slack, lease>>

\* Mutant: `attempt <= attempts`, which tries once more after the last attempt.
ReturnBug(c) ==
  /\ phase[c] = "calling"
  /\ clock' = [clock EXCEPT ![c] = 0]
  /\ \/ phase' = [phase EXCEPT ![c] = "db"] /\ UNCHANGED calls
     \/ phase' = [phase EXCEPT ![c] = "release"] /\ calls' = [calls EXCEPT ![c] = 0]
  /\ UNCHANGED <<owner, left, on, cmd, slack, lease>>

\* The agent answers or the call is cut off: another attempt, or the finally.
Return(c) ==
  /\ phase[c] = "calling"
  /\ clock' = [clock EXCEPT ![c] = 0]
  /\ \/ calls[c] > 0 /\ phase' = [phase EXCEPT ![c] = "db"] /\ UNCHANGED calls
     \/ phase' = [phase EXCEPT ![c] = "release"] /\ calls' = [calls EXCEPT ![c] = 0]
  /\ UNCHANGED <<owner, left, on, cmd, slack, lease>>

\* run_runner_command of c is over, and its local state with it.
End(c) ==
  /\ phase' = [phase EXCEPT ![c] = "idle"]
  /\ calls' = [calls EXCEPT ![c] = 0]
  /\ clock' = [clock EXCEPT ![c] = 0]
  /\ slack' = [slack EXCEPT ![c] = 0]
  /\ lease' = [lease EXCEPT ![c] = 0]
  /\ UNCHANGED <<left, on, cmd>>

\* DELETE FROM node_locks WHERE node_id = $1 AND lock_id = $2: a row that
\* somebody else has taken over stays.
Release(c) ==
  /\ phase[c] = "release"
  /\ owner' = [owner EXCEPT ![on[c]] = IF @ = c THEN NoOne ELSE @]
  /\ End(c)

\* The process dies; the finally block does not run and the row stays.
Crash(c) ==
  /\ Working(c)
  /\ owner' = [n \in Node |-> IF owner[n] = c THEN Lost ELSE owner[n]]
  /\ End(c)

\* Mutant: forgets the rows of dead processes.
SweepBug ==
  /\ \E n \in Node : owner[n] \in Claimant /\ left[n] < 0
  /\ owner' = [n \in Node |-> IF owner[n] \in Claimant /\ left[n] < 0 THEN NoOne ELSE owner[n]]
  /\ UNCHANGED <<left, phase, train>>

\* DELETE FROM node_locks WHERE expires_at < NOW(), on every turn of the loop
Sweep ==
  /\ \E n \in Node : owner[n] # NoOne /\ left[n] < 0
  /\ owner' = [n \in Node |-> IF left[n] < 0 THEN NoOne ELSE owner[n]]
  /\ UNCHANGED <<left, phase, train>>

\* A second passes.  A call does not outlast its timeout, nor a train its
\* database time: time waits for the claimant that has used up its share.
Tick ==
  /\ \A c \in Claimant : /\ phase[c] = "calling" => clock[c] > 0
                         /\ phase[c] \in {"db", "release"} => slack[c] > 0
  /\ left' = [n \in Node |-> IF left[n] < 0 THEN -1 ELSE left[n] - 1]
  /\ clock' = [c \in Claimant |-> IF phase[c] = "calling" THEN clock[c] - 1 ELSE clock[c]]
  /\ slack' = [c \in Claimant |->
                 IF phase[c] \in {"db", "release"} THEN slack[c] - 1 ELSE slack[c]]
  /\ lease' = [c \in Claimant |-> IF Working(c) THEN lease[c] - 1 ELSE lease[c]]
  /\ UNCHANGED <<owner, phase, on, cmd, calls>>

Next ==
  \/ \E c \in Claimant : \/ \E n \in Node, x \in Command : Acquire(c, n, x)
                         \/ Call(c)
                         \/ Return(c)
                         \/ Release(c)
                         \/ Crash(c)
  \/ Sweep
  \/ Tick

Spec == Init /\ [][Next]_vars

\* Time does not stop, the loop of start() keeps sweeping, and a process that
\* is alive goes on with its train.
FairSpec ==
  /\ Spec
  /\ WF_vars(Sweep)
  /\ SF_vars(Tick)
  /\ \A c \in Claimant : WF_vars(Call(c)) /\ WF_vars(Return(c)) /\ WF_vars(Release(c))

------------------------------------------------------------------------------
\* Seconds the train of c may still need.
Needs(c) == clock[c] + calls[c] * cmd[c].timeout + slack[c]

\* As long as its lease runs, a claimant owns the row of its node, with the
\* lease it took: no other acquisition, no sweep and no late DELETE takes the
\* node away under its commands.  A train goes on after its lease by no more than
\* the overrun of its command, which is nothing for one that fits and, with the
\* two attempts of the catalogue, what the database statements take.
HoldsLease ==
  \A c \in Claimant : Working(c) =>
    /\ lease[c] >= 0 => owner[on[c]] = c /\ left[on[c]] = lease[c]
    /\ lease[c] + Overrun(cmd[c]) >= Needs(c)
    /\ cmd[c].attempts <= 2 => lease[c] + Slack >= Needs(c)

\* The row of a dead process does not keep its node blocked forever.
StaleRowsFade == \A n \in Node : owner[n] = Lost ~> owner[n] # Lost

\* The claimant whose train works on n within its lease.
Holds(c, n) == Working(c) /\ on[c] = n /\ lease[c] >= 0

holder ==
  [n \in Node |-> IF \E c \in Claimant : Holds(c, n)
                  THEN CHOOSE c \in Claimant : Holds(c, n)
                  ELSE NoOne]

\* The table implements mutual exclusion between the trains that are within
\* their lease, whoever crashes or overruns when: a node is granted only when
\* nobody holds it, and a lease once lapsed is never held again.
Mutex == INSTANCE NodeMutex WITH holder <- holder
MutexSpec == Mutex!Spec

\* Two trains on one node: never, when every command fits its lease.
OneTrainPerNode ==
  \A c, d \in Claimant : Working(c) /\ Working(d) /\ on[c] = on[d] => c = d
==============================================================================

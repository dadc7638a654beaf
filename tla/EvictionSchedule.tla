-------------------------- MODULE EvictionSchedule --------------------------
(***************************************************************************)
(* The eviction schedule as a component of its own: two u64 counters, the  *)
(* operations that advance them, and what they do at the end of their      *)
(* range (CircuitEvictionSchedule, src/src/circuit.rs).                    *)
(***************************************************************************)
EXTENDS CircuitSchedule, FiniteSetsExt

CONSTANTS
  CounterMax,   \* largest counter value: u64::MAX in the code, small in a run
  MaxAccesses,  \* bound: accesses one behaviour records
  MaxBudget     \* bound: largest budget of one drain

ASSUME ScheduleAssumption ==
  /\ CounterMax \in Nat
  /\ MaxAccesses \in Nat
  /\ MaxBudget \in Nat \ {0}

VARIABLES
  issued_accesses,
  completed_evictions,
  refused,             \* the last operation returned an error
  visits               \* history: evictions of a path through each bucket

scheduleVars == <<issued_accesses, completed_evictions, refused, visits>>

\* checked_mul and checked_sub: outside this domain pending_evictions fails.
PendingDefined(issued, completed) ==
  /\ issued * EvictionsPerAccess <= CounterMax
  /\ completed <= issued * EvictionsPerAccess

-----------------------------------------------------------------------------
ScheduleInit ==
  /\ issued_accesses = 0
  /\ completed_evictions = 0
  /\ refused = FALSE
  /\ visits = [node \in Node |-> 0]

\* Mutants: an unchecked and a wrapping increment.
record_access_Unchecked ==
  /\ issued_accesses < MaxAccesses
  /\ issued_accesses' = issued_accesses + 1
  /\ refused' = FALSE
  /\ UNCHANGED <<completed_evictions, visits>>

record_access_Wraps ==
  /\ issued_accesses < MaxAccesses
  /\ issued_accesses' = (issued_accesses + 1) % (CounterMax + 1)
  /\ refused' = FALSE
  /\ UNCHANGED <<completed_evictions, visits>>

\* At the end of its range checked_add fails and the counter keeps its value.
record_access ==
  /\ issued_accesses < MaxAccesses
  /\ refused' = (issued_accesses = CounterMax)
  /\ issued_accesses' = IF refused' THEN issued_accesses ELSE issued_accesses + 1
  /\ UNCHANGED <<completed_evictions, visits>>

\* Mutants: the debt does not limit the drain; the last path stays pending.
Drainable_IgnoresDebt(budget) == budget

Drainable_LeavesOne(budget) ==
  IF Debt(issued_accesses, completed_evictions) > 0
  THEN Min({budget, Debt(issued_accesses, completed_evictions) - 1})
  ELSE 0

\* Evictions one drain completes: complete_one_eviction until the budget or
\* the debt is used up; none at all once the debt cannot be computed.
Drainable(budget) ==
  IF PendingDefined(issued_accesses, completed_evictions)
  THEN Min({budget, Debt(issued_accesses, completed_evictions)})
  ELSE 0

ThroughBucket(node, leaf) == \E depth \in Depth : node_contains_leaf(depth, node, leaf)

\* How many of the eviction paths with index from .. to - 1 go through a bucket.
Visits(node, from, to) ==
  Cardinality({k \in from .. to - 1 : ThroughBucket(node, eviction_leaf_at(k))})

drain_evictions(budget) ==
  LET drained == Drainable(budget) IN
  /\ refused' = (budget > 0 /\ ~PendingDefined(issued_accesses, completed_evictions))
  /\ completed_evictions' = completed_evictions + drained
  /\ visits' = [node \in Node |->
       visits[node] + Visits(node, completed_evictions, completed_evictions + drained)]
  /\ UNCHANGED issued_accesses

ScheduleNext ==
  \/ record_access
  \/ \E budget \in 0 .. MaxBudget : drain_evictions(budget)

ScheduleSpec == ScheduleInit /\ [][ScheduleNext]_scheduleVars

\* Callers drain after every access or batch with a budget of at least one
\* path (the drain_per_access of the oramctl loops).
FairScheduleSpec ==
  /\ ScheduleSpec
  /\ WF_scheduleVars(\E budget \in 1 .. MaxBudget : drain_evictions(budget))

-----------------------------------------------------------------------------
\* Every counter is a u64 and the visit history is a count per bucket.
ScheduleTypeOK ==
  /\ issued_accesses \in 0 .. CounterMax
  /\ completed_evictions \in 0 .. CounterMax
  /\ refused \in BOOLEAN
  /\ visits \in [Node -> Nat]

\* The bit-reversal order spreads evictions evenly at every depth: after any
\* sequence of drains, the paths evicted went through two buckets of the same
\* depth equally often, up to one path.
VisitsBalanced ==
  \A depth \in Depth :
    \A n1, n2 \in Pow2[depth] - 1 .. 2 * Pow2[depth] - 2 : visits[n1] <= visits[n2] + 1

\* Draining never runs ahead of what the recorded accesses scheduled, whatever
\* budgets are asked for and even when the debt no longer fits its counter.
NeverAheadOfSchedule == completed_evictions <= issued_accesses * EvictionsPerAccess

\* Neither counter ever goes back: at the end of its range it stops and the
\* operation is refused, it does not wrap around.
CountersNeverWrap ==
  [][ /\ issued_accesses' >= issued_accesses
      /\ completed_evictions' >= completed_evictions ]_scheduleVars

\* A caller that keeps draining completes every eviction the first k accesses
\* scheduled, for every k, even while further accesses keep adding debt; the
\* one way out is a debt that no longer fits its counter.
ScheduledEvictionsComplete ==
  \A k \in 1 .. MaxAccesses :
    (issued_accesses >= k) ~>
       \/ completed_evictions >= k * EvictionsPerAccess
       \/ ~PendingDefined(issued_accesses, completed_evictions)
=============================================================================

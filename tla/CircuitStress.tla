---------------------------- MODULE CircuitStress ----------------------------
(***************************************************************************)
(* The stress run of stress_circuit (src/src/stress.rs): a loop that makes  *)
(* one access per step and then pays eviction debt in three ways, a fixed   *)
(* budget per access, a burst every burst_interval steps, and as much as it *)
(* takes to get back under the debt cap. One action is one access, one      *)
(* evicted path or the end of one of these stages.                          *)
(***************************************************************************)
EXTENDS StressLoop

CONSTANTS
  NoCap,          \* max_debt of None
  Drains,         \* drain_per_access values
  BurstIntervals, \* burst_interval values, 0 for no bursts
  BurstBudgets,   \* burst_budget values
  DebtCaps        \* max_debt values, NoCap for none

ASSUME StressAssumption ==
  Drains \cup BurstIntervals \cup BurstBudgets \cup (DebtCaps \ {NoCap}) \subseteq Nat

VARIABLES
  issued,     \* CircuitEvictionSchedule::issued_accesses
  completed,  \* CircuitEvictionSchedule::completed_evictions
  stage,      \* where in the loop the run is
  budget,     \* paths the current drain may still evict
  max_debt    \* largest debt seen at the end of a step

stressVars == <<config, sim, issued, completed, stage, budget, max_debt>>

\* The step counter of the loop is the number of accesses issued so far.
pending_evictions == Debt(issued, completed)

\* A run is refused when the blocks do not fit the tree or when a burst budget
\* comes without an interval.
Accepted(c) ==
  /\ LogicalBlocks <= bucket_count * BucketSize
  /\ c.burst_interval = 0 => c.burst_budget = 0

StressInit ==
  /\ config \in {c \in [pattern : {"random", "round_robin"}, drain_per_access : Drains,
                        burst_interval : BurstIntervals, burst_budget : BurstBudgets,
                        max_debt : DebtCaps] : Accepted(c)}
  /\ sim \in NewSims
  /\ issued = 0 /\ completed = 0
  /\ stage = "access" /\ budget = 0 /\ max_debt = 0

\* The access, its record in the schedule, and the start of the drain.
Access ==
  /\ stage = "access" /\ issued < TotalOps
  /\ \E id \in next_logical_id(issued), leaf \in Leaf :
       IF Found(sim, id)
       THEN /\ sim' = access(sim, id, leaf)
            /\ issued' = issued + 1
            /\ stage' = "drain" /\ budget' = config.drain_per_access
       ELSE stage' = "failed" /\ UNCHANGED <<sim, issued, budget>>
  /\ UNCHANGED <<config, completed, max_debt>>

\* Mutant: in the cap loop the schedule is not told of the evicted path.
EvictOne_CapUncounted ==
  /\ stage \in {"drain", "burst", "cap"}
  /\ pending_evictions > 0
  /\ IF stage = "cap" THEN config.max_debt # NoCap /\ pending_evictions > config.max_debt
     ELSE budget > 0
  /\ sim' = evict_path(sim, eviction_leaf_at(completed))
  /\ completed' = IF stage = "cap" THEN completed ELSE completed + 1
  /\ budget' = IF stage = "cap" THEN 0 ELSE budget - 1
  /\ UNCHANGED <<config, issued, stage, max_debt>>

\* One path of drain_public_evictions. In the cap stage the loop asks for one
\* path at a time while the debt is over the cap.
EvictOne ==
  /\ stage \in {"drain", "burst", "cap"}
  /\ pending_evictions > 0
  /\ IF stage = "cap" THEN config.max_debt # NoCap /\ pending_evictions > config.max_debt
     ELSE budget > 0
  /\ sim' = evict_path(sim, eviction_leaf_at(completed))
  /\ completed' = completed + 1
  /\ budget' = IF stage = "cap" THEN 0 ELSE budget - 1
  /\ UNCHANGED <<config, issued, stage, max_debt>>

\* Mutant: the burst fires on the first step of an interval, not on the last.
BurstDue_FirstStep ==
  config.burst_interval # 0 /\ (issued - 1) % config.burst_interval = 0

BurstDue == config.burst_interval # 0 /\ issued % config.burst_interval = 0

Drained == budget = 0 \/ pending_evictions = 0

EndDrain ==
  /\ stage = "drain" /\ Drained
  /\ IF BurstDue THEN stage' = "burst" /\ budget' = config.burst_budget
     ELSE stage' = "cap" /\ budget' = 0
  /\ UNCHANGED <<config, sim, issued, completed, max_debt>>

EndBurst ==
  /\ stage = "burst" /\ Drained
  /\ stage' = "cap" /\ budget' = 0
  /\ UNCHANGED <<config, sim, issued, completed, max_debt>>

\* The debt is under the cap: the step is over and its debt is recorded.
EndStep ==
  /\ stage = "cap"
  /\ config.max_debt # NoCap => pending_evictions <= config.max_debt
  /\ stage' = "access"
  /\ max_debt' = IF pending_evictions > max_debt THEN pending_evictions ELSE max_debt
  /\ UNCHANGED <<config, sim, issued, completed, budget>>

StressNext == Access \/ EvictOne \/ EndDrain \/ EndBurst \/ EndStep

StressSpec == StressInit /\ [][StressNext]_stressVars

-----------------------------------------------------------------------------
\* Between steps the debt respects the cap, there is none when every access
\* pays for itself, and a burst that covers what its interval left unpaid
\* clears it.
DebtIsPaid ==
  stage = "access" =>
    /\ config.max_debt # NoCap => max_debt <= config.max_debt
    /\ config.drain_per_access >= EvictionsPerAccess => max_debt = 0
    /\ LET unpaid == config.burst_interval * (EvictionsPerAccess - config.drain_per_access)
       IN /\ config.burst_interval # 0 /\ issued % config.burst_interval = 0
          /\ config.burst_budget >= unpaid
          => pending_evictions = 0
=============================================================================

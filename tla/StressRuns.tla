------------------------------ MODULE StressRuns ------------------------------
(***************************************************************************)
(* The two stress simulators for TLC: a behaviour is one run of             *)
(* stress_circuit (CircuitStress) or of stress_ring (RingStress); the       *)
(* variables of the other do not change.                                    *)
(***************************************************************************)
EXTENDS CircuitStress, RingStress

VARIABLE simulator   \* the simulator this behaviour is about

ringOnly == <<read_counters, max_read_counter, ring_evictions, step, scan, read_leaf>>
circuitOnly == <<issued, completed, stage, budget, max_debt>>
runVars == <<stressVars, ringOnly, simulator>>

RunsInit ==
  \/ /\ simulator = "circuit" /\ StressInit
     /\ read_counters = <<>> /\ max_read_counter = 0 /\ ring_evictions = 0
     /\ step = 0 /\ scan = {} /\ read_leaf = 0
  \/ /\ simulator = "ring" /\ RingInit
     /\ issued = 0 /\ completed = 0 /\ stage = "access" /\ budget = 0 /\ max_debt = 0

circuit_step == simulator = "circuit" /\ StressNext /\ UNCHANGED <<ringOnly, simulator>>

ring_step == simulator = "ring" /\ RingNext /\ UNCHANGED <<circuitOnly, simulator>>

\* Each run is one sequential function: it runs as long as it can.
RunsSpec ==
  /\ RunsInit /\ [][circuit_step \/ ring_step]_runVars
  /\ WF_runVars(circuit_step) /\ WF_runVars(ring_step)

-----------------------------------------------------------------------------
\* Accesses, evictions and early reshuffles neither lose nor duplicate a block,
\* and every block stays on the path of its label or in the stash under it, so
\* that no access fails with BlockNotFound.
NoBlockIsLost == EveryBlockOnItsPath(sim)

\* Between steps the debt respects the cap, there is none when every access
\* pays for itself, and a burst that covers what its interval left unpaid
\* clears it (stress_circuit).
DebtStaysPaid == simulator = "circuit" => DebtIsPaid

\* No bucket is ever read more often than it has reserved dummies before it is
\* rewritten, whatever order accesses, evictions and reshuffles come in; at the
\* start of an access every bucket has a dummy left (stress_ring).
DummiesLast == simulator = "ring" => DummiesNeverRunOut

\* Greedy eviction leaves nothing to gain on the path it rewrote: after
\* write_path_from_stash a free slot of the path could be filled by no block
\* of the stash and by no block higher up.
EvictionsPack ==
  [][completed' # completed => PathIsPacked(sim', eviction_leaf_at(completed))]_runVars

\* Every run comes to an end, with all of its accesses made: in particular the
\* loop that waits for the debt to fall under the cap always leaves.
RunsEnd ==
  <>(\/ simulator = "circuit" /\ stage = "access" /\ issued = TotalOps
     \/ simulator = "ring" /\ scan = {} /\ step = TotalOps)
=============================================================================

------------------------------ MODULE RingStress ------------------------------
(***************************************************************************)
(* The stress run of stress_ring (src/src/ring_stress.rs). Every bucket has *)
(* a read counter: an access reads one slot of every bucket on the path of  *)
(* the block, every eviction_period accesses one path is evicted, and a     *)
(* bucket of the path just read whose reserved dummies are used up is       *)
(* reshuffled early. One action is the access with its eviction, or one     *)
(* bucket of the early-reshuffle scan.                                      *)
(***************************************************************************)
EXTENDS StressLoop

CONSTANTS
  DummySlots,       \* dummy_slots values, Ring ORAM's S
  EvictionPeriods   \* eviction_period values, Ring ORAM's A

ASSUME RingAssumption == DummySlots \cup EvictionPeriods \subseteq Nat

VARIABLES
  read_counters,        \* reads of each bucket since it was last rewritten
  max_read_counter,
  ring_evictions,       \* RingStressSim::completed_evictions
  step,
  scan,                 \* depths of read_path still to check for a reshuffle
  read_leaf             \* the leaf whose path the access read

ringVars == <<config, sim, read_counters, max_read_counter, ring_evictions,
              step, scan, read_leaf>>

\* A run is refused without dummies, without a period, or when the blocks do
\* not fit the real slots.
RingAccepted(c) ==
  /\ c.dummy_slots > 0 /\ c.eviction_period > 0
  /\ LogicalBlocks <= bucket_count * BucketSize

RingInit ==
  /\ config \in {c \in [pattern : {"random", "round_robin"}, dummy_slots : DummySlots,
                        eviction_period : EvictionPeriods] : RingAccepted(c)}
  /\ sim \in NewSims
  /\ read_counters = [node \in Node |-> 0]
  /\ max_read_counter = 0 /\ ring_evictions = 0 /\ step = 0
  /\ scan = {} /\ read_leaf = 0

path(leaf) == {node_index(depth, leaf) : depth \in Depth}

\* The counters after one slot of every bucket on the path was read.
CountReads(leaf) ==
  [node \in Node |-> read_counters[node] + (IF node \in path(leaf) THEN 1 ELSE 0)]

\* evict_path of the Ring simulator also clears the counters of the path.
AfterEvictPath(simNow, counters, leaf) ==
  [sim |-> evict_path(simNow, leaf),
   counters |-> [node \in Node |-> IF node \in path(leaf) THEN 0 ELSE counters[node]]]

EvictionDue == (step + 1) % config.eviction_period = 0

\* An access and, at the end of a period, the eviction of the next path.
RingAccess ==
  /\ scan = {} /\ step < TotalOps
  /\ \E id \in next_logical_id(step), leaf \in Leaf :
       /\ Found(sim, id)
       /\ read_leaf' = sim.position_map[id]
       /\ \E accessed \in {access(sim, id, leaf)}, counters \in {CountReads(read_leaf')} :
            /\ max_read_counter' =
                 Max({max_read_counter} \cup {counters[node] : node \in path(read_leaf')})
            /\ IF EvictionDue
               THEN \E after \in {AfterEvictPath(accessed, counters,
                                                 eviction_leaf_at(ring_evictions))} :
                      /\ sim' = after.sim
                      /\ read_counters' = after.counters
                      /\ ring_evictions' = ring_evictions + 1
               ELSE /\ sim' = accessed
                    /\ read_counters' = counters
                    /\ UNCHANGED ring_evictions
  /\ scan' = Depth
  /\ step' = step + 1
  /\ UNCHANGED config

\* Mutant: a bucket is reshuffled one read too late.
Exhausted_OneLate(node) == read_counters[node] > config.dummy_slots

Exhausted(node) == read_counters[node] >= config.dummy_slots

\* reshuffle_bucket rewrites one bucket from its own blocks and the stash.
reshuffle_bucket(simNow, depth, node) ==
  The({write_bucket_from_stash(b, depth, node) : b \in {read_bucket_into_stash(simNow, node)}})

\* The next bucket of the scan, leaf first.
EarlyReshuffle ==
  /\ scan # {}
  /\ LET depth == Max(scan)
         node == node_index(depth, read_leaf)
     IN /\ scan' = scan \ {depth}
        /\ IF Exhausted(node)
           THEN /\ sim' = reshuffle_bucket(sim, depth, node)
                /\ read_counters' = [read_counters EXCEPT ![node] = 0]
           ELSE UNCHANGED <<sim, read_counters>>
  /\ UNCHANGED <<config, max_read_counter, ring_evictions, step, read_leaf>>

RingNext == RingAccess \/ EarlyReshuffle

RingSpec == RingInit /\ [][RingNext]_ringVars

-----------------------------------------------------------------------------
\* No bucket is ever read more often than it has reserved dummies before it is
\* rewritten, whatever order accesses, evictions and reshuffles come in; at the
\* start of an access every bucket has a dummy left.
DummiesNeverRunOut ==
  /\ max_read_counter <= config.dummy_slots
  /\ scan = {} => \A node \in Node : read_counters[node] < config.dummy_slots
=============================================================================

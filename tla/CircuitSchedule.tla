--------------------------- MODULE CircuitSchedule ---------------------------
(***************************************************************************)
(* The arithmetic of the public eviction schedule of Circuit ORAM           *)
(* (CircuitEvictionSchedule, src/src/circuit.rs): the order in which        *)
(* eviction paths are visited and the eviction debt.                        *)
(***************************************************************************)
EXTENDS OramParams

CONSTANT EvictionsPerAccess   \* public eviction rate, 2 by default

ASSUME RateAssumption == EvictionsPerAccess \in Nat

\* Each leaf label with its bits in reverse order: rev[k] holds the k lowest
\* bits, reversed.
ReversedBits ==
  [low \in Leaf |->
     LET rev[k \in Nat] ==
           IF k = 0 THEN 0
           ELSE 2 * rev[k - 1] + ((low \div Pow2[k - 1]) % 2)
     IN rev[LeafBits]]

\* Mutant: the paths are visited in plain order.
reverse_bits_mod_Unreversed(index) == index % leaves

\* The low bits of the index, reversed.
reverse_bits_mod(index) == ReversedBits[index % leaves]

\* Leaf of the eviction path with the given global index.
eviction_leaf_at(eviction_index) == reverse_bits_mod(eviction_index)

\* Eviction paths scheduled by `issued` accesses and not yet completed.
Debt(issued, completed) == issued * EvictionsPerAccess - completed
=============================================================================

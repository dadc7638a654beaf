----------------------------- MODULE OramParams -----------------------------
(***************************************************************************)
(* Public parameters and tree geometry of the ORAM (src/src/params.rs).     *)
(*                                                                         *)
(* Buckets form a complete binary tree with 2^LeafBits leaves, stored as a *)
(* heap array: the root is page 0 and depth d occupies the pages           *)
(* 2^d - 1 .. 2^(d+1) - 2.                                                 *)
(***************************************************************************)
EXTENDS PowersOfTwo

CONSTANTS
  LeafBits,       \* log2 of the number of leaves (OramParams::leaf_bits)
  BucketSize,     \* block slots per bucket
  StashCapacity,  \* fixed number of stash slots
  LogicalBlocks   \* number of logical blocks

\* with_leaves refuses fewer than two leaves and zero blocks, with_bucket_size
\* refuses empty buckets.
ASSUME ParamsAssumption ==
  /\ LeafBits \in Nat \ {0}
  /\ BucketSize \in Nat \ {0}
  /\ StashCapacity \in Nat
  /\ LogicalBlocks \in Nat \ {0}

leaves == Pow2[LeafBits]
height == LeafBits + 1
bucket_count == 2 * leaves - 1

Leaf  == 0 .. leaves - 1
Depth == 0 .. LeafBits
Node  == 0 .. bucket_count - 1
Slot  == 0 .. BucketSize - 1
Id    == 0 .. LogicalBlocks - 1
StashSlot == 0 .. StashCapacity - 1

\* Page of the node at each depth on the path to each leaf: the offset of the
\* level plus the top `depth` bits of the label.
NodeIndex ==
  [depth \in Depth |-> [leaf \in Leaf |->
     (Pow2[depth] - 1) + ((leaf \div Pow2[LeafBits - depth]) % Pow2[depth])]]

node_index(depth, leaf) == NodeIndex[depth][leaf]

node_contains_leaf(depth, node, leaf) == node_index(depth, leaf) = node
=============================================================================

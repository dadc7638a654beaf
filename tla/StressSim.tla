------------------------------ MODULE StressSim ------------------------------
(***************************************************************************)
(* The metadata-only tree that both stress simulators keep                  *)
(* (CircuitStressSim, src/src/stress.rs, and RingStressSim,                 *)
(* src/src/ring_stress.rs): which block sits in which slot, the position    *)
(* map, and a stash without a capacity. A simulator is a record             *)
(* [slots, position_map, stash]; a bucket is a sequence of BucketSize ids,  *)
(* the stash a sequence whose order decides which block is placed first.    *)
(***************************************************************************)
EXTENDS CircuitSchedule, SequencesExt

CONSTANT EMPTY_BLOCK   \* the id u32::MAX of a free slot

\* validate_config refuses more than u32::MAX blocks: no id is u32::MAX.
ASSUME EmptyAssumption == EMPTY_BLOCK \notin Id

BucketSlot == 1 .. BucketSize

EmptyBucket == [s \in BucketSlot |-> EMPTY_BLOCK]

NotEmpty(id) == id # EMPTY_BLOCK

\* Vec::swap_remove: the last element takes the place of the removed one.
swap_remove(seq, i) == Front([seq EXCEPT ![i] = Last(seq)])

\* The slots after one of them was assigned.
Put(slots, node, s, id) == [slots EXCEPT ![node] = [@ EXCEPT ![s] = id]]

\* The element of a singleton. The simulators between two steps of a loop are
\* bound as elements {step(b) : b \in {before}}, which TLC computes once.
The(S) == CHOOSE x \in S : TRUE

Lowest(S) == CHOOSE i \in S : \A j \in S : i <= j

-----------------------------------------------------------------------------
\* The deepest bucket on the block's path with a free slot takes the block in
\* its first free slot; when the path is full the block goes to the stash.
place_or_stash(sim, id, leaf) ==
  LET free == {depth \in Depth :
                 \E s \in BucketSlot :
                   sim.slots[node_index(depth, leaf)][s] = EMPTY_BLOCK}
  IN IF free = {}
     THEN [sim EXCEPT !.stash = Append(@, [id |-> id, leaf |-> leaf])]
     ELSE LET deepest == CHOOSE d \in free : \A e \in free : e <= d
              node == node_index(deepest, leaf)
              slot == Lowest({s \in BucketSlot : sim.slots[node][s] = EMPTY_BLOCK})
          IN [sim EXCEPT !.slots = Put(@, node, slot, id)]

\* A new simulator: every block draws a leaf and is placed in the order of ids.
NewSim(position_map) ==
  LET placed[k \in 0 .. LogicalBlocks] ==
        IF k = 0
        THEN [slots |-> [node \in Node |-> EmptyBucket],
              position_map |-> position_map, stash |-> <<>>]
        ELSE The({place_or_stash(b, k - 1, position_map[k - 1]) : b \in {placed[k - 1]}})
  IN placed[LogicalBlocks]

NewSims == {NewSim(position_map) : position_map \in [Id -> Leaf]}

\* Cells of the path to `leaf` that hold the block, and its stash indices.
OnPath(sim, id, leaf) ==
  {cell \in Depth \X BucketSlot : sim.slots[node_index(cell[1], leaf)][cell[2]] = id}

InStash(sim, id) == {i \in DOMAIN sim.stash : sim.stash[i].id = id}

\* access finds the block on its path or else in the stash; when it is in
\* neither, it fails with BlockNotFound.
Found(sim, id) == OnPath(sim, id, sim.position_map[id]) # {} \/ InStash(sim, id) # {}

\* remove_from_path, or else remove_from_stash: the first copy is taken out.
TakeOut(sim, id) ==
  LET leaf == sim.position_map[id]
      cells == OnPath(sim, id, leaf)
  IN IF cells # {}
     THEN LET depth == Lowest({c[1] : c \in cells})
              slot == Lowest({c[2] : c \in {d \in cells : d[1] = depth}})
          IN [sim EXCEPT !.slots = Put(@, node_index(depth, leaf), slot, EMPTY_BLOCK)]
     ELSE [sim EXCEPT !.stash = swap_remove(@, Lowest(InStash(sim, id)))]

\* Mutant: the block keeps its old label in the stash.
access_OldLabel(sim, id, leaf) ==
  LET out == TakeOut(sim, id)
  IN [slots |-> out.slots,
      position_map |-> [out.position_map EXCEPT ![id] = leaf],
      stash |-> Append(out.stash, [id |-> id, leaf |-> sim.position_map[id]])]

\* One access: the block gets the new label and moves to the end of the stash.
access(sim, id, leaf) ==
  LET out == TakeOut(sim, id)
  IN [slots |-> out.slots,
      position_map |-> [out.position_map EXCEPT ![id] = leaf],
      stash |-> Append(out.stash, [id |-> id, leaf |-> leaf])]

-----------------------------------------------------------------------------
\* The block of the slot, if it holds one, joins the stash with the label of the
\* position map.
EmptySlot(sim, node, s) ==
  LET id == sim.slots[node][s]
  IN IF ~NotEmpty(id) THEN sim
     ELSE [slots |-> Put(sim.slots, node, s, EMPTY_BLOCK),
           position_map |-> sim.position_map,
           stash |-> Append(sim.stash, [id |-> id, leaf |-> sim.position_map[id]])]

read_bucket_into_stash(sim, node) ==
  LET emptied[s \in 0 .. BucketSize] ==
        IF s = 0 THEN sim ELSE The({EmptySlot(b, node, s) : b \in {emptied[s - 1]}})
  IN emptied[BucketSize]

\* Stash indices of the blocks that may live in the bucket.
Eligible(sim, depth, node) ==
  {i \in DOMAIN sim.stash : node_contains_leaf(depth, node, sim.stash[i].leaf)}

\* The first eligible block of the stash fills the slot, if it is free.
FillSlot(sim, depth, node, s) ==
  LET eligible == Eligible(sim, depth, node)
  IN IF NotEmpty(sim.slots[node][s]) \/ eligible = {} THEN sim
     ELSE LET i == Lowest(eligible)
          IN [slots |-> Put(sim.slots, node, s, sim.stash[i].id),
              position_map |-> sim.position_map,
              stash |-> swap_remove(sim.stash, i)]

write_bucket_from_stash(sim, depth, node) ==
  LET filled[s \in 0 .. BucketSize] ==
        IF s = 0 THEN sim ELSE The({FillSlot(b, depth, node, s) : b \in {filled[s - 1]}})
  IN filled[BucketSize]

\* Every bucket of the path is read, root first.
read_path_into_stash(sim, leaf) ==
  LET readTo[d \in 0 .. height] ==
        IF d = 0 THEN sim
        ELSE The({read_bucket_into_stash(b, node_index(d - 1, leaf)) : b \in {readTo[d - 1]}})
  IN readTo[height]

\* Mutant: the path is filled from the root down.
write_path_from_stash_RootFirst(sim, leaf) ==
  LET filledTo[d \in 0 .. height] ==
        IF d = 0 THEN sim
        ELSE The({write_bucket_from_stash(b, d - 1, node_index(d - 1, leaf)) :
                    b \in {filledTo[d - 1]}})
  IN filledTo[height]

\* Every bucket of the path is filled, leaf first.
write_path_from_stash(sim, leaf) ==
  LET filled[k \in 0 .. height] ==
        IF k = 0 THEN sim
        ELSE The({write_bucket_from_stash(b, height - k, node_index(height - k, leaf)) :
                    b \in {filled[k - 1]}})
  IN filled[height]

evict_path(sim, leaf) ==
  The({write_path_from_stash(b, leaf) : b \in {read_path_into_stash(sim, leaf)}})

-----------------------------------------------------------------------------
\* Every block is in exactly one place, in a bucket on the path of its current
\* label or in the stash under that label.
EveryBlockOnItsPath(sim) ==
  \A id \in Id :
    /\ \A i \in InStash(sim, id) : sim.stash[i].leaf = sim.position_map[id]
    /\ LET cells == {cell \in Node \X BucketSlot : sim.slots[cell[1]][cell[2]] = id}
       IN \/ /\ InStash(sim, id) = {}
             /\ \E cell \in cells :
                  /\ cells = {cell}
                  /\ \E depth \in Depth :
                       node_contains_leaf(depth, cell[1], sim.position_map[id])
          \/ cells = {} /\ \E i \in InStash(sim, id) : InStash(sim, id) = {i}

HasRoom(sim, node) == \E s \in BucketSlot : sim.slots[node][s] = EMPTY_BLOCK

\* No block of the stash, and none higher on the path, could fill a free slot
\* of the path.
PathIsPacked(sim, leaf) ==
  \A depth \in Depth :
    LET node == node_index(depth, leaf) IN
    HasRoom(sim, node) =>
      /\ Eligible(sim, depth, node) = {}
      /\ \A above \in 0 .. depth - 1, s \in BucketSlot :
           LET id == sim.slots[node_index(above, leaf)][s]
           IN NotEmpty(id) => ~node_contains_leaf(depth, node, sim.position_map[id])
=============================================================================

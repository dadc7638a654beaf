-------------------------- MODULE CircuitOramBatch --------------------------
(***************************************************************************)
(* Batched online accesses of the Circuit ORAM controller (access_batch and *)
(* dummy_access_batch, src/src/circuit.rs).  All paths of a batch are read  *)
(* into page overlays first, the accesses are applied to the overlays and   *)
(* the stash in caller order, and the position map, the random state and    *)
(* the pages are committed only after the last one.                         *)
(***************************************************************************)
EXTENDS CircuitOram, Sequences

CONSTANT MaxBatch   \* bound: accesses in one batch

ASSUME BatchAssumption == MaxBatch \in Nat

\* Occurrences of the k-th id among the first `upTo` ids of the batch.
Occurrences(ids, k, upTo) == {j \in 1 .. upTo : ids[j] = ids[k]}

Last(S) == CHOOSE j \in S : \A i \in S : i <= j

\* batch_access_leaves: a repeated id is looked for on the path its previous
\* occurrence drew.
batch_access_leaf(ids, new_leaves, k) ==
  IF Occurrences(ids, k, k - 1) = {} THEN pos_map[ids[k]]
  ELSE new_leaves[Last(Occurrences(ids, k, k - 1))]

\* scan_pos_map_update_batch: the last occurrence of an id labels it.
BatchLabels(ids, new_leaves) ==
  [id \in Id |->
     LET uses == {j \in 1 .. Len(ids) : ids[j] = id}
     IN IF uses = {} THEN pos_map[id] ELSE new_leaves[Last(uses)]]

\* Mutant: the answers are returned in the opposite order.
BatchRun_Backwards(ids, updates, new_leaves) ==
  LET run[k \in 0 .. Len(ids)] ==
        IF k = 0 THEN [done |-> 0, reply |-> Ok(<<>>), w |-> Working]
        ELSE LET r == run[k - 1]
                 o == AccessOutcome(r.w, batch_access_leaf(ids, new_leaves, k),
                                    ids[k], updates[k], new_leaves[k])
             IN IF r.reply.result # "ok" THEN r
                ELSE IF o.reply.result # "ok"
                THEN [done |-> r.done, reply |-> o.reply, w |-> o.w]
                ELSE [done |-> k, reply |-> Ok(o.reply.out \o r.reply.out), w |-> o.w]
  IN run

\* The first k accesses of a batch: how many succeeded, what they returned and
\* the overlays and stash they leave.  The first failure ends the batch.
BatchRun(ids, updates, new_leaves) ==
  LET run[k \in 0 .. Len(ids)] ==
        IF k = 0 THEN [done |-> 0, reply |-> Ok(<<>>), w |-> Working]
        ELSE LET r == run[k - 1]
                 o == AccessOutcome(r.w, batch_access_leaf(ids, new_leaves, k),
                                    ids[k], updates[k], new_leaves[k])
             IN IF r.reply.result # "ok" THEN r
                ELSE IF o.reply.result # "ok"
                THEN [done |-> r.done, reply |-> o.reply, w |-> o.w]
                ELSE [done |-> k, reply |-> Ok(r.reply.out \o o.reply.out), w |-> o.w]
  IN run

\* A failing batch returns before anything is committed, but the stash and the
\* access counter already carry its successful accesses.
AccessBatch(ids, updates, new_leaves) ==
  /\ issued_accesses + Len(ids) <= MaxAccesses
  /\ request' = [k \in 1 .. Len(ids) |-> <<ids[k], updates[k]>>]
  /\ \E r \in {BatchRun(ids, updates, new_leaves)[Len(ids)]} :
       /\ reply' = r.reply
       /\ stash' = r.w.stash
       /\ issued_accesses' = issued_accesses + r.done
       /\ IF r.reply.result = "ok"
          THEN /\ pos_map' = BatchLabels(ids, new_leaves)
               /\ meta' = r.w.meta
               /\ payload' = r.w.payload
          ELSE UNCHANGED <<pos_map, meta, payload>>
  /\ UNCHANGED completed_evictions

access_batch(ids, updates) ==
  \E new_leaves \in [1 .. Len(ids) -> Leaf] : AccessBatch(ids, updates, new_leaves)

\* Random paths are read and rewritten as they are, one access each.
dummy_access_batch(count) ==
  /\ issued_accesses + count <= MaxAccesses
  /\ request' = <<>>
  /\ issued_accesses' = issued_accesses + count
  /\ reply' = Ok(<<>>)
  /\ UNCHANGED <<pos_map, meta, payload, stash, completed_evictions>>

BatchNext ==
  \/ Next
  \/ \E n \in 0 .. MaxBatch :
       \E ids \in [1 .. n -> Id], updates \in [1 .. n -> Update] :
         access_batch(ids, updates)
  \/ \E count \in 0 .. MaxBatch : dummy_access_batch(count)

BatchSpec == Init /\ [][BatchNext]_vars

-----------------------------------------------------------------------------
\* What two accesses made one by one leave, given the outcome `first` of the
\* first and `second` of the second, made where the first one stopped: nothing
\* more happens once one of them fails.
InSequence(ids, new_leaves, first, second) ==
  LET labels == [pos_map EXCEPT ![ids[1]] = new_leaves[1]]
  IN IF first.reply.result # "ok"
     THEN [reply |-> first.reply, w |-> first.w, labels |-> pos_map]
     ELSE IF second.reply.result # "ok"
     THEN [reply |-> second.reply, w |-> second.w, labels |-> labels]
     ELSE [reply |-> Ok(first.reply.out \o second.reply.out), w |-> second.w,
           labels |-> [labels EXCEPT ![ids[2]] = new_leaves[2]]]

SecondAccess(ids, updates, new_leaves, first) ==
  AccessOutcome(first.w, [pos_map EXCEPT ![ids[1]] = new_leaves[1]][ids[2]],
                ids[2], updates[2], new_leaves[2])

\* `state` is what the two accesses leave when they are made one by one.
IsTwoAccesses(ids, updates, new_leaves, state) ==
  \E first \in {AccessOutcome(Working, pos_map[ids[1]], ids[1], updates[1], new_leaves[1])} :
    \E second \in {SecondAccess(ids, updates, new_leaves, first)} :
      state = InSequence(ids, new_leaves, first, second)

\* The step leaves what the two accesses of its batch leave one by one.
StepIsTwoAccesses ==
  LET ids     == [k \in 1 .. 2 |-> request'[k][1]]
      updates == [k \in 1 .. 2 |-> request'[k][2]]
  IN \E new_leaves \in [1 .. 2 -> Leaf] :
       IsTwoAccesses(ids, updates, new_leaves,
         [reply  |-> reply', w |-> [meta |-> meta', payload |-> payload', stash |-> stash'],
          labels |-> pos_map'])

\* A batch that succeeds leaves exactly the state the same accesses leave one
\* by one, repeated ids included.
SuccessfulBatchIsSequential ==
  [][Len(request') = 2 /\ reply'.result = "ok" => StepIsTwoAccesses]_vars

\* "This preserves sequential ORAM semantics, including repeated logical ids"
\* (access_batch): whatever its outcome, a batch step leaves the state that the
\* same accesses leave when they are made one by one until the first failure.
BatchIsSequential == [][Len(request') = 2 => StepIsTwoAccesses]_vars
=============================================================================

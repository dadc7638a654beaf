------------------------ MODULE ObliviousBatchArray ------------------------
(***************************************************************************)
(* The oblivious array with calls that make several accesses at once: a     *)
(* batch answers and acts as its accesses do when made one after the other. *)
(***************************************************************************)
EXTENDS ObliviousArray, Integers

CONSTANT MaxLen   \* bound: accesses in one batch

\* The contents after the first k accesses of a batch, in caller order.
AfterBatch(ids, updates) ==
  LET after[k \in 0 .. Len(ids)] ==
        IF k = 0 THEN mem
        ELSE [after[k - 1] EXCEPT ![ids[k]] = Apply(updates[k], @)]
  IN after

\* Several accesses in one call, as if they were made one after the other.
AccessBatch(ids, updates) ==
  /\ request' = [k \in 1 .. Len(ids) |-> <<ids[k], updates[k]>>]
  /\ reply' = Ok([k \in 1 .. Len(ids) |-> AfterBatch(ids, updates)[k - 1][ids[k]]])
  /\ mem' = AfterBatch(ids, updates)[Len(ids)]

BatchArrayNext ==
  \/ ArrayNext
  \/ \E n \in 0 .. MaxLen :
       \E ids \in [1 .. n -> ArrayId], updates \in [1 .. n -> Update] :
         AccessBatch(ids, updates)

BatchArraySpec == ArrayInit /\ [][BatchArrayNext]_arrayVars
=============================================================================

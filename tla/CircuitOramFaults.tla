------------------------- MODULE CircuitOramFaults -------------------------
(***************************************************************************)
(* The Circuit ORAM controller (src/src/circuit.rs) over two embedded-tree  *)
(* page stores whose page writes may fail (disk full, I/O error).  Every    *)
(* operation reads its paths, changes the controller in memory and then     *)
(* writes the metadata pages and, after them, the payload pages.            *)
(*                                                                         *)
(* A store moves its trusted root before it writes (EmbeddedTree): after a  *)
(* failed write the root vouches for the new contents, and the pages that   *)
(* were not written no longer verify.  So `meta` and `payload` stand for    *)
(* what the roots vouch for and `bad` for the pages that do not match it.   *)
(***************************************************************************)
EXTENDS CircuitOramBatch

CONSTANTS
  MaxFaults,        \* bound: failing writes of one behaviour
  DrainMetaFaults   \* may the metadata write of a drain fail?

ASSUME FaultAssumption ==
  /\ MaxFaults \in Nat
  /\ DrainMetaFaults \in BOOLEAN

VARIABLES
  bad,      \* pages of each store that do not verify
  mem,      \* what a caller may find in each block, given the answers so far
  faults    \* failed writes so far

fvars == <<vars, bad, mem, faults>>

PathTo(leaf) == {node_index(depth, leaf) : depth \in Depth}

PathsTo(S) == UNION {PathTo(leaf) : leaf \in S}

\* Every page of a read is authenticated: one bad page refuses the call.
Verifies(S) == S \cap (bad.meta \cup bad.payload) = {}

\* A page holds its bucket and the hashes of its children, so its bytes change
\* when a bucket below it changes.
Below(n, m) == \E a, b \in Depth : \E leaf \in Leaf :
                 a <= b /\ n = node_index(a, leaf) /\ m = node_index(b, leaf)

Changed(S, old, new) == {n \in S : \E m \in S : Below(n, m) /\ old[m] # new[m]}

\* Pages are written in ascending order.  The write stops at page k, which is
\* left as it was or torn; the later pages are left as they were.
Unwritten(S, k, old, new) ==
  LET rest == {n \in Changed(S, old, new) : n >= k}
  IN {rest, rest \cup {k}}

\* Mutant: the stores are not authenticated, so an unwritten page keeps its old
\* contents and is read without complaint.
WriteMetaFails_Plain(S, w) ==
  \E k \in S :
    /\ meta' = [n \in Node |-> IF n \in S /\ n < k THEN w.meta[n] ELSE meta[n]]
    /\ UNCHANGED <<payload, bad>>

\* The metadata write fails: the payload write is never tried.
WriteMetaFails(S, w) ==
  \E k \in S : \E lost \in Unwritten(S, k, meta, w.meta) :
    /\ meta' = w.meta
    /\ bad' = [bad EXCEPT !.meta = @ \cup lost]
    /\ UNCHANGED payload

\* Mutant: likewise for the payload pages.
WritePayloadFails_Plain(S, w) ==
  \E k \in S :
    /\ meta' = w.meta
    /\ payload' = [n \in Node |-> IF n \in S /\ n < k THEN w.payload[n] ELSE payload[n]]
    /\ UNCHANGED bad

WritePayloadFails(S, w) ==
  \E k \in S : \E lost \in Unwritten(S, k, payload, w.payload) :
    /\ meta' = w.meta
    /\ payload' = w.payload
    /\ bad' = [bad EXCEPT !.payload = @ \cup lost]

WriteFails(S, w, metaToo) ==
  /\ faults < MaxFaults
  /\ faults' = faults + 1
  /\ reply' = Err("Storage")
  /\ \/ metaToo /\ WriteMetaFails(S, w)
     \/ WritePayloadFails(S, w)

-----------------------------------------------------------------------------
(* Calls that go through, on pages that verify.                             *)

\* What a caller may find after its calls were answered with `out`.
Learn(calls, out) ==
  [id \in Id |->
     LET uses == {j \in DOMAIN out : calls[j][1] = id}
     IN IF uses = {} THEN mem[id]
        ELSE {Apply(calls[Last(uses)][2], out[Last(uses)])}]

access_served(id, update) ==
  /\ Verifies(PathTo(pos_map[id]))
  /\ access(id, update)
  /\ mem' = Learn(request', reply'.out)
  /\ UNCHANGED <<bad, faults>>

\* What a caller may find in the blocks of a batch that took effect in part.
MayHold(ids, updates) ==
  [id \in Id |-> mem[id] \cup
     {Apply(updates[j], p) : j \in {i \in 1 .. Len(ids) : ids[i] = id}, p \in mem[id]}]

BatchPaths(ids, new_leaves) ==
  PathsTo({batch_access_leaf(ids, new_leaves, k) : k \in 1 .. Len(ids)})

access_batch_served(ids, updates) ==
  /\ \E new_leaves \in [1 .. Len(ids) -> Leaf] :
       /\ Verifies(BatchPaths(ids, new_leaves))
       /\ AccessBatch(ids, updates, new_leaves)
  /\ mem' = IF reply'.result = "ok" THEN Learn(request', reply'.out)
            ELSE MayHold(ids, updates)
  /\ UNCHANGED <<bad, faults>>

dummy_batch_served(count) ==
  /\ \E S \in SUBSET Leaf :
       /\ Cardinality(S) \in (IF count = 0 THEN {0} ELSE 1 .. count)
       /\ Verifies(PathsTo(S))
  /\ dummy_access_batch(count)
  /\ UNCHANGED <<bad, mem, faults>>

dummy_served ==
  /\ \E leaf \in Leaf : Verifies(PathTo(leaf))
  /\ dummy_access
  /\ UNCHANGED <<bad, mem, faults>>

DrainPaths(budget) ==
  PathsTo({eviction_leaf_at(completed_evictions + k) : k \in 0 .. ToDrain(budget) - 1})

drain_served(budget) ==
  /\ Verifies(DrainPaths(budget))
  /\ drain_evictions(budget)
  /\ UNCHANGED <<bad, mem, faults>>

\* A call one of whose pages does not verify, or cannot be read, is refused
\* before it changes anything.
read_refused ==
  /\ request' = <<>>
  /\ reply' = Err("Storage")
  /\ UNCHANGED <<pos_map, meta, payload, stash, issued_accesses,
                 completed_evictions, bad, mem, faults>>

-----------------------------------------------------------------------------
(* Calls whose page writes fail.                                            *)

\* read_and_remove_target_path: the target is already in the stash, its label
\* and payload are not updated.
access_write_fails(id) ==
  /\ Verifies(PathTo(pos_map[id]))
  /\ ~TakeOverflows(Working, pos_map[id], id)
  /\ request' = <<>>
  /\ \E t \in {TakeTarget(Working, pos_map[id], id)} :
       /\ WriteFails(PathTo(pos_map[id]), t, TRUE)
       /\ stash' = t.stash
  /\ UNCHANGED <<pos_map, issued_accesses, completed_evictions, mem>>

\* read_and_rewrite_path, dummy_access_batch: the pages are rewritten as they are.
dummy_write_fails ==
  /\ \E S \in {PathTo(leaf) : leaf \in Leaf} :
       Verifies(S) /\ WriteFails(S, Working, TRUE)
  /\ request' = <<>>
  /\ UNCHANGED <<pos_map, stash, issued_accesses, completed_evictions, mem>>

\* The stash, the labels and the counter of a batch are updated before its
\* pages are written: the caller gets an error for updates that took effect.
access_batch_write_fails(ids, updates) ==
  /\ issued_accesses + Len(ids) <= MaxAccesses
  /\ request' = <<>>
  /\ \E new_leaves \in [1 .. Len(ids) -> Leaf] :
     \E S \in {BatchPaths(ids, new_leaves)} :
       /\ Verifies(S)
       /\ \E r \in {BatchRun(ids, updates, new_leaves)[Len(ids)]} :
            /\ r.reply.result = "ok"
            /\ WriteFails(S, r.w, TRUE)
            /\ stash' = r.w.stash
            /\ pos_map' = BatchLabels(ids, new_leaves)
            /\ issued_accesses' = issued_accesses + Len(ids)
  /\ mem' = MayHold(ids, updates)
  /\ UNCHANGED completed_evictions

\* The stash is already as the eviction left it, the schedule is not advanced.
drain_write_fails(budget) ==
  /\ ToDrain(budget) > 0
  /\ Verifies(DrainPaths(budget))
  /\ request' = <<>>
  /\ \E r \in {EvictPaths(Working, completed_evictions)[ToDrain(budget)]} :
       /\ r.ok
       /\ WriteFails(DrainPaths(budget), r.w, DrainMetaFaults)
       /\ stash' = r.w.stash
  /\ UNCHANGED <<pos_map, issued_accesses, completed_evictions, mem>>

FaultsInit ==
  /\ Init
  /\ bad = [meta |-> {}, payload |-> {}]
  /\ mem = [id \in Id |-> {Contents[id]}]
  /\ faults = 0

FaultsNext ==
  \/ \E id \in Id, update \in Update : access_served(id, update)
  \/ dummy_served
  \/ \E n \in 0 .. MaxBatch :
       \E ids \in [1 .. n -> Id], updates \in [1 .. n -> Update] :
         access_batch_served(ids, updates)
  \/ \E count \in 0 .. MaxBatch : dummy_batch_served(count)
  \/ \E budget \in 1 .. MaxBudget : drain_served(budget)
  \/ read_refused
  \/ \E id \in Id : access_write_fails(id)
  \/ dummy_write_fails
  \/ \E n \in 1 .. MaxBatch :
       \E ids \in [1 .. n -> Id], updates \in [1 .. n -> Update] :
         access_batch_write_fails(ids, updates)
  \/ \E budget \in 1 .. MaxBudget : drain_write_fails(budget)

FaultsSpec == FaultsInit /\ [][FaultsNext]_fvars

-----------------------------------------------------------------------------
\* After any failed writes the controller fails closed: a call that is
\* answered, alone or in a batch, finds what the answers before it left in the
\* block, or what a failed batch may have left there; within a batch a repeated
\* block is found as its previous access left it; and no caller is ever told
\* that a block is missing.
FailsClosed ==
  [][/\ reply'.result # "BlockNotFound"
     /\ \A j \in DOMAIN reply'.out :
          LET before == {i \in 1 .. j - 1 : request'[i][1] = request'[j][1]}
          IN IF before = {} THEN reply'.out[j] \in mem[request'[j][1]]
             ELSE reply'.out[j] = Apply(request'[Last(before)][2], reply'.out[Last(before)])]_fvars

\* A block whose path verifies can still be reached: it has one copy in what
\* the stores vouch for, on the path to its label.
ReachableUnlessRefused == OneCopy /\ OnLabelledPath

BatchArray == INSTANCE ObliviousBatchArray
                WITH ArrayId <- Id, mem <- Contents, MaxLen <- MaxBatch

\* Until a write fails, and as long as the pages can be read, the controller
\* with batches, over a stash that can hold every block, implements the array
\* with batches.
ImplementsBatchArray ==
  /\ BatchArray!ArrayInit
  /\ [][faults' = 0 /\ reply'.result # "Storage" =>
         [BatchArray!BatchArrayNext]_(BatchArray!arrayVars)]_fvars
=============================================================================

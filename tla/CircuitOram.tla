----------------------------- MODULE CircuitOram -----------------------------
(***************************************************************************)
(* The Circuit ORAM controller over a split metadata/payload tree           *)
(* (CircuitOram, src/src/circuit.rs): logical accesses, dummy accesses and  *)
(* background evictions, each a whole call of the single-threaded code.     *)
(*                                                                         *)
(* The tree and the stash together form a working set                       *)
(*   w = [meta, payload, stash];                                            *)
(* the helpers below map a working set to a working set, as the code's      *)
(* helpers mutate path pages and the stash in place.                        *)
(***************************************************************************)
EXTENDS CircuitSchedule, Calls, FiniteSets

CONSTANTS
  ZeroPayload,  \* content of a dummy slot
  MaxAccesses,  \* bound: accesses one behaviour issues
  MaxBudget     \* bound: largest eviction budget of one drain

ASSUME CircuitAssumption ==
  /\ MaxAccesses \in Nat
  /\ MaxBudget \in Nat

VARIABLES
  pos_map,              \* leaf label of every logical block
  meta,                 \* metadata buckets of the tree
  payload,              \* payload buckets of the tree
  stash,                \* fixed-capacity stash of the controller
  issued_accesses,
  completed_evictions,
  request,              \* the accesses the last call asked for, as <<id, update>>
  reply                 \* what it returned

vars == <<pos_map, meta, payload, stash, issued_accesses, completed_evictions,
          request, reply>>

Working == [meta |-> meta, payload |-> payload, stash |-> stash]

-----------------------------------------------------------------------------
(* Slots and blocks.  A dummy has the largest u64 as id and the largest u32 *)
(* as leaf, written -1 here: neither is a real id or leaf.                  *)

EmptyMeta  == [occupied |-> FALSE, id |-> -1, leaf |-> -1]
EmptyBlock == [occupied |-> FALSE, id |-> -1, leaf |-> -1, payload |-> ZeroPayload]

RealMeta(id, leaf)    == [occupied |-> TRUE, id |-> id, leaf |-> leaf]
RealBlock(id, leaf, p) == [occupied |-> TRUE, id |-> id, leaf |-> leaf, payload |-> p]

MetaOf(block) == [occupied |-> block.occupied, id |-> block.id, leaf |-> block.leaf]

\* logical_id_choice
Matches(slot, id) == slot.occupied /\ slot.id = id

\* The places a block can be in: stash slots <<-1, i>> and tree slots
\* <<node, slot>>.
Place == ({-1} \X StashSlot) \cup (Node \X Slot)

BlockIn(w, p) ==
  IF p[1] = -1 THEN w.stash[p[2]]
  ELSE LET m == w.meta[p[1]][p[2]]
       IN [occupied |-> m.occupied, id |-> m.id, leaf |-> m.leaf,
           payload |-> w.payload[p[1]][p[2]]]

\* Slots are scanned in lexicographic order: by depth from the root, then by
\* position.
Before(p, q) == p[1] < q[1] \/ (p[1] = q[1] /\ p[2] < q[2])

First(S) == CHOOSE p \in S : \A q \in S : q = p \/ Before(p, q)

\* The slots of the path to `leaf`, as <<depth, slot>>, that hold block `id`.
Hits(w, leaf, id) ==
  {p \in Depth \X Slot : Matches(w.meta[node_index(p[1], leaf)][p[2]], id)}

FreeSlots(st) == {i \in StashSlot : ~st[i].occupied}

FirstFree(st) == CHOOSE i \in FreeSlots(st) : \A j \in FreeSlots(st) : i <= j

StashCopies(st, id) == {i \in StashSlot : Matches(st[i], id)}

-----------------------------------------------------------------------------
(* Online access.                                                           *)

\* insert_into_stash finds no free slot for the block it was handed.
TakeOverflows(w, leaf, id) == Hits(w, leaf, id) # {} /\ FreeSlots(w.stash) = {}

\* Mutants: the copy on the path stays; its payload is not wiped.
TakeTarget_KeepsTreeCopy(w, leaf, id) ==
  IF Hits(w, leaf, id) = {} THEN w
  ELSE LET p == First(Hits(w, leaf, id))
           n == node_index(p[1], leaf)
           m == w.meta[n][p[2]]
       IN [w EXCEPT !.stash[FirstFree(w.stash)] =
             RealBlock(m.id, m.leaf, w.payload[n][p[2]])]

TakeTarget_KeepsPayload(w, leaf, id) ==
  IF Hits(w, leaf, id) = {} THEN w
  ELSE LET p == First(Hits(w, leaf, id))
           n == node_index(p[1], leaf)
           m == w.meta[n][p[2]]
       IN [w EXCEPT !.meta[n][p[2]] = EmptyMeta,
                    !.stash[FirstFree(w.stash)] =
                      RealBlock(m.id, m.leaf, w.payload[n][p[2]])]

\* Move the first copy of `id` on the path to the first free stash slot and
\* leave a scrubbed dummy in its place.
TakeTarget(w, leaf, id) ==
  IF Hits(w, leaf, id) = {} THEN w
  ELSE LET p == First(Hits(w, leaf, id))
           n == node_index(p[1], leaf)
           m == w.meta[n][p[2]]
       IN [meta    |-> [w.meta EXCEPT ![n][p[2]] = EmptyMeta],
           payload |-> [w.payload EXCEPT ![n][p[2]] = ZeroPayload],
           stash   |-> [w.stash EXCEPT ![FirstFree(w.stash)] =
                          RealBlock(m.id, m.leaf, w.payload[n][p[2]])]]

\* The scan keeps overwriting its output: the last matching slot wins.
StashPayload(st, id) ==
  st[CHOOSE i \in StashCopies(st, id) : \A j \in StashCopies(st, id) : j <= i].payload

\* Mutant: the new payload is lost.
Relabel_DropsPayload(st, id, p, new_leaf) ==
  [i \in StashSlot |->
     IF i \in StashCopies(st, id) THEN [st[i] EXCEPT !.leaf = new_leaf] ELSE st[i]]

\* Every matching slot receives the new payload and the new label.
Relabel(st, id, p, new_leaf) ==
  [i \in StashSlot |->
     IF i \in StashCopies(st, id)
     THEN [st[i] EXCEPT !.payload = p, !.leaf = new_leaf]
     ELSE st[i]]

\* One access to block `id` expected on the path to `leaf`: what it answers and
\* the working set it leaves.
AccessOutcome(w, leaf, id, update, new_leaf) ==
  LET t == TakeTarget(w, leaf, id)
      p == StashPayload(t.stash, id)
  IN IF TakeOverflows(w, leaf, id)
     THEN [reply |-> Err("StashOverflow"), w |-> w]
     ELSE IF StashCopies(t.stash, id) = {}
     THEN [reply |-> Err("BlockNotFound"), w |-> t]
     ELSE [reply |-> Ok(<<p>>),
           w |-> [t EXCEPT !.stash =
                    Relabel(t.stash, id, Apply(update, p), new_leaf)]]

-----------------------------------------------------------------------------
(* Eviction of one path.  The candidates are the stash slots <<-1, i>>      *)
(* followed by the slots <<depth, slot>> of the path: Before is the order    *)
(* in which the plan scans them.                                            *)

Candidate == ({-1} \X StashSlot) \cup (Depth \X Slot)

PlaceOf(leaf, c) == IF c[1] = -1 THEN c ELSE <<node_index(c[1], leaf), c[2]>>

CandidateBlock(w, leaf, c) == BlockIn(w, PlaceOf(leaf, c))

Active(w, leaf) == {c \in Candidate : CandidateBlock(w, leaf, c).occupied}

\* Mutant: the label is compared one level too high.
MayRestAt_ParentLevel(w, leaf, c, depth) ==
  LET d == IF depth = 0 THEN 0 ELSE depth - 1
  IN node_contains_leaf(d, node_index(d, leaf), CandidateBlock(w, leaf, c).leaf % leaves)

\* node_contains_leaf_choice: the label is masked to the leaf range first.
MayRestAt(w, leaf, c, depth) ==
  node_contains_leaf(depth, node_index(depth, leaf),
                     CandidateBlock(w, leaf, c).leaf % leaves)

Rank(c, S) == Cardinality({x \in S : Before(x, c)})

\* Mutant: one slot of every bucket is left unused.
Takes_OneSlotLess(w, leaf, depth, selected) ==
  LET pool == {c \in Active(w, leaf) \ selected : MayRestAt(w, leaf, c, depth)}
  IN {c \in pool : Rank(c, pool) < BucketSize - 1}

\* The bucket at `depth` takes the first BucketSize active candidates that are
\* not selected yet and whose label passes through it.
Takes(w, leaf, depth, selected) ==
  LET pool == {c \in Active(w, leaf) \ selected : MayRestAt(w, leaf, c, depth)}
  IN {c \in pool : Rank(c, pool) < BucketSize}

\* Depths from which buckets are filled, deepest first.
FillDepth(k) == LeafBits - k

\* The candidates selected once the k deepest buckets are filled.
SelectedAfter(w, leaf) ==
  LET sel[k \in Nat] ==
        IF k = 0 THEN {}
        ELSE LET filled == sel[k - 1]
             IN filled \cup Takes(w, leaf, FillDepth(k - 1), filled)
  IN sel

Selected(w, leaf) == SelectedAfter(w, leaf)[height]

Placed(w, leaf, depth) ==
  Takes(w, leaf, depth, SelectedAfter(w, leaf)[LeafBits - depth])

\* The k-th member of S in scan order, or a dummy.
BlockAtRank(w, leaf, S, k) ==
  IF \E c \in S : Rank(c, S) = k
  THEN CandidateBlock(w, leaf, CHOOSE c \in S : Rank(c, S) = k)
  ELSE EmptyBlock

\* Path blocks that found no bucket go back to the stash, in scan order, into
\* the slots that are free once the selected stash blocks are cleared.
Displaced(w, leaf) ==
  {c \in Active(w, leaf) \ Selected(w, leaf) : c[1] # -1}

Vacant(w, leaf) == ({-1} \X StashSlot) \ (Active(w, leaf) \ Selected(w, leaf))

\* Mutant: the slots that the selected stash blocks leave are not counted.
EvictOverflows_FreeOnly(w, leaf) ==
  Cardinality(Displaced(w, leaf)) > Cardinality(FreeSlots(w.stash))

EvictOverflows(w, leaf) ==
  Cardinality(Displaced(w, leaf)) > Cardinality(Vacant(w, leaf))

EvictPath(w, leaf) ==
  LET bucket == [depth \in Depth |->
                   LET S == Placed(w, leaf, depth)
                   IN [slot \in Slot |-> BlockAtRank(w, leaf, S, slot)]]
      displaced == Displaced(w, leaf)
      vacant == Vacant(w, leaf)
      OnPath(n) == \E depth \in Depth : node_index(depth, leaf) = n
      DepthOf(n) == CHOOSE depth \in Depth : node_index(depth, leaf) = n
  IN [meta    |-> [n \in Node |-> IF OnPath(n)
                     THEN [slot \in Slot |-> MetaOf(bucket[DepthOf(n)][slot])]
                     ELSE w.meta[n]],
      payload |-> [n \in Node |-> IF OnPath(n)
                     THEN [slot \in Slot |-> bucket[DepthOf(n)][slot].payload]
                     ELSE w.payload[n]],
      stash   |-> [i \in StashSlot |-> IF <<-1, i>> \in vacant
                     THEN BlockAtRank(w, leaf, displaced, Rank(<<-1, i>>, vacant))
                     ELSE w.stash[i]]]

\* The first k paths of a drain that starts at eviction index `start`; the
\* first failing path ends it.
EvictPaths(w, start) ==
  LET run[k \in Nat] ==
        IF k = 0 THEN [ok |-> TRUE, w |-> w]
        ELSE LET r == run[k - 1]
                 leaf == eviction_leaf_at(start + (k - 1))
             IN IF r.ok /\ ~EvictOverflows(r.w, leaf)
                THEN [ok |-> TRUE, w |-> EvictPath(r.w, leaf)]
                ELSE [ok |-> FALSE, w |-> r.w]
  IN run

-----------------------------------------------------------------------------
(* Trusted build: blocks are placed in id order, each in the deepest bucket *)
(* of its path that still has room, else in the stash (depth -1).           *)

\* Blocks before `id` that rest in the bucket at `depth` on its path.
Earlier(labels, rest, id, depth) ==
  {j \in 0 .. id - 1 : /\ rest[j] = depth
                       /\ node_index(depth, labels[j]) = node_index(depth, labels[id])}

Room(labels, rest, id) ==
  {depth \in Depth : Cardinality(Earlier(labels, rest, id, depth)) < BucketSize}

\* place_initial_meta for every id in turn.
IsInitialPlacement(labels, rest) ==
  \A id \in Id :
    \/ /\ Room(labels, rest, id) = {}
       /\ rest[id] = -1
    \/ /\ rest[id] \in Room(labels, rest, id)
       /\ \A depth \in Room(labels, rest, id) : depth <= rest[id]

\* Block `id` occupies slot `slot` of `node` after the build.
BuiltAt(labels, rest, id, node, slot) ==
  /\ rest[id] # -1
  /\ node = node_index(rest[id], labels[id])
  /\ slot = Cardinality(Earlier(labels, rest, id, rest[id]))

Spilled(rest) == {id \in Id : rest[id] = -1}

\* Block `id` occupies stash slot `i` after the build.
SpilledTo(rest, id, i) ==
  /\ rest[id] = -1
  /\ i = Cardinality({j \in Spilled(rest) : j < id})

\* build_trusted_from_source: random labels, any source contents; it fails
\* when more blocks spill than the stash has slots.
Init ==
  /\ pos_map \in [Id -> Leaf]
  /\ \E rest \in [Id -> -1 .. LeafBits], source \in [Id -> Payloads] :
       /\ IsInitialPlacement(pos_map, rest)
       /\ Cardinality(Spilled(rest)) <= StashCapacity
       /\ meta = [n \in Node |-> [s \in Slot |->
            IF \E id \in Id : BuiltAt(pos_map, rest, id, n, s)
            THEN LET id == CHOOSE id \in Id : BuiltAt(pos_map, rest, id, n, s)
                 IN RealMeta(id, pos_map[id])
            ELSE EmptyMeta]]
       /\ payload = [n \in Node |-> [s \in Slot |->
            IF \E id \in Id : BuiltAt(pos_map, rest, id, n, s)
            THEN source[CHOOSE id \in Id : BuiltAt(pos_map, rest, id, n, s)]
            ELSE ZeroPayload]]
       /\ stash = [i \in StashSlot |->
            IF \E id \in Id : SpilledTo(rest, id, i)
            THEN LET id == CHOOSE id \in Id : SpilledTo(rest, id, i)
                 IN RealBlock(id, pos_map[id], source[id])
            ELSE EmptyBlock]
  /\ issued_accesses = 0
  /\ completed_evictions = 0
  /\ request = <<>>
  /\ reply = Ok(<<>>)

-----------------------------------------------------------------------------
(* The public operations.                                                   *)

SetWorking(w) ==
  /\ meta' = w.meta
  /\ payload' = w.payload
  /\ stash' = w.stash

\* access, and read as access(id, Keep).
access(id, update) ==
  /\ issued_accesses < MaxAccesses
  /\ request' = <<<<id, update>>>>
  /\ \E new_leaf \in Leaf :
       \E r \in {AccessOutcome(Working, pos_map[id], id, update, new_leaf)} :
       /\ SetWorking(r.w)
       /\ reply' = r.reply
       /\ IF r.reply.result = "ok"
          THEN /\ pos_map' = [pos_map EXCEPT ![id] = new_leaf]
               /\ issued_accesses' = issued_accesses + 1
          ELSE UNCHANGED <<pos_map, issued_accesses>>
  /\ UNCHANGED completed_evictions

\* access to a logical id that is out of range.
access_out_of_range ==
  /\ request' = <<>>
  /\ reply' = Err("InvalidInput")
  /\ UNCHANGED <<pos_map, meta, payload, stash, issued_accesses, completed_evictions>>

\* A random path is read and rewritten as it is; the debt grows as for an
\* access.
dummy_access ==
  /\ issued_accesses < MaxAccesses
  /\ request' = <<>>
  /\ issued_accesses' = issued_accesses + 1
  /\ reply' = Ok(<<>>)
  /\ UNCHANGED <<pos_map, meta, payload, stash, completed_evictions>>

\* Mutant: the budget alone decides how many paths are evicted.
ToDrain_IgnoresDebt(budget) == budget

\* The smaller of the budget and the debt.
ToDrain(budget) ==
  IF budget <= Debt(issued_accesses, completed_evictions) THEN budget
  ELSE Debt(issued_accesses, completed_evictions)

\* Paths are evicted in page overlays that are written back together; when one
\* path fails the overlays are dropped, the stash is not restored.
drain_evictions(budget) ==
  /\ request' = <<>>
  /\ \E r \in {EvictPaths(Working, completed_evictions)[ToDrain(budget)]} :
       /\ reply' = IF r.ok THEN Ok(<<>>) ELSE Err("StashOverflow")
       /\ stash' = r.w.stash
       /\ meta' = IF r.ok THEN r.w.meta ELSE meta
       /\ payload' = IF r.ok THEN r.w.payload ELSE payload
       /\ completed_evictions' = IF r.ok THEN completed_evictions + ToDrain(budget)
                                 ELSE completed_evictions
  /\ UNCHANGED <<pos_map, issued_accesses>>

Next ==
  \/ \E id \in Id, update \in Update : access(id, update)
  \/ access_out_of_range
  \/ dummy_access
  \/ \E budget \in 0 .. MaxBudget : drain_evictions(budget)

Spec == Init /\ [][Next]_vars

-----------------------------------------------------------------------------
(* Properties.                                                              *)

Meta  == [occupied : BOOLEAN, id : Id \cup {-1}, leaf : Leaf \cup {-1}]
Block == [occupied : BOOLEAN, id : Id \cup {-1}, leaf : Leaf \cup {-1},
          payload : Payloads \cup {ZeroPayload}]
Reply == [result : {"ok"}, out : {<<>>} \cup {<<p>> : p \in Payloads \cup {ZeroPayload}}]
           \cup {Err(e) : e \in {"InvalidInput", "StashOverflow", "BlockNotFound"}}

\* Every label is a leaf, every bucket has BucketSize slots of well-formed
\* metadata and payload, the stash keeps its fixed capacity (check_stash), and
\* the debt is never negative (pending_evictions).
TypeOK ==
  /\ pos_map \in [Id -> Leaf]
  /\ meta \in [Node -> [Slot -> Meta]]
  /\ payload \in [Node -> [Slot -> Payloads \cup {ZeroPayload}]]
  /\ stash \in [StashSlot -> Block]
  /\ issued_accesses \in Nat
  /\ completed_evictions \in Nat
  /\ completed_evictions <= issued_accesses * EvictionsPerAccess
  /\ request \in {<<>>} \cup {<<c>> : c \in Id \X Update}
  /\ reply \in Reply

Copies(w, id) == {p \in Place : Matches(BlockIn(w, p), id)}

OneCopyIn(w) == \A id \in Id : \E p \in Place : Copies(w, id) = {p}

OnLabelledPathIn(w, labels) ==
  \A p \in Place : BlockIn(w, p).occupied =>
    LET block == BlockIn(w, p)
    IN /\ block.id \in Id
       /\ block.leaf = labels[block.id]
       /\ p[1] # -1 => \E depth \in Depth : node_index(depth, block.leaf) = p[1]

\* No sequence of accesses, dummy accesses, refused calls and evictions loses
\* or duplicates a block: exactly one tree or stash slot holds it.
OneCopy == OneCopyIn(Working)

\* The access path of a block is the path its copy rests on: every occupied
\* slot carries the label of the position map, and a tree slot lies on the
\* path to that label.
OnLabelledPath == OnLabelledPathIn(Working, pos_map)

\* A slot a block was moved out of keeps no residue: not its id, not its label,
\* not its payload.
DummiesScrubbed ==
  \A p \in Place : ~BlockIn(Working, p).occupied => BlockIn(Working, p) = EmptyBlock

\* Filling buckets deepest first never ends with more blocks off the path than
\* the stash can take: evicting any path, from any reachable state, fits.
EvictionFits == \A leaf \in Leaf : ~EvictOverflows(Working, leaf)

StashLen == Cardinality({i \in StashSlot : stash[i].occupied})

\* Only a successful access adds to the stash, and only one block; evictions
\* never leave the stash fuller than they found it.
StashGrowsByAccessOnly ==
  [][StashLen' > StashLen =>
       /\ StashLen' = StashLen + 1
       /\ issued_accesses' = issued_accesses + 1]_vars

\* The logical contents: the payload of the copy of each block.
Contents ==
  [id \in Id |-> BlockIn(Working, CHOOSE p \in Place : Matches(BlockIn(Working, p), id)).payload]

Array == INSTANCE ObliviousArray WITH ArrayId <- Id, mem <- Contents

\* The controller implements the array: accesses return the latest payload and
\* take effect exactly once, everything else leaves the contents alone, and no
\* block is ever reported missing.
ImplementsArray == Array!ArraySpec
=============================================================================

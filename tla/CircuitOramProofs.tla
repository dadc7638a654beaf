------------------------- MODULE CircuitOramProofs --------------------------
(***************************************************************************)
(* The Circuit ORAM controller keeps its types and exactly one copy of     *)
(* every block, on the path to its label, its evictions never overflow the *)
(* stash, and it implements the plain array of ObliviousArray.  The first  *)
(* part is about the eviction of one path: the plan numbers the candidates, *)
(* fills the buckets deepest first, always fits, and moves every block to  *)
(* exactly one place.  The second is about calls, and the third about      *)
(* batches and failing page writes (CircuitOramFaults): a batch is its     *)
(* accesses made one after the other, and after a failed write blocks are  *)
(* answered as they were left or refused.                                  *)
(***************************************************************************)
EXTENDS CircuitOramFaults, TreeLemmas, FunctionTheorems, SequenceTheorems

-----------------------------------------------------------------------------
(* Online access.                                                          *)

\* The tree pages and the stash, well formed.
WorkingSet ==
  [meta    : [Node -> [Slot -> Meta]],
   payload : [Node -> [Slot -> Payloads \cup {ZeroPayload}]],
   stash   : [StashSlot -> Block]]

\* The dummies of MetaSlot::dummy and Block::dummy are well formed.
LEMMA EmptyTypes == EmptyMeta \in Meta /\ EmptyBlock \in Block
  BY DEF EmptyMeta, EmptyBlock, Meta, Block

\* The first hit of a path scan is one of the hits.
LEMMA FirstType ==
  ASSUME NEW S, S \subseteq Depth \X Slot, S # {}
  PROVE  First(S) \in S
<1> USE DEF Depth, Slot
<1> DEFINE D == {p[1] : p \in S}
<1>1. PICK d \in D : \A e \in D : d <= e
  <2>1. D \subseteq Nat /\ D # {} BY ParamsAssumption
  <2> HIDE DEF D
  <2> QED BY <2>1, LeastNatural
<1> DEFINE E == {p[2] : p \in {q \in S : q[1] = d}}
<1>2. PICK s \in E : \A t \in E : s <= t
  <2>1. E \subseteq Nat /\ E # {} BY ParamsAssumption
  <2> HIDE DEF E
  <2> QED BY <2>1, LeastNatural
<1>3. PICK p \in S : p[1] = d /\ p[2] = s OBVIOUS
<1>4. ASSUME NEW q \in S PROVE q = p \/ Before(p, q)
  <2>1. q[1] \in D /\ d <= q[1] BY <1>1
  <2>2. CASE q[1] # d
    <3>1. d \in Int /\ q[1] \in Int BY ParamsAssumption
    <3> QED BY <1>3, <2>1, <2>2, <3>1 DEF Before
  <2>3. CASE q[1] = d
    <3>1. q[2] \in E /\ s <= q[2] BY <1>2, <2>3
    <3>2. s \in Int /\ q[2] \in Int BY ParamsAssumption
    <3>3. q = <<q[1], q[2]>> /\ p = <<p[1], p[2]>> OBVIOUS
    <3> QED BY <1>3, <2>3, <3>1, <3>2, <3>3 DEF Before
  <2> QED BY <2>2, <2>3
<1> QED BY <1>4 DEF First

\* read_and_remove_target_path leaves well-formed pages and a stash of fixed
\* capacity.
LEMMA TakeTargetType ==
  ASSUME NEW w \in WorkingSet, NEW leaf \in Leaf, NEW id \in Id
  PROVE  TakeTarget(w, leaf, id) \in WorkingSet
<1>1. CASE Hits(w, leaf, id) = {} BY <1>1 DEF TakeTarget
<1>2. CASE Hits(w, leaf, id) # {}
  <2> DEFINE p == First(Hits(w, leaf, id))
             n == node_index(p[1], leaf)
             m == w.meta[n][p[2]]
  <2>1. p \in Depth \X Slot
    <3>1. Hits(w, leaf, id) \subseteq Depth \X Slot BY DEF Hits
    <3> QED BY <1>2, <3>1, FirstType
  <2>2. n \in Node BY <2>1, NodeIndexType
  <2>3. p[2] \in Slot BY <2>1
  <2> HIDE DEF p, n
  <2>4. m \in Meta /\ w.payload[n][p[2]] \in Payloads \cup {ZeroPayload}
    BY <2>2, <2>3 DEF WorkingSet
  <2>5. RealBlock(m.id, m.leaf, w.payload[n][p[2]]) \in Block
    BY <2>4 DEF RealBlock, Meta, Block
  <2>6. TakeTarget(w, leaf, id) =
          [meta    |-> [w.meta EXCEPT ![n][p[2]] = EmptyMeta],
           payload |-> [w.payload EXCEPT ![n][p[2]] = ZeroPayload],
           stash   |-> [w.stash EXCEPT ![FirstFree(w.stash)] =
                          RealBlock(m.id, m.leaf, w.payload[n][p[2]])]]
    BY <1>2 DEF TakeTarget, p, n
  <2> DEFINE b == RealBlock(m.id, m.leaf, w.payload[n][p[2]])
             f == FirstFree(w.stash)
  <2> HIDE DEF m, b, f
  <2>7. [w.meta EXCEPT ![n][p[2]] = EmptyMeta] \in [Node -> [Slot -> Meta]]
    BY EmptyTypes DEF WorkingSet
  <2>8. [w.payload EXCEPT ![n][p[2]] = ZeroPayload]
          \in [Node -> [Slot -> Payloads \cup {ZeroPayload}]]
    BY DEF WorkingSet
  <2>9. [w.stash EXCEPT ![f] = b] \in [StashSlot -> Block]
    BY <2>5 DEF WorkingSet, b, m
  <2> QED BY <2>6, <2>7, <2>8, <2>9 DEF WorkingSet, b, f, m
<1> QED BY <1>1, <1>2

\* The payload the stash scan returns is the payload of a stash block.
LEMMA StashPayloadType ==
  ASSUME NEW st \in [StashSlot -> Block], NEW id, StashCopies(st, id) # {}
  PROVE  StashPayload(st, id) \in Payloads \cup {ZeroPayload}
<1> DEFINE S == StashCopies(st, id)
<1>1. S \subseteq 0 .. StashCapacity /\ S \subseteq StashSlot
  BY ParamsAssumption DEF StashCopies, StashSlot
<1>2. StashCapacity \in Nat BY ParamsAssumption
<1>3. PICK x \in S : \A y \in S : y <= x
  <2> HIDE DEF S
  <2> QED BY <1>1, <1>2, GreatestNatural DEF S
<1> DEFINE c == CHOOSE i \in S : \A j \in S : j <= i
<1>4. c \in S BY <1>3
<1>5. st[c] \in Block BY <1>1, <1>4
<1> QED BY <1>5 DEF StashPayload, Block

\* access leaves well-formed pages and stash and returns a legal Result.
LEMMA AccessOutcomeType ==
  ASSUME NEW w \in WorkingSet, NEW leaf \in Leaf, NEW id \in Id,
         NEW update \in Update, NEW new_leaf \in Leaf
  PROVE  /\ AccessOutcome(w, leaf, id, update, new_leaf).w \in WorkingSet
         /\ AccessOutcome(w, leaf, id, update, new_leaf).reply \in Reply
<1> DEFINE t == TakeTarget(w, leaf, id)
           p == StashPayload(t.stash, id)
<1>1. t \in WorkingSet BY TakeTargetType
<1> HIDE DEF t
<1>2. CASE TakeOverflows(w, leaf, id)
  BY <1>2 DEF AccessOutcome, Reply, Err
<1>3. CASE ~TakeOverflows(w, leaf, id) /\ StashCopies(t.stash, id) = {}
  BY <1>1, <1>3 DEF AccessOutcome, Reply, Err, t
<1>4. CASE ~TakeOverflows(w, leaf, id) /\ StashCopies(t.stash, id) # {}
  <2>1. t.stash \in [StashSlot -> Block] BY <1>1 DEF WorkingSet
  <2>2. p \in Payloads \cup {ZeroPayload}
    BY <1>4, <2>1, StashPayloadType
  <2> HIDE DEF p
  <2>3. Apply(update, p) \in Payloads \cup {ZeroPayload}
    BY <2>2 DEF Apply, Update
  <2> DEFINE q == Apply(update, p)
  <2> HIDE DEF q
  <2>4. Relabel(t.stash, id, q, new_leaf) \in [StashSlot -> Block]
    <3>1. ASSUME NEW i \in StashSlot
          PROVE  [t.stash[i] EXCEPT !.payload = q, !.leaf = new_leaf] \in Block
      BY <2>1, <2>3 DEF Block, q
    <3> QED BY <2>1, <3>1 DEF Relabel
  <2> DEFINE o == [t EXCEPT !.stash = Relabel(t.stash, id, q, new_leaf)]
  <2>5. o \in WorkingSet BY <1>1, <2>4 DEF WorkingSet
  <2>6. Ok(<<p>>) \in Reply BY <2>2 DEF Ok, Reply
  <2>7. AccessOutcome(w, leaf, id, update, new_leaf) = [reply |-> Ok(<<p>>), w |-> o]
    BY <1>4 DEF AccessOutcome, p, q, t
  <2> HIDE DEF o
  <2> QED BY <2>5, <2>6, <2>7
<1> QED BY <1>2, <1>3, <1>4

-----------------------------------------------------------------------------
(* Eviction.                                                               *)

\* A candidate of the eviction plan is a stash slot or a slot of the path.
LEMMA CandidateCases ==
  ASSUME NEW c \in Candidate
  PROVE  \/ c[1] = -1 /\ c[2] \in StashSlot
         \/ c[1] \in Depth /\ c[2] \in Slot /\ c[1] # -1
  BY ParamsAssumption DEF Candidate, Depth

\* Every candidate of plan_eviction_placements is a well-formed block.
LEMMA CandidateBlockType ==
  ASSUME NEW w \in WorkingSet, NEW leaf \in Leaf, NEW c \in Candidate
  PROVE  CandidateBlock(w, leaf, c) \in Block
<1>1. CASE c[1] = -1 /\ c[2] \in StashSlot
  BY <1>1 DEF CandidateBlock, BlockIn, PlaceOf, WorkingSet
<1>2. CASE c[1] \in Depth /\ c[2] \in Slot /\ c[1] # -1
  <2> DEFINE n == node_index(c[1], leaf)
  <2>1. n \in Node /\ n # -1 BY <1>2, NodeIndexType DEF Node
  <2>2. PlaceOf(leaf, c) = <<n, c[2]>> BY <1>2 DEF PlaceOf
  <2> HIDE DEF n
  <2>3. w.meta[n][c[2]] \in Meta /\ w.payload[n][c[2]] \in Payloads \cup {ZeroPayload}
    BY <1>2, <2>1 DEF WorkingSet
  <2> QED BY <2>1, <2>2, <2>3 DEF CandidateBlock, BlockIn, Meta, Block
<1> QED BY <1>1, <1>2, CandidateCases

\* What the plan puts into a slot is a well-formed block or a dummy.
LEMMA BlockAtRankType ==
  ASSUME NEW w \in WorkingSet, NEW leaf \in Leaf, NEW S, S \subseteq Candidate, NEW k
  PROVE  BlockAtRank(w, leaf, S, k) \in Block
<1>1. CASE \E c \in S : Rank(c, S) = k
  <2> DEFINE c == CHOOSE c \in S : Rank(c, S) = k
  <2>1. c \in Candidate BY <1>1
  <2>2. BlockAtRank(w, leaf, S, k) = CandidateBlock(w, leaf, c)
    BY <1>1 DEF BlockAtRank
  <2> HIDE DEF c
  <2> QED BY <2>1, <2>2, CandidateBlockType
<1>2. CASE ~\E c \in S : Rank(c, S) = k
  BY <1>2, EmptyTypes DEF BlockAtRank
<1> QED BY <1>1, <1>2

\* The metadata half of a well-formed block is well-formed metadata.
LEMMA MetaOfType == ASSUME NEW b \in Block PROVE MetaOf(b) \in Meta
  BY DEF MetaOf, Meta, Block

\* evict_path_in_overlays leaves well-formed pages and a stash of fixed capacity.
LEMMA EvictPathType ==
  ASSUME NEW w \in WorkingSet, NEW leaf \in Leaf
  PROVE  EvictPath(w, leaf) \in WorkingSet
<1> DEFINE bucket == [depth \in Depth |->
                        LET S == Placed(w, leaf, depth)
                        IN [slot \in Slot |-> BlockAtRank(w, leaf, S, slot)]]
           OnPath(n) == \E depth \in Depth : node_index(depth, leaf) = n
           DepthOf(n) == CHOOSE depth \in Depth : node_index(depth, leaf) = n
           mt == [n \in Node |-> IF OnPath(n)
                     THEN [slot \in Slot |-> MetaOf(bucket[DepthOf(n)][slot])]
                     ELSE w.meta[n]]
           pl == [n \in Node |-> IF OnPath(n)
                     THEN [slot \in Slot |-> bucket[DepthOf(n)][slot].payload]
                     ELSE w.payload[n]]
           ss == [i \in StashSlot |-> IF <<-1, i>> \in Vacant(w, leaf)
                     THEN BlockAtRank(w, leaf, Displaced(w, leaf),
                                      Rank(<<-1, i>>, Vacant(w, leaf)))
                     ELSE w.stash[i]]
<1>1. EvictPath(w, leaf) = [meta |-> mt, payload |-> pl, stash |-> ss]
  BY DEF EvictPath
<1>2. ASSUME NEW depth \in Depth, NEW slot \in Slot
      PROVE  bucket[depth][slot] \in Block
  <2>1. Placed(w, leaf, depth) \subseteq Candidate
    BY DEF Placed, Takes, Active
  <2> QED BY <2>1, BlockAtRankType
<1> HIDE DEF bucket
<1>3. ASSUME NEW n \in Node, OnPath(n) PROVE DepthOf(n) \in Depth
  BY <1>3
<1>4. mt \in [Node -> [Slot -> Meta]]
  <2>1. ASSUME NEW n \in Node, OnPath(n), NEW slot \in Slot
        PROVE  MetaOf(bucket[DepthOf(n)][slot]) \in Meta
    BY <1>2, <1>3, <2>1, MetaOfType
  <2> HIDE DEF OnPath, DepthOf
  <2>2. w.meta \in [Node -> [Slot -> Meta]] BY DEF WorkingSet
  <2> QED BY <2>1, <2>2
<1>5. pl \in [Node -> [Slot -> Payloads \cup {ZeroPayload}]]
  <2>1. ASSUME NEW n \in Node, OnPath(n), NEW slot \in Slot
        PROVE  bucket[DepthOf(n)][slot].payload \in Payloads \cup {ZeroPayload}
    BY <1>2, <1>3, <2>1 DEF Block
  <2> HIDE DEF OnPath, DepthOf
  <2>2. w.payload \in [Node -> [Slot -> Payloads \cup {ZeroPayload}]] BY DEF WorkingSet
  <2> QED BY <2>1, <2>2
<1>6. ss \in [StashSlot -> Block]
  <2>1. Displaced(w, leaf) \subseteq Candidate BY DEF Displaced, Active
  <2>2. \A k : BlockAtRank(w, leaf, Displaced(w, leaf), k) \in Block
    BY <2>1, BlockAtRankType
  <2>3. w.stash \in [StashSlot -> Block] BY DEF WorkingSet
  <2> QED BY <2>2, <2>3
<1> HIDE DEF mt, pl, ss
<1> QED BY <1>1, <1>4, <1>5, <1>6 DEF WorkingSet

\* What a drain can leave.
EvictResult == [ok : BOOLEAN, w : WorkingSet]

\* One iteration of the loop of drain_evictions.
OnePath(r, leaf) ==
  IF r.ok /\ ~EvictOverflows(r.w, leaf)
  THEN [ok |-> TRUE, w |-> EvictPath(r.w, leaf)]
  ELSE [ok |-> FALSE, w |-> r.w]

\* One path of a drain yields a legal result.
LEMMA OnePathType ==
  ASSUME NEW r \in EvictResult, NEW leaf \in Leaf PROVE OnePath(r, leaf) \in EvictResult
<1>1. r.w \in WorkingSet BY DEF EvictResult
<1>2. EvictPath(r.w, leaf) \in WorkingSet BY <1>1, EvictPathType
<1> QED BY <1>1, <1>2 DEF EvictResult, OnePath

\* The loop of drain_evictions: one more path is evicted from what the paths
\* before it left.
LEMMA EvictPathsDef ==
  ASSUME NEW w \in WorkingSet, NEW start \in Nat
  PROVE  /\ EvictPaths(w, start)[0] = [ok |-> TRUE, w |-> w]
         /\ \A k \in Nat : EvictPaths(w, start)[k + 1] =
              OnePath(EvictPaths(w, start)[k], eviction_leaf_at(start + k))
<1> DEFINE step == [x \in Nat \X EvictResult |-> OnePath(x[2], eviction_leaf_at(start + x[1]))]
           a == [ok |-> TRUE, w |-> w]
           run == CHOOSE run : run = [k \in Nat |->
                    IF k = 0 THEN a
                    ELSE OnePath(run[k - 1], eviction_leaf_at(start + (k - 1)))]
<1>1. EvictPaths(w, start) = run
  BY DEF EvictPaths, OnePath
<1>3. step \in Steps(EvictResult)
  <2>1. ASSUME NEW k \in Nat PROVE eviction_leaf_at(start + k) \in Leaf
    BY EvictionLeafType
  <2> QED BY <2>1, OnePathType DEF Steps
<1>4. a \in EvictResult BY DEF EvictResult
<1>5. PICK f : IteratesFrom(f, EvictResult, a, step)
  <2> HIDE DEF step, a
  <2> QED BY <1>3, <1>4, Iteration
<1>6. \A k \in Nat : f[k] \in EvictResult BY <1>5 DEF IteratesFrom
<1>7. f = [k \in Nat |-> IF k = 0 THEN a
                         ELSE OnePath(f[k - 1], eviction_leaf_at(start + (k - 1)))]
  <2>1. ASSUME NEW k \in Nat, k # 0
        PROVE  step[<<k - 1, f[k - 1]>>] = OnePath(f[k - 1], eviction_leaf_at(start + (k - 1)))
    <3>1. k - 1 \in Nat BY <2>1
    <3>2. <<k - 1, f[k - 1]>> \in Nat \X EvictResult BY <1>6, <3>1
    <3> QED BY <3>2
  <2>2. f = [k \in Nat |-> IF k = 0 THEN a ELSE step[<<k - 1, f[k - 1]>>]]
    <3> HIDE DEF step, a
    <3> QED BY <1>5, RecursiveFunction
  <2> HIDE DEF step, a
  <2> QED BY <2>1, <2>2
<1>8. run = [k \in Nat |-> IF k = 0 THEN a
                           ELSE OnePath(run[k - 1], eviction_leaf_at(start + (k - 1)))]
  <2> HIDE DEF a
  <2> QED BY <1>7
<1> HIDE DEF run
<1>9. run[0] = a BY <1>8
<1>10. ASSUME NEW k \in Nat
       PROVE  run[k + 1] = OnePath(run[k], eviction_leaf_at(start + k))
  <2>1. k + 1 \in Nat /\ k + 1 # 0 /\ (k + 1) - 1 = k OBVIOUS
  <2> QED BY <1>8, <2>1
<1> QED BY <1>1, <1>9, <1>10

\* A drain of any length leaves well-formed pages and stash.
LEMMA EvictPathsType ==
  ASSUME NEW w \in WorkingSet, NEW start \in Nat, NEW n \in Nat
  PROVE  EvictPaths(w, start)[n] \in EvictResult
<1> DEFINE run == EvictPaths(w, start)
           P == {k \in Nat : run[k] \in EvictResult}
<1>0. /\ run[0] = [ok |-> TRUE, w |-> w]
      /\ \A k \in Nat : run[k + 1] = OnePath(run[k], eviction_leaf_at(start + k))
  BY EvictPathsDef
<1> HIDE DEF run
<1>1. 0 \in P
  <2>1. [ok |-> TRUE, w |-> w] \in EvictResult BY DEF EvictResult
  <2> QED BY <1>0, <2>1
<1>2. ASSUME NEW k \in Nat, k \in P PROVE k + 1 \in P
  <2>1. run[k + 1] = OnePath(run[k], eviction_leaf_at(start + k)) BY <1>0
  <2>2. eviction_leaf_at(start + k) \in Leaf BY EvictionLeafType
  <2> QED BY <1>2, <2>1, <2>2, OnePathType
<1>3. \A k \in Nat : k \in P
  <2> HIDE DEF P
  <2> QED BY <1>1, <1>2, SetInduction
<1> QED BY <1>3 DEF run

-----------------------------------------------------------------------------
(* The type invariant is inductive.                                        *)

\* One more access adds exactly the eviction rate to the debt.
LEMMA DebtArithmetic ==
  ASSUME NEW a \in Nat, NEW b \in Nat
  PROVE  a * b \in Nat /\ (a + 1) * b = a * b + b
  OBVIOUS

\* build_trusted_from_source establishes the type invariant.
LEMMA TypeInit == Init => TypeOK
<1> SUFFICES ASSUME Init PROVE TypeOK
  OBVIOUS
<1>1. pos_map \in [Id -> Leaf] BY DEF Init
<1>2. PICK rest \in [Id -> -1 .. LeafBits], source \in [Id -> Payloads] :
       /\ meta = [n \in Node |-> [s \in Slot |->
            IF \E id \in Id : BuiltAt(pos_map, rest, id, n, s)
            THEN LET id == CHOOSE id \in Id : BuiltAt(pos_map, rest, id, n, s)
                 IN RealMeta(id, pos_map[id])
            ELSE EmptyMeta]]
       /\ payload = [n \in Node |-> [s \in Slot |->
            IF \E id \in Id : BuiltAt(pos_map, rest, id, n, s)
            THEN source[CHOOSE id \in Id : BuiltAt(pos_map, rest, id, n, s)]
            ELSE ZeroPayload]]
       /\ stash = [i \in StashSlot |->
            IF \E id \in Id : SpilledTo(rest, id, i)
            THEN LET id == CHOOSE id \in Id : SpilledTo(rest, id, i)
                 IN RealBlock(id, pos_map[id], source[id])
            ELSE EmptyBlock]
  BY DEF Init
<1>3. ASSUME NEW id \in Id
      PROVE  /\ RealMeta(id, pos_map[id]) \in Meta
             /\ RealBlock(id, pos_map[id], source[id]) \in Block
  BY <1>1 DEF RealMeta, RealBlock, Meta, Block
<1>4. meta \in [Node -> [Slot -> Meta]]
  <2> DEFINE at(n, s) == CHOOSE id \in Id : BuiltAt(pos_map, rest, id, n, s)
             cell(n, s) == IF \E id \in Id : BuiltAt(pos_map, rest, id, n, s)
                           THEN RealMeta(at(n, s), pos_map[at(n, s)])
                           ELSE EmptyMeta
  <2>1. ASSUME NEW n \in Node, NEW s \in Slot PROVE cell(n, s) \in Meta
    <3>1. CASE \E id \in Id : BuiltAt(pos_map, rest, id, n, s)
      <4>1. at(n, s) \in Id BY <3>1
      <4> HIDE DEF at
      <4> QED BY <1>3, <3>1, <4>1
    <3>2. CASE ~\E id \in Id : BuiltAt(pos_map, rest, id, n, s)
      BY <3>2, EmptyTypes
    <3> QED BY <3>1, <3>2
  <2>2. meta = [n \in Node |-> [s \in Slot |-> cell(n, s)]] BY <1>2
  <2> HIDE DEF cell
  <2> QED BY <2>1, <2>2
<1>5. payload \in [Node -> [Slot -> Payloads \cup {ZeroPayload}]]
  <2> DEFINE at(n, s) == CHOOSE id \in Id : BuiltAt(pos_map, rest, id, n, s)
             cell(n, s) == IF \E id \in Id : BuiltAt(pos_map, rest, id, n, s)
                           THEN source[at(n, s)]
                           ELSE ZeroPayload
  <2>1. ASSUME NEW n \in Node, NEW s \in Slot
        PROVE  cell(n, s) \in Payloads \cup {ZeroPayload}
    <3>1. CASE \E id \in Id : BuiltAt(pos_map, rest, id, n, s)
      <4>1. at(n, s) \in Id BY <3>1
      <4> HIDE DEF at
      <4> QED BY <3>1, <4>1
    <3>2. CASE ~\E id \in Id : BuiltAt(pos_map, rest, id, n, s)
      BY <3>2
    <3> QED BY <3>1, <3>2
  <2>2. payload = [n \in Node |-> [s \in Slot |-> cell(n, s)]] BY <1>2
  <2> HIDE DEF cell
  <2> QED BY <2>1, <2>2
<1>6. stash \in [StashSlot -> Block]
  <2> DEFINE at(i) == CHOOSE id \in Id : SpilledTo(rest, id, i)
             cell(i) == IF \E id \in Id : SpilledTo(rest, id, i)
                        THEN RealBlock(at(i), pos_map[at(i)], source[at(i)])
                        ELSE EmptyBlock
  <2>1. ASSUME NEW i \in StashSlot PROVE cell(i) \in Block
    <3>1. CASE \E id \in Id : SpilledTo(rest, id, i)
      <4>1. at(i) \in Id BY <3>1
      <4> HIDE DEF at
      <4> QED BY <1>3, <3>1, <4>1
    <3>2. CASE ~\E id \in Id : SpilledTo(rest, id, i)
      BY <3>2, EmptyTypes
    <3> QED BY <3>1, <3>2
  <2>2. stash = [i \in StashSlot |-> cell(i)] BY <1>2
  <2> HIDE DEF cell
  <2> QED BY <2>1, <2>2
<1>7. /\ issued_accesses = 0
      /\ completed_evictions = 0
      /\ request = <<>>
      /\ reply = Ok(<<>>)
  BY DEF Init
<1>8. 0 <= 0 * EvictionsPerAccess BY RateAssumption
<1>9. reply \in Reply BY <1>7 DEF Reply, Ok
<1> QED BY <1>1, <1>4, <1>5, <1>6, <1>7, <1>8, <1>9 DEF TypeOK

\* The part of the type invariant that says nothing of the last call.
StateTypes ==
  /\ pos_map \in [Id -> Leaf]
  /\ meta \in [Node -> [Slot -> Meta]]
  /\ payload \in [Node -> [Slot -> Payloads \cup {ZeroPayload}]]
  /\ stash \in [StashSlot -> Block]
  /\ issued_accesses \in Nat
  /\ completed_evictions \in Nat
  /\ completed_evictions <= issued_accesses * EvictionsPerAccess

\* The controller state is a working set in every state of the right type.
LEMMA WorkingType == StateTypes => Working \in WorkingSet
  BY DEF StateTypes, Working, WorkingSet

\* Every public operation preserves the type invariant, whatever the last call
\* was.
LEMMA NextTypes == StateTypes /\ Next => TypeOK'
<1> SUFFICES ASSUME StateTypes, Next PROVE TypeOK'
  OBVIOUS
<1>1. Working \in WorkingSet BY WorkingType
<1>2. ASSUME NEW id \in Id, NEW update \in Update, access(id, update) PROVE TypeOK'
  <2>1. PICK new_leaf \in Leaf :
          LET r == AccessOutcome(Working, pos_map[id], id, update, new_leaf)
          IN /\ SetWorking(r.w)
             /\ reply' = r.reply
             /\ IF r.reply.result = "ok"
                THEN /\ pos_map' = [pos_map EXCEPT ![id] = new_leaf]
                     /\ issued_accesses' = issued_accesses + 1
                ELSE UNCHANGED <<pos_map, issued_accesses>>
    BY <1>2 DEF access
  <2> DEFINE r == AccessOutcome(Working, pos_map[id], id, update, new_leaf)
  <2>2. r.w \in WorkingSet /\ r.reply \in Reply
    <3>1. pos_map[id] \in Leaf BY DEF StateTypes
    <3> QED BY <1>1, <3>1, AccessOutcomeType
  <2> HIDE DEF r
  <2>3. /\ meta' \in [Node -> [Slot -> Meta]]
        /\ payload' \in [Node -> [Slot -> Payloads \cup {ZeroPayload}]]
        /\ stash' \in [StashSlot -> Block]
    BY <2>1, <2>2 DEF SetWorking, WorkingSet, r
  <2>4. pos_map' \in [Id -> Leaf] BY <2>1 DEF StateTypes, r
  <2>5. issued_accesses' \in {issued_accesses, issued_accesses + 1}
    BY <2>1 DEF r
  <2>6. completed_evictions' <= issued_accesses' * EvictionsPerAccess
    <3>1. completed_evictions' = completed_evictions BY <1>2 DEF access
    <3>2. /\ issued_accesses * EvictionsPerAccess \in Nat
          /\ (issued_accesses + 1) * EvictionsPerAccess
               = issued_accesses * EvictionsPerAccess + EvictionsPerAccess
      BY DebtArithmetic, RateAssumption DEF StateTypes
    <3>3. CASE issued_accesses' = issued_accesses BY <3>1, <3>3 DEF StateTypes
    <3>4. CASE issued_accesses' = issued_accesses + 1
      BY <3>1, <3>2, <3>4, RateAssumption DEF StateTypes
    <3> QED BY <2>5, <3>3, <3>4
  <2>7. reply' \in Reply BY <2>1, <2>2 DEF r
  <2>8. request' \in {<<>>} \cup {<<c>> : c \in Id \X Update}
    <3>1. <<id, update>> \in Id \X Update OBVIOUS
    <3> QED BY <1>2, <3>1 DEF access
  <2>9. completed_evictions' \in Nat /\ issued_accesses' \in Nat
    BY <1>2, <2>5 DEF access, StateTypes
  <2> QED BY <2>3, <2>4, <2>6, <2>7, <2>8, <2>9 DEF TypeOK, StateTypes
<1>3. CASE access_out_of_range
  <2>1. reply' \in Reply BY <1>3 DEF access_out_of_range, Reply, Err
  <2> QED BY <1>3, <2>1 DEF access_out_of_range, TypeOK, StateTypes
<1>4. CASE dummy_access
  <2>1. reply' \in Reply BY <1>4 DEF dummy_access, Reply, Ok
  <2>2. completed_evictions' <= issued_accesses' * EvictionsPerAccess
    BY <1>4, DebtArithmetic, RateAssumption DEF dummy_access, StateTypes
  <2> QED BY <1>4, <2>1, <2>2 DEF dummy_access, TypeOK, StateTypes
<1>5. ASSUME NEW budget \in 0 .. MaxBudget, drain_evictions(budget) PROVE TypeOK'
  <2> DEFINE r == EvictPaths(Working, completed_evictions)[ToDrain(budget)]
  <2>1. issued_accesses * EvictionsPerAccess \in Nat
    BY DebtArithmetic, RateAssumption DEF StateTypes
  <2>2. /\ ToDrain(budget) \in Nat
        /\ completed_evictions + ToDrain(budget) <= issued_accesses * EvictionsPerAccess
    BY <2>1, CircuitAssumption DEF ToDrain, Debt, StateTypes
  <2>3. r \in EvictResult BY <1>1, <2>2, EvictPathsType DEF StateTypes
  <2>4. /\ reply' = IF r.ok THEN Ok(<<>>) ELSE Err("StashOverflow")
        /\ stash' = r.w.stash
        /\ meta' = IF r.ok THEN r.w.meta ELSE meta
        /\ payload' = IF r.ok THEN r.w.payload ELSE payload
        /\ completed_evictions' = IF r.ok THEN completed_evictions + ToDrain(budget)
                                  ELSE completed_evictions
        /\ request' = <<>>
        /\ UNCHANGED <<pos_map, issued_accesses>>
    BY <1>5 DEF drain_evictions
  <2> HIDE DEF r
  <2>5. /\ meta' \in [Node -> [Slot -> Meta]]
        /\ payload' \in [Node -> [Slot -> Payloads \cup {ZeroPayload}]]
        /\ stash' \in [StashSlot -> Block]
    BY <2>3, <2>4 DEF EvictResult, WorkingSet, StateTypes
  <2>6. reply' \in Reply BY <2>4 DEF Reply, Ok, Err
  <2>7. /\ completed_evictions' \in Nat
        /\ completed_evictions' <= issued_accesses' * EvictionsPerAccess
    BY <2>2, <2>4 DEF StateTypes
  <2> QED BY <2>4, <2>5, <2>6, <2>7 DEF TypeOK, StateTypes
<1> QED BY <1>2, <1>3, <1>4, <1>5 DEF Next

\* Every step preserves the type invariant.
LEMMA TypeStep == TypeOK /\ [Next]_vars => TypeOK'
<1> SUFFICES ASSUME TypeOK, [Next]_vars PROVE TypeOK'
  OBVIOUS
<1>1. CASE Next
  <2>1. StateTypes BY DEF TypeOK, StateTypes
  <2> QED BY <1>1, <2>1, NextTypes
<1>2. CASE UNCHANGED vars
  BY <1>2 DEF vars, TypeOK
<1> QED BY <1>1, <1>2

\* Every label stays a leaf, pages and stash stay well formed and of fixed size
\* (check_stash), and the debt never goes negative, so pending_evictions never
\* fails: for every tree, bucket size, stash capacity and eviction rate.
THEOREM TypeCorrect == Spec => []TypeOK
  BY TypeInit, TypeStep, PTL DEF Spec

-----------------------------------------------------------------------------
(* Ranks: the scan order numbers any set of candidates.                    *)

\* Candidates are pairs of integers, ordered by Before.
LEMMA CandidateInts ==
  ASSUME NEW c \in Candidate
  PROVE  c[1] \in Int /\ c[2] \in Int /\ c = <<c[1], c[2]>>
  BY ParamsAssumption DEF Candidate, Depth, Slot, StashSlot

\* The scan order of the eviction plan is a strict total order.
LEMMA BeforeOrder ==
  ASSUME NEW c \in Candidate, NEW d \in Candidate, NEW e \in Candidate
  PROVE  /\ ~Before(c, c)
         /\ c = d \/ Before(c, d) \/ Before(d, c)
         /\ Before(c, d) /\ Before(d, e) => Before(c, e)
  BY CandidateInts DEF Before

\* eviction_candidate_count: the plan scans finitely many candidates.
LEMMA CandidateFinite == IsFiniteSet(Candidate)
<1>1. IsFiniteSet({-1}) BY FS_Singleton
<1>2. IsFiniteSet(StashSlot) /\ IsFiniteSet(Depth) /\ IsFiniteSet(Slot)
  <2>1. /\ 0 \in Int /\ StashCapacity - 1 \in Int
        /\ LeafBits \in Int /\ BucketSize - 1 \in Int
    BY ParamsAssumption
  <2> QED BY <2>1, FS_Interval DEF StashSlot, Depth, Slot
<1>3. IsFiniteSet({-1} \X StashSlot) /\ IsFiniteSet(Depth \X Slot)
  BY <1>1, <1>2, FS_Product
<1> QED BY <1>3, FS_Union DEF Candidate

\* Any set of candidates is finite.
LEMMA CandidatesFinite ==
  ASSUME NEW S, S \subseteq Candidate
  PROVE  IsFiniteSet(S) /\ Cardinality(S) \in Nat
  BY CandidateFinite, FS_Subset, FS_CardinalityType

\* The cardinality of a subset, as later proofs use it.
LEMMA SubsetCardinality ==
  ASSUME NEW S, IsFiniteSet(S), NEW T, T \subseteq S
  PROVE  /\ IsFiniteSet(T)
         /\ Cardinality(T) \in Nat /\ Cardinality(S) \in Nat
         /\ Cardinality(T) <= Cardinality(S)
         /\ Cardinality(S) = Cardinality(T) => S = T
  BY FS_Subset, FS_CardinalityType

\* A rank is a natural number.
LEMMA RankType ==
  ASSUME NEW S, S \subseteq Candidate, NEW c
  PROVE  Rank(c, S) \in Nat
<1>1. {x \in S : Before(x, c)} \subseteq Candidate OBVIOUS
<1> QED BY <1>1, CandidatesFinite DEF Rank

\* A later candidate has a larger rank.
LEMMA RankStrict ==
  ASSUME NEW S, S \subseteq Candidate, NEW c \in S, NEW d \in Candidate, Before(c, d)
  PROVE  Rank(c, S) < Rank(d, S)
<1> DEFINE B == {x \in S : Before(x, c)}
           D == {x \in S : Before(x, d)}
<1>1. IsFiniteSet(B) /\ IsFiniteSet(D) /\ Cardinality(B) \in Nat /\ Cardinality(D) \in Nat
  <2>1. B \subseteq Candidate /\ D \subseteq Candidate OBVIOUS
  <2> QED BY <2>1, CandidatesFinite
<1>2. c \notin B BY BeforeOrder
<1>3. B \cup {c} \subseteq D
  <2>1. ASSUME NEW x \in B PROVE x \in D
    BY BeforeOrder
  <2> QED BY <2>1
<1> HIDE DEF B, D
<1>4. Cardinality(B \cup {c}) = Cardinality(B) + 1 BY <1>1, <1>2, FS_AddElement
<1>5. Cardinality(B \cup {c}) <= Cardinality(D) BY <1>1, <1>3, SubsetCardinality
<1>6. Cardinality(B) < Cardinality(D) BY <1>1, <1>4, <1>5
<1> QED BY <1>6 DEF Rank, B, D

\* Two members of a set of candidates never have the same rank.
LEMMA RankInjective ==
  ASSUME NEW S, S \subseteq Candidate, NEW c \in S, NEW d \in S, Rank(c, S) = Rank(d, S)
  PROVE  c = d
<1>1. Rank(c, S) \in Nat /\ Rank(d, S) \in Nat BY RankType
<1>2. ~Before(c, d) BY <1>1, RankStrict
<1>3. ~Before(d, c) BY <1>1, RankStrict
<1> QED BY <1>2, <1>3, BeforeOrder

\* Ranks in a set of n candidates stay below n.
LEMMA RankBound ==
  ASSUME NEW S, S \subseteq Candidate, NEW c \in S
  PROVE  Rank(c, S) < Cardinality(S)
<1> DEFINE B == {x \in S : Before(x, c)}
<1>1. IsFiniteSet(S) /\ IsFiniteSet(B) /\ Cardinality(B) \in Nat
  <2>1. B \subseteq Candidate OBVIOUS
  <2> QED BY <2>1, CandidatesFinite
<1>2. c \notin B /\ B \cup {c} \subseteq S BY BeforeOrder
<1> HIDE DEF B
<1>3. Cardinality(B \cup {c}) = Cardinality(B) + 1 BY <1>1, <1>2, FS_AddElement
<1>4. Cardinality(B \cup {c}) <= Cardinality(S) BY <1>1, <1>2, SubsetCardinality
<1>5. Cardinality(S) \in Nat BY <1>1, FS_CardinalityType
<1>6. Cardinality(B) < Cardinality(S) BY <1>1, <1>3, <1>4, <1>5
<1> QED BY <1>6 DEF Rank, B

\* Every number below n is the rank of some member: ranks number the set.
LEMMA RankOnto ==
  ASSUME NEW S, S \subseteq Candidate, NEW k \in Nat, k < Cardinality(S)
  PROVE  \E c \in S : Rank(c, S) = k
<1> DEFINE n == Cardinality(S)
           T == 0 .. n - 1
           f == [c \in S |-> Rank(c, S)]
<1>1. IsFiniteSet(S) /\ n \in Nat BY CandidatesFinite
<1> HIDE DEF n
<1>2. f \in [S -> T]
  <2>1. ASSUME NEW c \in S PROVE Rank(c, S) \in T
    BY <1>1, RankType, RankBound DEF n
  <2> QED BY <2>1
<1>3. \A c, d \in S : f[c] = f[d] => c = d
  BY RankInjective
<1>4. IsFiniteSet(T) /\ Cardinality(T) = n
  <2>1. 0 \in Int /\ n - 1 \in Int BY <1>1
  <2>2. IsFiniteSet(T) /\ Cardinality(T) = IF 0 > n - 1 THEN 0 ELSE (n - 1) - 0 + 1
    BY <2>1, FS_Interval
  <2> QED BY <1>1, <2>2
<1>5. k \in T BY <1>1 DEF n
<1> HIDE DEF f, T
<1>6. f \in Injection(S, T) BY <1>2, <1>3, Fun_IsInj
<1>7. f \in Surjection(S, T) BY <1>4, <1>6, FS_Injection DEF n
<1>8. PICK c \in S : f[c] = k BY <1>5, <1>7, Fun_SurjectionProperties
<1> QED BY <1>8 DEF f

\* The first z members of S, in scan order.
FirstRanks(S, z) == {c \in S : Rank(c, S) < z}

\* The first z members of a set are all of it or exactly z.
LEMMA FirstRanksCount ==
  ASSUME NEW S, S \subseteq Candidate, NEW z \in Nat
  PROVE  \/ FirstRanks(S, z) = S
         \/ Cardinality(FirstRanks(S, z)) = z
<1> DEFINE F == FirstRanks(S, z)
<1>1. F \subseteq S /\ F \subseteq Candidate BY DEF FirstRanks
<1>2. IsFiniteSet(S) /\ Cardinality(S) \in Nat /\ IsFiniteSet(F) /\ Cardinality(F) \in Nat
  BY <1>1, CandidatesFinite
<1>3. CASE Cardinality(S) <= z
  <2>1. ASSUME NEW c \in S PROVE c \in F
    <3>1. Rank(c, S) \in Nat /\ Rank(c, S) < Cardinality(S) BY RankType, RankBound
    <3> QED BY <1>2, <1>3, <3>1 DEF FirstRanks
  <2> QED BY <1>1, <2>1
<1>4. CASE z < Cardinality(S)
  <2> DEFINE T == 0 .. z - 1
             f == [c \in F |-> Rank(c, S)]
  <2>1. f \in [F -> T]
    <3>1. ASSUME NEW c \in F PROVE Rank(c, S) \in T
      BY RankType DEF FirstRanks
    <3> QED BY <3>1
  <2>2. \A c, d \in F : f[c] = f[d] => c = d
    BY <1>1, RankInjective
  <2>3. ASSUME NEW t \in T PROVE \E c \in F : f[c] = t
    <3>1. t \in Nat /\ t < Cardinality(S) /\ t < z BY <1>2, <1>4
    <3>2. PICK c \in S : Rank(c, S) = t BY <3>1, RankOnto
    <3>3. c \in F BY <3>1, <3>2 DEF FirstRanks
    <3> QED BY <3>2, <3>3
  <2>4. IsFiniteSet(T) /\ Cardinality(T) = z
    <3>1. 0 \in Int /\ z - 1 \in Int OBVIOUS
    <3>2. IsFiniteSet(T) /\ Cardinality(T) = IF 0 > z - 1 THEN 0 ELSE (z - 1) - 0 + 1
      BY <3>1, FS_Interval
    <3> QED BY <3>2
  <2> HIDE DEF f, T
  <2>5. f \in Bijection(F, T) BY <2>1, <2>2, <2>3, Fun_IsBij
  <2>6. ExistsBijection(F, T) BY <2>5, Fun_ExistsBij
  <2>7. Cardinality(T) = Cardinality(F) BY <1>2, <2>6, FS_Bijection
  <2> QED BY <2>4, <2>7
<1> QED BY <1>2, <1>3, <1>4

-----------------------------------------------------------------------------
(* Deepest-first filling always fits.                                      *)

\* The bucket at `depth` takes its candidates from this pool.
Pool(w, leaf, depth, selected) ==
  {c \in Active(w, leaf) \ selected : MayRestAt(w, leaf, c, depth)}

\* A bucket takes the first BucketSize members of its pool.
LEMMA TakesIsFirstRanks ==
  ASSUME NEW w, NEW leaf, NEW depth, NEW selected
  PROVE  /\ Takes(w, leaf, depth, selected)
              = FirstRanks(Pool(w, leaf, depth, selected), BucketSize)
         /\ Pool(w, leaf, depth, selected) \subseteq Candidate
  BY DEF Takes, Pool, FirstRanks, Active

\* The selection loop of plan_eviction_placements, level by level.
LEMMA SelectedAfterDef ==
  ASSUME NEW w, NEW leaf
  PROVE  /\ SelectedAfter(w, leaf)[0] = {}
         /\ \A k \in Nat : SelectedAfter(w, leaf)[k + 1] =
              SelectedAfter(w, leaf)[k]
                \cup Takes(w, leaf, FillDepth(k), SelectedAfter(w, leaf)[k])
<1> DEFINE More(k, s) == s \cup Takes(w, leaf, FillDepth(k), s)
           step == [x \in Nat \X SUBSET Candidate |-> More(x[1], x[2])]
           sel == CHOOSE sel : sel = [k \in Nat |->
                    IF k = 0 THEN {} ELSE More(k - 1, sel[k - 1])]
<1>1. SelectedAfter(w, leaf) = sel BY DEF SelectedAfter
<1>2. ASSUME NEW k \in Nat, NEW s \in SUBSET Candidate PROVE More(k, s) \in SUBSET Candidate
  BY DEF Takes, Active
<1> HIDE DEF More
<1>3. step \in Steps(SUBSET Candidate) BY <1>2 DEF Steps
<1>4. PICK f : IteratesFrom(f, SUBSET Candidate, {}, step)
  <2> HIDE DEF step
  <2> QED BY <1>3, Iteration
<1>5. f = [k \in Nat |-> IF k = 0 THEN {} ELSE More(k - 1, f[k - 1])]
  <2>1. ASSUME NEW k \in Nat, k # 0
        PROVE  step[<<k - 1, f[k - 1]>>] = More(k - 1, f[k - 1])
    <3>1. k - 1 \in Nat BY <2>1
    <3>2. <<k - 1, f[k - 1]>> \in Nat \X SUBSET Candidate BY <1>4, <3>1 DEF IteratesFrom
    <3> QED BY <3>2
  <2> HIDE DEF step
  <2>2. f = [k \in Nat |-> IF k = 0 THEN {} ELSE step[<<k - 1, f[k - 1]>>]]
    BY <1>4, RecursiveFunction
  <2> QED BY <2>1, <2>2
<1>6. sel = [k \in Nat |-> IF k = 0 THEN {} ELSE More(k - 1, sel[k - 1])]
  BY <1>5
<1> HIDE DEF sel
<1>7. ASSUME NEW k \in Nat PROVE sel[k + 1] = More(k, sel[k])
  <2>1. k + 1 \in Nat /\ k + 1 # 0 /\ (k + 1) - 1 = k OBVIOUS
  <2> QED BY <1>6, <2>1
<1>8. sel[0] = {} BY <1>6
<1> QED BY <1>1, <1>7, <1>8 DEF More

\* Only occupied candidates are ever selected.
LEMMA SelectedActive ==
  ASSUME NEW w, NEW leaf, NEW k \in Nat
  PROVE  SelectedAfter(w, leaf)[k] \subseteq Active(w, leaf)
<1> DEFINE P == {n \in Nat : SelectedAfter(w, leaf)[n] \subseteq Active(w, leaf)}
<1>1. 0 \in P BY SelectedAfterDef
<1>2. ASSUME NEW n \in Nat, n \in P PROVE n + 1 \in P
  <2>1. Takes(w, leaf, FillDepth(n), SelectedAfter(w, leaf)[n]) \subseteq Active(w, leaf)
    BY DEF Takes
  <2> QED BY <1>2, <2>1, SelectedAfterDef
<1>3. \A n \in Nat : n \in P
  <2> HIDE DEF P
  <2> QED BY <1>1, <1>2, SetInduction
<1> QED BY <1>3

\* A block that rests on the path to its label may rest in every bucket of the
\* path above its own (node_contains_leaf_choice).
LEMMA PathBlockMayRise ==
  ASSUME NEW labels \in [Id -> Leaf], NEW w \in WorkingSet, OnLabelledPathIn(w, labels),
         NEW leaf \in Leaf, NEW c \in Active(w, leaf), c[1] # -1,
         NEW d \in Depth, d <= c[1]
  PROVE  MayRestAt(w, leaf, c, d)
<1>1. c[1] \in Depth /\ c[2] \in Slot BY CandidateCases DEF Active
<1> DEFINE b == CandidateBlock(w, leaf, c)
           p == <<node_index(c[1], leaf), c[2]>>
<1>2. p \in Place /\ p[1] # -1 BY <1>1, NodeIndexType DEF Place, Node
<1>3. b = BlockIn(w, p) BY DEF CandidateBlock, PlaceOf
<1>4. b.occupied BY DEF Active
<1> HIDE DEF b
<1>5. /\ b.id \in Id
      /\ b.leaf = labels[b.id]
      /\ \E depth \in Depth : node_index(depth, b.leaf) = p[1]
  BY <1>2, <1>3, <1>4 DEF OnLabelledPathIn
<1>6. b.leaf \in Leaf BY <1>5
<1>7. PICK e \in Depth : node_index(e, b.leaf) = node_index(c[1], leaf) BY <1>5
<1>8. e = c[1] BY <1>1, <1>6, <1>7, LevelsDisjoint
<1>9. node_index(d, b.leaf) = node_index(d, leaf) BY <1>1, <1>6, <1>7, <1>8, SharedPrefix
<1>10. b.leaf % leaves = b.leaf BY <1>6, LeavesType DEF Leaf
<1> QED BY <1>9, <1>10 DEF MayRestAt, node_contains_leaf, b

\* Blocks in the k deepest buckets of the path.
Deepest(w, leaf, k) == {c \in Active(w, leaf) : c[1] # -1 /\ c[1] >= height - k}

\* A bucket holds at most BucketSize blocks.
LEMMA BucketBound ==
  ASSUME NEW d \in Int, NEW S, S \subseteq {d} \X Slot
  PROVE  IsFiniteSet(S) /\ Cardinality(S) <= BucketSize /\ Cardinality(S) \in Nat
<1>1. IsFiniteSet({d}) /\ Cardinality({d}) = 1 BY FS_Singleton
<1>2. IsFiniteSet(Slot) /\ Cardinality(Slot) = BucketSize
  <2>1. 0 \in Int /\ BucketSize - 1 \in Int /\ BucketSize >= 1 BY ParamsAssumption
  <2>2. IsFiniteSet(Slot) /\ Cardinality(Slot) = IF 0 > BucketSize - 1 THEN 0
                                                  ELSE (BucketSize - 1) - 0 + 1
    BY <2>1, FS_Interval DEF Slot
  <2> QED BY <2>1, <2>2, ParamsAssumption
<1>3. IsFiniteSet({d} \X Slot) /\ Cardinality({d} \X Slot) = 1 * BucketSize
  BY <1>1, <1>2, FS_Product
<1>4. 1 * BucketSize = BucketSize BY ParamsAssumption
<1> QED BY <1>3, <1>4, SubsetCardinality

\* Filling the k deepest buckets greedily selects at least as many blocks as
\* rested in them: the invariant of the loop of plan_eviction_placements.
LEMMA GreedySelectsEnough ==
  ASSUME NEW labels \in [Id -> Leaf], NEW w \in WorkingSet, OnLabelledPathIn(w, labels),
         NEW leaf \in Leaf
  PROVE  \A k \in Nat : k <= height =>
           Cardinality(Deepest(w, leaf, k)) <= Cardinality(SelectedAfter(w, leaf)[k])
<1> DEFINE Sel(k) == SelectedAfter(w, leaf)[k]
           Deep(k) == Deepest(w, leaf, k)
           P == {k \in Nat : k <= height => Cardinality(Deep(k)) <= Cardinality(Sel(k))}
<1>0. LeafBits \in Nat /\ height = LeafBits + 1 BY ParamsAssumption DEF height
<1>1. ASSUME NEW k \in Nat
      PROVE  /\ Sel(k) \subseteq Candidate /\ IsFiniteSet(Sel(k)) /\ Cardinality(Sel(k)) \in Nat
             /\ Deep(k) \subseteq Candidate /\ IsFiniteSet(Deep(k)) /\ Cardinality(Deep(k)) \in Nat
  <2>1. Sel(k) \subseteq Candidate BY SelectedActive DEF Active
  <2>2. Deep(k) \subseteq Candidate BY DEF Deepest, Active
  <2> QED BY <2>1, <2>2, CandidatesFinite
<1>2. 0 \in P
  <2>1. Deep(0) = {}
    <3>1. ASSUME NEW c \in Deep(0) PROVE FALSE
      <4>1. c \in Candidate /\ c[1] # -1 /\ c[1] >= height - 0 BY DEF Deepest, Active
      <4>2. c[1] \in 0 .. LeafBits BY <4>1, CandidateCases DEF Depth
      <4> QED BY <1>0, <4>1, <4>2
    <3> QED BY <3>1
  <2>2. Sel(0) = {} BY SelectedAfterDef
  <2>3. Cardinality({}) = 0 BY FS_EmptySet
  <2> QED BY <2>1, <2>2, <2>3
<1>3. ASSUME NEW k \in Nat, k \in P PROVE k + 1 \in P
  <2>1. SUFFICES ASSUME k + 1 <= height
                 PROVE  Cardinality(Deep(k + 1)) <= Cardinality(Sel(k + 1))
    OBVIOUS
  <2> DEFINE d == LeafBits - k
             pool == Pool(w, leaf, d, Sel(k))
             T == Takes(w, leaf, d, Sel(k))
             level == {c \in Active(w, leaf) : c[1] = d}
  <2>2. d \in Depth /\ d \in Int /\ d # -1 BY <1>0, <2>1 DEF Depth
  <2>3. Cardinality(Deep(k)) <= Cardinality(Sel(k))
    <3>1. k <= height BY <1>0, <2>1
    <3> QED BY <1>3, <3>1
  <2>4. Sel(k + 1) = Sel(k) \cup T BY SelectedAfterDef DEF FillDepth
  <2>5. Deep(k + 1) = Deep(k) \cup level
    <3>1. ASSUME NEW c \in Active(w, leaf)
          PROVE  (c[1] # -1 /\ c[1] >= height - (k + 1))
                   <=> (c[1] # -1 /\ c[1] >= height - k) \/ c[1] = d
      <4>1. c[1] \in Int BY CandidateInts DEF Active
      <4> QED BY <1>0, <2>2, <4>1
    <3> QED BY <3>1 DEF Deepest
  <2>6. IsFiniteSet(level) /\ Cardinality(level) <= BucketSize /\ Cardinality(level) \in Nat
    <3>1. level \subseteq {d} \X Slot
      <4>1. ASSUME NEW c \in level PROVE c \in {d} \X Slot
        <5>1. c \in Candidate /\ c[1] = d BY DEF Active
        <5>2. c[2] \in Slot /\ c = <<c[1], c[2]>> BY <2>2, <5>1, CandidateCases, CandidateInts
        <5> QED BY <5>1, <5>2
      <4> QED BY <4>1
    <3> QED BY <2>2, <3>1, BucketBound
  <2>7. T = FirstRanks(pool, BucketSize) /\ pool \subseteq Candidate
    BY TakesIsFirstRanks
  <2>8. k + 1 \in Nat /\ BucketSize \in Nat BY ParamsAssumption
  <2> HIDE DEF P, Sel, Deep, T, level
  <2>9. CASE T = pool
    <3>1. ASSUME NEW c \in Deep(k + 1) PROVE c \in Sel(k + 1)
      <4>1. c \in Active(w, leaf) /\ c[1] # -1 /\ c[1] >= d
        <5>1. c \in Active(w, leaf) /\ c[1] # -1 /\ c[1] >= height - (k + 1)
          BY DEF Deep, Deepest
        <5> QED BY <1>0, <5>1
      <4>2. d <= c[1]
        <5>1. c[1] \in Int BY <4>1, CandidateInts DEF Active
        <5> QED BY <2>2, <4>1, <5>1
      <4>3. MayRestAt(w, leaf, c, d) BY <2>2, <4>1, <4>2, PathBlockMayRise
      <4>4. c \in Sel(k) \/ c \in pool BY <4>1, <4>3 DEF Pool
      <4> QED BY <2>4, <2>9, <4>4
    <3>2. Deep(k + 1) \subseteq Sel(k + 1) BY <3>1
    <3> QED BY <1>1, <2>8, <3>2, SubsetCardinality
  <2>10. CASE Cardinality(T) = BucketSize
    <3>1. IsFiniteSet(T) /\ T \cap Sel(k) = {}
      <4>1. T \subseteq pool BY <2>7 DEF FirstRanks
      <4> QED BY <2>7, <4>1, CandidatesFinite DEF Pool
    <3>2. Cardinality(Sel(k) \cup T) = Cardinality(Sel(k)) + BucketSize
      <4>1. Cardinality(Sel(k) \cup T)
              = Cardinality(Sel(k)) + Cardinality(T) - Cardinality(Sel(k) \cap T)
        BY <1>1, <3>1, FS_Union
      <4>2. Cardinality(Sel(k) \cap T) = 0
        <5>1. Sel(k) \cap T = {} BY <3>1
        <5> QED BY <5>1, FS_EmptySet
      <4> QED BY <1>1, <2>8, <2>10, <4>1, <4>2
    <3>3. Cardinality(Deep(k) \cup level) <= Cardinality(Deep(k)) + BucketSize
      <4>1. Cardinality(Deep(k) \cup level)
              = Cardinality(Deep(k)) + Cardinality(level) - Cardinality(Deep(k) \cap level)
        BY <1>1, <2>6, FS_Union
      <4>2. Cardinality(Deep(k) \cap level) \in Nat
        <5>1. IsFiniteSet(Deep(k) \cap level) BY <1>1, FS_Intersection
        <5> QED BY <5>1, FS_CardinalityType
      <4> QED BY <1>1, <2>6, <2>8, <4>1, <4>2
    <3>4. Cardinality(Deep(k + 1)) \in Nat /\ Cardinality(Sel(k + 1)) \in Nat BY <1>1, <2>8
    <3>5. Cardinality(Deep(k)) \in Nat /\ Cardinality(Sel(k)) \in Nat BY <1>1
    <3>6. Cardinality(Sel(k + 1)) = Cardinality(Sel(k)) + BucketSize BY <2>4, <3>2
    <3>7. Cardinality(Deep(k + 1)) <= Cardinality(Deep(k)) + BucketSize BY <2>5, <3>3
    <3> QED BY <2>3, <2>8, <3>4, <3>5, <3>6, <3>7
  <2>11. T = pool \/ Cardinality(T) = BucketSize
    BY <2>7, <2>8, FirstRanksCount
  <2> QED BY <2>9, <2>10, <2>11
<1>4. \A k \in Nat : k \in P
  <2> HIDE DEF P
  <2> QED BY <1>2, <1>3, SetInduction
<1> QED BY <1>4

\* Evicting a path sends no more blocks to the stash than the buckets took
\* from it.
LEMMA DisplacedBound ==
  ASSUME NEW labels \in [Id -> Leaf], NEW w \in WorkingSet, OnLabelledPathIn(w, labels),
         NEW leaf \in Leaf
  PROVE  Cardinality(Displaced(w, leaf))
           <= Cardinality(Selected(w, leaf) \cap ({-1} \X StashSlot))
<1> DEFINE A == Active(w, leaf)
           Sel == Selected(w, leaf)
           St == {-1} \X StashSlot
           path == {c \in A : c[1] # -1}
           D == Displaced(w, leaf)
<1>0. height \in Nat /\ height <= height BY ParamsAssumption DEF height
<1>1. Sel \subseteq A /\ A \subseteq Candidate
  BY <1>0, SelectedActive DEF Selected, Active
<1>2. path = Deepest(w, leaf, height)
  <2>1. ASSUME NEW c \in A PROVE c[1] # -1 => c[1] >= height - height
    <3>1. c \in Candidate BY <1>1
    <3>2. c[1] # -1 => c[1] \in Nat BY <3>1, CandidateCases DEF Depth
    <3> QED BY <1>0, <3>2
  <2> QED BY <2>1 DEF Deepest
<1>3. Cardinality(path) <= Cardinality(Sel)
  BY <1>0, <1>2, GreedySelectsEnough DEF Selected
<1>4. D = path \ Sel BY DEF Displaced
<1>6. Sel = (Sel \cap path) \cup (Sel \cap St)
  <2>1. ASSUME NEW c \in Sel PROVE c \in path \/ c \in St
    <3>1. c \in Candidate /\ c \in A BY <1>1
    <3>2. CASE c[1] # -1 BY <3>1, <3>2
    <3>3. CASE c[1] = -1
      <4>1. c \notin Depth \X Slot BY <3>3 DEF Depth
      <4> QED BY <3>1, <4>1 DEF Candidate
    <3> QED BY <3>2, <3>3
  <2> QED BY <2>1
<1>7. IsFiniteSet(path) /\ IsFiniteSet(Sel)
  <2>1. path \subseteq Candidate /\ Sel \subseteq Candidate BY <1>1
  <2> QED BY <2>1, CandidatesFinite
<1>8. (Sel \cap path) \cap (Sel \cap St) = {}
  OBVIOUS
<1> HIDE DEF A, Sel, St, path, D
<1> DEFINE X == Sel \cap path
           Y == Sel \cap St
<1>9. /\ IsFiniteSet(X) /\ IsFiniteSet(Y)
      /\ Cardinality(X) \in Nat /\ Cardinality(Y) \in Nat
      /\ Cardinality(path) \in Nat
  BY <1>7, FS_Intersection, FS_CardinalityType
<1>10. Cardinality(Sel) = Cardinality(X) + Cardinality(Y)
  <2>1. Cardinality(X \cup Y) = Cardinality(X) + Cardinality(Y) - Cardinality(X \cap Y)
    BY <1>9, FS_Union
  <2>2. Cardinality(X \cap Y) = 0 BY <1>8, FS_EmptySet
  <2>3. Cardinality(Sel) = Cardinality(X \cup Y) BY <1>6
  <2> HIDE DEF X, Y
  <2> QED BY <1>9, <2>1, <2>2, <2>3
<1>11. Cardinality(D) = Cardinality(path) - Cardinality(X)
  <2>1. Cardinality(path \ Sel) = Cardinality(path) - Cardinality(path \cap Sel)
    BY <1>7, FS_Difference
  <2>2. path \cap Sel = X OBVIOUS
  <2> QED BY <1>4, <2>1, <2>2
<1>12. Cardinality(D) <= Cardinality(Y)
  <2> HIDE DEF X, Y
  <2> QED BY <1>3, <1>9, <1>10, <1>11
<1> QED BY <1>12 DEF D, Sel, St

\* ensure_eviction_stash_capacity never refuses an eviction while blocks rest on
\* their labelled paths: what the buckets take from the stash is vacant.
LEMMA EvictionAlwaysFits ==
  ASSUME NEW labels \in [Id -> Leaf], NEW w \in WorkingSet, OnLabelledPathIn(w, labels),
         NEW leaf \in Leaf
  PROVE  ~EvictOverflows(w, leaf)
<1> DEFINE D == Displaced(w, leaf)
           V == Vacant(w, leaf)
           Y == Selected(w, leaf) \cap ({-1} \X StashSlot)
<1>1. Y \subseteq V /\ V \subseteq Candidate /\ D \subseteq Candidate
  BY DEF Vacant, Displaced, Active, Candidate
<1>2. IsFiniteSet(V) /\ Cardinality(D) \in Nat BY <1>1, CandidatesFinite
<1>3. Cardinality(D) <= Cardinality(Y) BY DisplacedBound
<1> HIDE DEF D, V, Y
<1>4. Cardinality(Y) \in Nat /\ Cardinality(V) \in Nat /\ Cardinality(Y) <= Cardinality(V)
  BY <1>1, <1>2, SubsetCardinality
<1>5. ~(Cardinality(D) > Cardinality(V)) BY <1>2, <1>3, <1>4
<1> QED BY <1>5 DEF EvictOverflows, D, V

-----------------------------------------------------------------------------
(* The plan places each selected candidate once.                           *)

\* A selected candidate stays selected (the selected flag is never cleared).
LEMMA SelectedMonotone ==
  ASSUME NEW w, NEW leaf, NEW j \in Nat, NEW k \in Nat, j <= k
  PROVE  SelectedAfter(w, leaf)[j] \subseteq SelectedAfter(w, leaf)[k]
<1> DEFINE P == {n \in Nat : SelectedAfter(w, leaf)[j] \subseteq SelectedAfter(w, leaf)[j + n]}
<1>1. 0 \in P
  <2>1. j + 0 = j OBVIOUS
  <2> QED BY <2>1
<1>2. ASSUME NEW n \in Nat, n \in P PROVE n + 1 \in P
  <2>1. j + n \in Nat /\ (j + n) + 1 = j + (n + 1) OBVIOUS
  <2>2. SelectedAfter(w, leaf)[j + n] \subseteq SelectedAfter(w, leaf)[j + (n + 1)]
    BY <2>1, SelectedAfterDef
  <2> QED BY <1>2, <2>2
<1>3. \A n \in Nat : n \in P
  <2> HIDE DEF P
  <2> QED BY <1>1, <1>2, SetInduction
<1>4. k - j \in Nat /\ j + (k - j) = k OBVIOUS
<1> QED BY <1>3, <1>4

\* The candidates placed at a depth are those the selection gained there.
LEMMA PlacedStep ==
  ASSUME NEW w, NEW leaf, NEW d \in Depth
  PROVE  /\ LeafBits - d \in Nat /\ (LeafBits - d) + 1 <= height
         /\ Placed(w, leaf, d) \cap SelectedAfter(w, leaf)[LeafBits - d] = {}
         /\ SelectedAfter(w, leaf)[(LeafBits - d) + 1]
              = SelectedAfter(w, leaf)[LeafBits - d] \cup Placed(w, leaf, d)
<1>1. LeafBits - d \in Nat /\ LeafBits - (LeafBits - d) = d /\ (LeafBits - d) + 1 <= height
  BY ParamsAssumption DEF Depth, height
<1>2. Placed(w, leaf, d) \cap SelectedAfter(w, leaf)[LeafBits - d] = {}
  BY DEF Placed, Takes
<1> QED BY <1>1, <1>2, SelectedAfterDef DEF Placed, FillDepth

\* The plan places no candidate in two buckets.
LEMMA PlacedOnce ==
  ASSUME NEW w, NEW leaf, NEW d \in Depth, NEW e \in Depth, NEW c,
         c \in Placed(w, leaf, d), c \in Placed(w, leaf, e)
  PROVE  d = e
<1>1. ASSUME NEW x \in Depth, NEW y \in Depth, x < y,
             c \in Placed(w, leaf, x), c \in Placed(w, leaf, y)
      PROVE  FALSE
  <2>1. c \in SelectedAfter(w, leaf)[(LeafBits - y) + 1] BY <1>1, PlacedStep
  <2>2. (LeafBits - y) + 1 \in Nat /\ LeafBits - x \in Nat /\ (LeafBits - y) + 1 <= LeafBits - x
    BY <1>1, ParamsAssumption DEF Depth
  <2>3. c \in SelectedAfter(w, leaf)[LeafBits - x] BY <2>1, <2>2, SelectedMonotone
  <2> QED BY <1>1, <2>3, PlacedStep
<1>2. d \in Int /\ e \in Int BY DEF Depth
<1>3. ~(d < e) BY <1>1
<1>4. ~(e < d) BY <1>1
<1> QED BY <1>2, <1>3, <1>4

\* A candidate is selected exactly when some bucket takes it.
LEMMA SelectedIffPlaced ==
  ASSUME NEW w, NEW leaf, NEW c
  PROVE  c \in Selected(w, leaf) <=> \E d \in Depth : c \in Placed(w, leaf, d)
<1>0. LeafBits \in Nat /\ height = LeafBits + 1 BY ParamsAssumption DEF height
<1>1. ASSUME NEW d \in Depth, c \in Placed(w, leaf, d) PROVE c \in Selected(w, leaf)
  <2>1. c \in SelectedAfter(w, leaf)[(LeafBits - d) + 1] BY <1>1, PlacedStep
  <2>2. (LeafBits - d) + 1 \in Nat /\ height \in Nat /\ (LeafBits - d) + 1 <= height
    BY <1>0, PlacedStep
  <2> QED BY <2>1, <2>2, SelectedMonotone DEF Selected
<1> DEFINE P == {k \in Nat : k <= height /\ c \in SelectedAfter(w, leaf)[k]
                              => \E d \in Depth : c \in Placed(w, leaf, d)}
<1>2. 0 \in P BY SelectedAfterDef
<1>3. ASSUME NEW k \in Nat, k \in P PROVE k + 1 \in P
  <2>1. SUFFICES ASSUME k + 1 <= height, c \in SelectedAfter(w, leaf)[k + 1],
                        c \notin SelectedAfter(w, leaf)[k]
                 PROVE  \E d \in Depth : c \in Placed(w, leaf, d)
    <3>1. k + 1 <= height => k <= height BY <1>0
    <3> QED BY <1>3, <3>1
  <2>2. LeafBits - k \in Depth /\ LeafBits - (LeafBits - k) = k BY <1>0, <2>1 DEF Depth
  <2>3. c \in Takes(w, leaf, LeafBits - k, SelectedAfter(w, leaf)[k])
    BY <2>1, SelectedAfterDef DEF FillDepth
  <2>4. c \in Placed(w, leaf, LeafBits - k) BY <2>2, <2>3 DEF Placed
  <2> QED BY <2>2, <2>4
<1>4. \A k \in Nat : k \in P
  <2> HIDE DEF P
  <2> QED BY <1>2, <1>3, SetInduction
<1>5. height \in Nat /\ height <= height BY <1>0
<1> QED BY <1>1, <1>4, <1>5 DEF Selected

\* A bucket takes occupied candidates whose label passes through it.
LEMMA PlacedSubset ==
  ASSUME NEW w, NEW leaf, NEW d \in Depth
  PROVE  /\ Placed(w, leaf, d) \subseteq Active(w, leaf)
         /\ Placed(w, leaf, d) \subseteq Candidate
         /\ \A c \in Placed(w, leaf, d) : MayRestAt(w, leaf, c, d)
  BY DEF Placed, Takes, Active

\* Ranks shrink with the set.
LEMMA RankInSubset ==
  ASSUME NEW S, NEW T, S \subseteq T, T \subseteq Candidate, NEW c
  PROVE  Rank(c, S) <= Rank(c, T)
<1> DEFINE B == {x \in S : Before(x, c)}
           D == {x \in T : Before(x, c)}
<1>1. B \subseteq D /\ D \subseteq Candidate OBVIOUS
<1>2. IsFiniteSet(D) BY <1>1, CandidatesFinite
<1> HIDE DEF B, D
<1>3. Cardinality(B) <= Cardinality(D) BY <1>1, <1>2, SubsetCardinality
<1> QED BY <1>3 DEF Rank, B, D

\* Every block a bucket takes gets one of its slots.
LEMMA PlacedRank ==
  ASSUME NEW w, NEW leaf, NEW d \in Depth, NEW c \in Placed(w, leaf, d)
  PROVE  Rank(c, Placed(w, leaf, d)) \in Slot
<1> DEFINE sel == SelectedAfter(w, leaf)[LeafBits - d]
           pool == Pool(w, leaf, d, sel)
           S == Placed(w, leaf, d)
<1>1. S = FirstRanks(pool, BucketSize) /\ pool \subseteq Candidate
  BY TakesIsFirstRanks DEF Placed
<1>2. S \subseteq pool /\ S \subseteq Candidate /\ Rank(c, pool) < BucketSize
  BY <1>1 DEF FirstRanks
<1>3. Rank(c, S) \in Nat /\ Rank(c, pool) \in Nat /\ Rank(c, S) <= Rank(c, pool)
  BY <1>1, <1>2, RankType, RankInSubset
<1> QED BY <1>2, <1>3, ParamsAssumption DEF Slot

\* The k-th slot holds the k-th member of the set.
LEMMA BlockAtRankIs ==
  ASSUME NEW w, NEW leaf, NEW S, S \subseteq Candidate, NEW c \in S
  PROVE  BlockAtRank(w, leaf, S, Rank(c, S)) = CandidateBlock(w, leaf, c)
<1> DEFINE x == CHOOSE x \in S : Rank(x, S) = Rank(c, S)
<1>1. x \in S /\ Rank(x, S) = Rank(c, S) OBVIOUS
<1>2. x = c
  <2> HIDE DEF x
  <2> QED BY <1>1, RankInjective
<1> QED BY <1>2 DEF BlockAtRank

\* An occupied slot holds some member of the set.
LEMMA BlockAtRankFrom ==
  ASSUME NEW w, NEW leaf, NEW S, NEW k, BlockAtRank(w, leaf, S, k).occupied
  PROVE  \E c \in S : Rank(c, S) = k
  BY DEF BlockAtRank, EmptyBlock

-----------------------------------------------------------------------------
(* Where every block lands.                                                *)

\* Node n lies on the path to `leaf`.
OnPath(leaf, n) == \E depth \in Depth : node_index(depth, leaf) = n

\* Every candidate stands for a slot of the tree or of the stash.
LEMMA PlaceOfType ==
  ASSUME NEW leaf \in Leaf, NEW c \in Candidate
  PROVE  PlaceOf(leaf, c) \in Place
<1>1. CASE c[1] = -1 /\ c[2] \in StashSlot
  <2>1. c = <<c[1], c[2]>> BY CandidateInts
  <2> QED BY <1>1, <2>1 DEF PlaceOf, Place
<1>2. CASE c[1] \in Depth /\ c[2] \in Slot /\ c[1] # -1
  BY <1>2, NodeIndexType DEF PlaceOf, Place
<1> QED BY <1>1, <1>2, CandidateCases

\* Different candidates stand for different slots.
LEMMA PlaceOfInjective ==
  ASSUME NEW leaf \in Leaf, NEW c \in Candidate, NEW d \in Candidate,
         PlaceOf(leaf, c) = PlaceOf(leaf, d)
  PROVE  c = d
<1>1. c = <<c[1], c[2]>> /\ d = <<d[1], d[2]>> BY CandidateInts
<1>2. ASSUME NEW x \in Candidate, x[1] # -1
      PROVE  /\ x[1] \in Depth
             /\ PlaceOf(leaf, x) = <<node_index(x[1], leaf), x[2]>>
             /\ node_index(x[1], leaf) # -1
  <2>1. x[1] \in Depth BY <1>2, CandidateCases
  <2>2. node_index(x[1], leaf) \in Node BY <2>1, NodeIndexType
  <2> QED BY <1>2, <2>1, <2>2 DEF PlaceOf, Node
<1>3. CASE c[1] = -1 /\ d[1] = -1 BY <1>3 DEF PlaceOf
<1>4. CASE c[1] # -1 /\ d[1] # -1
  <2>1. node_index(c[1], leaf) = node_index(d[1], leaf) /\ c[2] = d[2] BY <1>2, <1>4
  <2>2. c[1] = d[1] BY <1>2, <1>4, <2>1, LevelsDisjoint
  <2> QED BY <1>1, <2>1, <2>2
<1>5. CASE c[1] = -1 /\ d[1] # -1
  <2>1. PlaceOf(leaf, c) = c BY <1>5 DEF PlaceOf
  <2>2. PlaceOf(leaf, d) = <<node_index(d[1], leaf), d[2]>> /\ node_index(d[1], leaf) # -1
    BY <1>2, <1>5
  <2>3. c = <<node_index(d[1], leaf), d[2]>> BY <2>1, <2>2
  <2>4. c[1] = node_index(d[1], leaf) BY <2>3
  <2> QED BY <1>5, <2>2, <2>4
<1>6. CASE c[1] # -1 /\ d[1] = -1
  <2>1. PlaceOf(leaf, d) = d BY <1>6 DEF PlaceOf
  <2>2. PlaceOf(leaf, c) = <<node_index(c[1], leaf), c[2]>> /\ node_index(c[1], leaf) # -1
    BY <1>2, <1>6
  <2>3. d = <<node_index(c[1], leaf), c[2]>> BY <2>1, <2>2
  <2>4. d[1] = node_index(c[1], leaf) BY <2>3
  <2> QED BY <1>6, <2>2, <2>4
<1> QED BY <1>3, <1>4, <1>5, <1>6

\* Every slot is a candidate of the evicted path or lies off the path.
LEMMA PlaceCases ==
  ASSUME NEW leaf \in Leaf, NEW p \in Place
  PROVE  \/ \E c \in Candidate : PlaceOf(leaf, c) = p
         \/ p[1] \in Node /\ p[2] \in Slot /\ p[1] # -1 /\ p = <<p[1], p[2]>> /\ ~OnPath(leaf, p[1])
<1>1. CASE p \in {-1} \X StashSlot
  <2>1. p \in Candidate /\ PlaceOf(leaf, p) = p BY <1>1 DEF Candidate, PlaceOf
  <2> QED BY <2>1
<1>2. CASE p \in Node \X Slot /\ OnPath(leaf, p[1])
  <2>1. PICK d \in Depth : node_index(d, leaf) = p[1] BY <1>2 DEF OnPath
  <2>2. <<d, p[2]>> \in Candidate BY <1>2 DEF Candidate
  <2>3. d # -1 BY DEF Depth
  <2>4. PlaceOf(leaf, <<d, p[2]>>) = p BY <1>2, <2>1, <2>3 DEF PlaceOf
  <2> QED BY <2>2, <2>4
<1>3. CASE p \in Node \X Slot /\ ~OnPath(leaf, p[1])
  BY <1>3 DEF Node
<1> QED BY <1>1, <1>2, <1>3 DEF Place

\* No candidate of the plan lies off the path.
LEMMA CandidateOnPath ==
  ASSUME NEW leaf \in Leaf, NEW c \in Candidate, NEW p \in Place,
         p[1] # -1, ~OnPath(leaf, p[1])
  PROVE  PlaceOf(leaf, c) # p
<1>1. CASE c[1] = -1 BY <1>1 DEF PlaceOf
<1>2. CASE c[1] # -1
  <2>1. c[1] \in Depth BY <1>2, CandidateCases
  <2> QED BY <1>2, <2>1 DEF PlaceOf, OnPath
<1> QED BY <1>1, <1>2

\* Where the block of candidate c ends up when the path to `leaf` is evicted.
Lands(w, leaf, c, q) ==
  \/ \E d \in Depth : /\ c \in Placed(w, leaf, d)
                      /\ q = <<node_index(d, leaf), Rank(c, Placed(w, leaf, d))>>
  \/ /\ c \in Displaced(w, leaf)
     /\ q \in Vacant(w, leaf)
     /\ Rank(q, Vacant(w, leaf)) = Rank(c, Displaced(w, leaf))
  \/ /\ c \in Active(w, leaf) \ Selected(w, leaf)
     /\ c[1] = -1
     /\ q = c

\* Displaced blocks are put into stash slots.
LEMMA VacantSubset ==
  ASSUME NEW w, NEW leaf
  PROVE  Vacant(w, leaf) \subseteq {-1} \X StashSlot /\ Vacant(w, leaf) \subseteq Candidate
  BY DEF Vacant, Candidate

\* Displaced blocks are path blocks the plan did not select.
LEMMA DisplacedSubset ==
  ASSUME NEW w, NEW leaf
  PROVE  /\ Displaced(w, leaf) \subseteq Candidate
         /\ Displaced(w, leaf) \subseteq Active(w, leaf) \ Selected(w, leaf)
         /\ \A c \in Displaced(w, leaf) : c[1] # -1
  BY DEF Displaced, Active

\* Every occupied candidate has a place after the eviction.
LEMMA LandsSomewhere ==
  ASSUME NEW w, NEW leaf \in Leaf, ~EvictOverflows(w, leaf), NEW c \in Active(w, leaf)
  PROVE  \E q \in Place : Lands(w, leaf, c, q)
<1>0. c \in Candidate BY DEF Active
<1>1. CASE c \in Selected(w, leaf)
  <2>1. PICK d \in Depth : c \in Placed(w, leaf, d) BY <1>1, SelectedIffPlaced
  <2>2. node_index(d, leaf) \in Node /\ Rank(c, Placed(w, leaf, d)) \in Slot
    BY <2>1, NodeIndexType, PlacedRank
  <2> QED BY <2>1, <2>2 DEF Lands, Place
<1>2. CASE c \notin Selected(w, leaf) /\ c[1] # -1
  <2> DEFINE D == Displaced(w, leaf)
             V == Vacant(w, leaf)
  <2>1. c \in D BY <1>2 DEF Displaced
  <2>2. D \subseteq Candidate /\ V \subseteq Candidate /\ V \subseteq Place
    BY DisplacedSubset, VacantSubset DEF Place
  <2>3. ~(Cardinality(D) > Cardinality(V)) BY DEF EvictOverflows
  <2>4. Cardinality(D) \in Nat /\ Cardinality(V) \in Nat BY <2>2, CandidatesFinite
  <2>5. Rank(c, D) \in Nat /\ Rank(c, D) < Cardinality(D) BY <2>1, <2>2, RankType, RankBound
  <2>6. Rank(c, D) < Cardinality(V) BY <2>3, <2>4, <2>5
  <2>7. PICK q \in V : Rank(q, V) = Rank(c, D) BY <2>2, <2>5, <2>6, RankOnto
  <2> QED BY <2>1, <2>2, <2>7 DEF Lands
<1>3. CASE c \notin Selected(w, leaf) /\ c[1] = -1
  <2>1. c \in Place
    <3>1. c[2] \in StashSlot /\ c = <<c[1], c[2]>>
      BY <1>0, <1>3, CandidateCases, CandidateInts DEF Depth
    <3> QED BY <1>3, <3>1 DEF Place
  <2> QED BY <1>3, <2>1 DEF Lands
<1> QED BY <1>1, <1>2, <1>3

\* No candidate has two places after the eviction.
LEMMA LandsOnce ==
  ASSUME NEW w, NEW leaf \in Leaf, NEW c, NEW p, NEW q,
         Lands(w, leaf, c, p), Lands(w, leaf, c, q)
  PROVE  p = q
<1>1. CASE \E d \in Depth : c \in Placed(w, leaf, d)
  <2>1. c \in Selected(w, leaf) BY <1>1, SelectedIffPlaced
  <2>2. c \notin Displaced(w, leaf) BY <2>1, DisplacedSubset
  <2>3. PICK d \in Depth : c \in Placed(w, leaf, d) BY <1>1
  <2>4. \A e \in Depth : c \in Placed(w, leaf, e) => e = d BY <2>3, PlacedOnce
  <2>5. p = <<node_index(d, leaf), Rank(c, Placed(w, leaf, d))>>
    BY <2>1, <2>2, <2>4 DEF Lands
  <2>6. q = <<node_index(d, leaf), Rank(c, Placed(w, leaf, d))>>
    BY <2>1, <2>2, <2>4 DEF Lands
  <2> QED BY <2>5, <2>6
<1>2. CASE (~\E d \in Depth : c \in Placed(w, leaf, d)) /\ c \in Displaced(w, leaf)
  <2>1. c[1] # -1 BY <1>2, DisplacedSubset
  <2>2. /\ p \in Vacant(w, leaf) /\ q \in Vacant(w, leaf)
        /\ Rank(p, Vacant(w, leaf)) = Rank(q, Vacant(w, leaf))
    BY <1>2, <2>1 DEF Lands
  <2> QED BY <2>2, VacantSubset, RankInjective
<1>3. CASE (~\E d \in Depth : c \in Placed(w, leaf, d)) /\ c \notin Displaced(w, leaf)
  BY <1>3 DEF Lands
<1> QED BY <1>1, <1>2, <1>3

\* apply_eviction_plan_to_overlays writes the planned blocks into a bucket of
\* the path.
LEMMA EvictedBucket ==
  ASSUME NEW w \in WorkingSet, NEW leaf \in Leaf, NEW d \in Depth, NEW s \in Slot
  PROVE  BlockIn(EvictPath(w, leaf), <<node_index(d, leaf), s>>)
           = BlockAtRank(w, leaf, Placed(w, leaf, d), s)
<1> DEFINE n == node_index(d, leaf)
           b == BlockAtRank(w, leaf, Placed(w, leaf, d), s)
<1>1. n \in Node /\ n # -1 BY NodeIndexType DEF Node
<1>2. (CHOOSE depth \in Depth : node_index(depth, leaf) = n) = d
  BY LevelsDisjoint
<1>3. EvictPath(w, leaf).meta[n][s] = MetaOf(b)
  BY <1>1, <1>2 DEF EvictPath
<1>4. EvictPath(w, leaf).payload[n][s] = b.payload
  BY <1>1, <1>2 DEF EvictPath
<1>5. b \in Block BY PlacedSubset, BlockAtRankType
<1> HIDE DEF n, b
<1>6. BlockIn(EvictPath(w, leaf), <<n, s>>) =
        [occupied |-> MetaOf(b).occupied, id |-> MetaOf(b).id, leaf |-> MetaOf(b).leaf,
         payload |-> b.payload]
  BY <1>1, <1>3, <1>4 DEF BlockIn
<1>7. @ = b BY <1>5 DEF MetaOf, Block
<1> QED BY <1>6, <1>7 DEF n, b

\* A bucket off the path is not written.
LEMMA EvictedElsewhere ==
  ASSUME NEW w \in WorkingSet, NEW leaf \in Leaf, NEW n \in Node, NEW s \in Slot,
         ~OnPath(leaf, n)
  PROVE  BlockIn(EvictPath(w, leaf), <<n, s>>) = BlockIn(w, <<n, s>>)
<1>1. n # -1 BY DEF Node
<1>2. EvictPath(w, leaf).meta[n] = w.meta[n] /\ EvictPath(w, leaf).payload[n] = w.payload[n]
  BY DEF EvictPath, OnPath
<1> QED BY <1>1, <1>2 DEF BlockIn

\* Displaced blocks fill vacant stash slots; the other stash slots stay.
LEMMA EvictedStash ==
  ASSUME NEW w \in WorkingSet, NEW leaf \in Leaf, NEW i \in StashSlot
  PROVE  BlockIn(EvictPath(w, leaf), <<-1, i>>) =
           IF <<-1, i>> \in Vacant(w, leaf)
           THEN BlockAtRank(w, leaf, Displaced(w, leaf), Rank(<<-1, i>>, Vacant(w, leaf)))
           ELSE w.stash[i]
  BY DEF EvictPath, BlockIn

\* A candidate arrives unchanged: id, label and payload stay together.
LEMMA LandsBlock ==
  ASSUME NEW w \in WorkingSet, NEW leaf \in Leaf, NEW c \in Active(w, leaf), NEW q,
         Lands(w, leaf, c, q)
  PROVE  BlockIn(EvictPath(w, leaf), q) = CandidateBlock(w, leaf, c)
<1>1. ASSUME NEW d \in Depth, c \in Placed(w, leaf, d),
             q = <<node_index(d, leaf), Rank(c, Placed(w, leaf, d))>>
      PROVE  BlockIn(EvictPath(w, leaf), q) = CandidateBlock(w, leaf, c)
  BY <1>1, PlacedRank, PlacedSubset, EvictedBucket, BlockAtRankIs
<1>2. CASE /\ c \in Displaced(w, leaf)
           /\ q \in Vacant(w, leaf)
           /\ Rank(q, Vacant(w, leaf)) = Rank(c, Displaced(w, leaf))
  <2>1. PICK i \in StashSlot : q = <<-1, i>> BY <1>2, VacantSubset
  <2> QED BY <1>2, <2>1, DisplacedSubset, EvictedStash, BlockAtRankIs
<1>3. CASE c \in Active(w, leaf) \ Selected(w, leaf) /\ c[1] = -1 /\ q = c
  <2>1. c \in Candidate BY DEF Active
  <2>2. c[2] \in StashSlot /\ c = <<-1, c[2]>>
    BY <1>3, <2>1, CandidateCases, CandidateInts DEF Depth
  <2>3. c \notin Vacant(w, leaf) BY <1>3 DEF Vacant
  <2>4. BlockIn(EvictPath(w, leaf), c) = w.stash[c[2]] BY <2>2, <2>3, EvictedStash
  <2> QED BY <1>3, <2>4 DEF CandidateBlock, PlaceOf, BlockIn
<1> QED BY <1>1, <1>2, <1>3 DEF Lands

\* Every block found after the eviction stayed off the path or came from a
\* candidate.
LEMMA LandedFrom ==
  ASSUME NEW w \in WorkingSet, NEW leaf \in Leaf, NEW q \in Place,
         BlockIn(EvictPath(w, leaf), q).occupied
  PROVE  \/ /\ q[1] # -1 /\ ~OnPath(leaf, q[1])
            /\ BlockIn(EvictPath(w, leaf), q) = BlockIn(w, q)
         \/ \E c \in Active(w, leaf) : Lands(w, leaf, c, q)
<1>1. CASE q \in {-1} \X StashSlot
  <2>1. PICK i \in StashSlot : q = <<-1, i>> BY <1>1
  <2>2. CASE q \in Vacant(w, leaf)
    <3>1. PICK c \in Displaced(w, leaf) : Rank(c, Displaced(w, leaf)) = Rank(q, Vacant(w, leaf))
      BY <2>1, <2>2, EvictedStash, BlockAtRankFrom
    <3> QED BY <2>2, <3>1, DisplacedSubset DEF Lands
  <2>3. CASE q \notin Vacant(w, leaf)
    BY <1>1, <2>1, <2>3 DEF Vacant, Lands
  <2> QED BY <2>2, <2>3
<1>2. CASE q \in Node \X Slot /\ OnPath(leaf, q[1])
  <2>1. PICK d \in Depth : node_index(d, leaf) = q[1] BY <1>2 DEF OnPath
  <2>2. q = <<node_index(d, leaf), q[2]>> /\ q[2] \in Slot BY <1>2, <2>1
  <2>3. BlockAtRank(w, leaf, Placed(w, leaf, d), q[2]).occupied BY <2>2, EvictedBucket
  <2>4. PICK c \in Placed(w, leaf, d) : Rank(c, Placed(w, leaf, d)) = q[2]
    BY <2>3, BlockAtRankFrom
  <2> QED BY <2>2, <2>4, PlacedSubset DEF Lands
<1>3. CASE q \in Node \X Slot /\ ~OnPath(leaf, q[1])
  <2>1. q[1] \in Node /\ q[2] \in Slot /\ q = <<q[1], q[2]>> /\ q[1] # -1 BY <1>3 DEF Node
  <2> QED BY <1>3, <2>1, EvictedElsewhere
<1> QED BY <1>1, <1>2, <1>3 DEF Place

-----------------------------------------------------------------------------
(* Evictions and drains keep the blocks.                                   *)

\* v holds the same blocks as w, each once, wherever they rest.
SameBlocks(w, v) ==
  \A id \in Id : \E p \in Place, q \in Place :
    /\ Copies(w, id) = {p}
    /\ Copies(v, id) = {q}
    /\ BlockIn(v, q) = BlockIn(w, p)

\* Evicting a path keeps every block on the path to its label.
LEMMA EvictKeepsLabels ==
  ASSUME NEW labels \in [Id -> Leaf], NEW w \in WorkingSet, OnLabelledPathIn(w, labels),
         NEW leaf \in Leaf
  PROVE  OnLabelledPathIn(EvictPath(w, leaf), labels)
<1> DEFINE v == EvictPath(w, leaf)
<1> SUFFICES ASSUME NEW q \in Place, BlockIn(v, q).occupied
             PROVE  /\ BlockIn(v, q).id \in Id
                    /\ BlockIn(v, q).leaf = labels[BlockIn(v, q).id]
                    /\ q[1] # -1 =>
                         \E depth \in Depth : node_index(depth, BlockIn(v, q).leaf) = q[1]
  BY DEF OnLabelledPathIn
<1>1. CASE BlockIn(v, q) = BlockIn(w, q)
  BY <1>1 DEF OnLabelledPathIn
<1>2. ASSUME NEW c \in Active(w, leaf), Lands(w, leaf, c, q)
      PROVE  /\ BlockIn(v, q).id \in Id
             /\ BlockIn(v, q).leaf = labels[BlockIn(v, q).id]
             /\ q[1] # -1 =>
                  \E depth \in Depth : node_index(depth, BlockIn(v, q).leaf) = q[1]
  <2> DEFINE b == BlockIn(v, q)
  <2>1. b = CandidateBlock(w, leaf, c) BY <1>2, LandsBlock
  <2>2. c \in Candidate /\ CandidateBlock(w, leaf, c).occupied BY DEF Active
  <2>3. PlaceOf(leaf, c) \in Place BY <2>2, PlaceOfType
  <2> HIDE DEF b
  <2>4. b.id \in Id /\ b.leaf = labels[b.id]
    BY <2>1, <2>2, <2>3 DEF CandidateBlock, OnLabelledPathIn
  <2>5. b.leaf \in Leaf BY <2>4
  <2>6. b.leaf % leaves = b.leaf BY <2>5, LeavesType DEF Leaf
  <2>7. ASSUME q[1] # -1 PROVE \E depth \in Depth : node_index(depth, b.leaf) = q[1]
    <3>1. PICK d \in Depth : /\ c \in Placed(w, leaf, d)
                             /\ q = <<node_index(d, leaf), Rank(c, Placed(w, leaf, d))>>
      BY <1>2, <2>7, VacantSubset DEF Lands
    <3>2. MayRestAt(w, leaf, c, d) BY <3>1, PlacedSubset
    <3>3. node_index(d, b.leaf) = node_index(d, leaf)
      BY <2>1, <2>6, <3>2 DEF MayRestAt, node_contains_leaf
    <3> QED BY <3>1, <3>3
  <2> QED BY <2>4, <2>7 DEF b
<1> QED BY <1>1, <1>2, LandedFrom

\* Evicting a path loses no block, duplicates none and alters none.
LEMMA EvictKeepsBlocks ==
  ASSUME NEW w \in WorkingSet, OneCopyIn(w), NEW leaf \in Leaf, ~EvictOverflows(w, leaf)
  PROVE  SameBlocks(w, EvictPath(w, leaf))
<1> DEFINE v == EvictPath(w, leaf)
<1> SUFFICES ASSUME NEW id \in Id
             PROVE  \E p \in Place, q \in Place :
                      /\ Copies(w, id) = {p}
                      /\ Copies(v, id) = {q}
                      /\ BlockIn(v, q) = BlockIn(w, p)
  BY DEF SameBlocks
<1>1. PICK p \in Place : Copies(w, id) = {p} BY DEF OneCopyIn
<1>2. BlockIn(w, p).occupied /\ Matches(BlockIn(w, p), id) BY <1>1 DEF Copies, Matches
<1> HIDE DEF v
<1>3. ASSUME NEW q \in Copies(v, id)
      PROVE  \/ /\ q[1] # -1 /\ ~OnPath(leaf, q[1])
                /\ q = p
             \/ \E c \in Active(w, leaf) : PlaceOf(leaf, c) = p /\ Lands(w, leaf, c, q)
  <2>1. q \in Place /\ BlockIn(v, q).occupied /\ Matches(BlockIn(v, q), id)
    BY DEF Copies, Matches
  <2>2. CASE q[1] # -1 /\ ~OnPath(leaf, q[1]) /\ BlockIn(v, q) = BlockIn(w, q)
    BY <1>1, <2>1, <2>2 DEF Copies
  <2>3. ASSUME NEW c \in Active(w, leaf), Lands(w, leaf, c, q)
        PROVE  PlaceOf(leaf, c) = p
    <3>1. BlockIn(v, q) = BlockIn(w, PlaceOf(leaf, c))
      BY <2>3, LandsBlock DEF CandidateBlock, v
    <3>2. PlaceOf(leaf, c) \in Place BY PlaceOfType DEF Active
    <3> QED BY <1>1, <2>1, <3>1, <3>2 DEF Copies
  <2> QED BY <2>1, <2>2, <2>3, LandedFrom DEF v
<1>4. CASE p[1] \in Node /\ p[2] \in Slot /\ p[1] # -1 /\ p = <<p[1], p[2]>> /\ ~OnPath(leaf, p[1])
  <2>1. BlockIn(v, p) = BlockIn(w, p) BY <1>4, EvictedElsewhere DEF v
  <2>2. p \in Copies(v, id) BY <1>2, <2>1 DEF Copies
  <2>3. ASSUME NEW q \in Copies(v, id) PROVE q = p
    <3>1. ASSUME NEW c \in Active(w, leaf) PROVE PlaceOf(leaf, c) # p
      BY <1>4, CandidateOnPath DEF Active
    <3> QED BY <1>3, <3>1
  <2> QED BY <1>1, <2>1, <2>2, <2>3
<1>5. ASSUME NEW c0 \in Candidate, PlaceOf(leaf, c0) = p
      PROVE  \E q \in Place : Copies(v, id) = {q} /\ BlockIn(v, q) = BlockIn(w, p)
  <2>1. c0 \in Active(w, leaf) BY <1>2, <1>5 DEF Active, CandidateBlock
  <2>2. PICK q0 \in Place : Lands(w, leaf, c0, q0) BY <2>1, LandsSomewhere
  <2>3. BlockIn(v, q0) = BlockIn(w, p)
    BY <1>5, <2>1, <2>2, LandsBlock DEF CandidateBlock, v
  <2>4. q0 \in Copies(v, id) BY <1>2, <2>3 DEF Copies
  <2>5. ASSUME NEW q \in Copies(v, id) PROVE q = q0
    <3>1. CASE q[1] # -1 /\ ~OnPath(leaf, q[1]) /\ q = p
      BY <1>5, <3>1, CandidateOnPath
    <3>2. ASSUME NEW c \in Active(w, leaf), PlaceOf(leaf, c) = p, Lands(w, leaf, c, q)
          PROVE  q = q0
      <4>1. c = c0 BY <1>5, <3>2, PlaceOfInjective DEF Active
      <4> QED BY <2>2, <3>2, <4>1, LandsOnce
    <3> QED BY <1>3, <3>1, <3>2
  <2> QED BY <2>3, <2>4, <2>5
<1> QED BY <1>1, <1>4, <1>5, PlaceCases

\* A working set with the same blocks has one copy of each.
LEMMA SameBlocksKeepOneCopy ==
  ASSUME NEW w, NEW v, SameBlocks(w, v) PROVE OneCopyIn(v)
  BY DEF SameBlocks, OneCopyIn

\* Keeping the blocks is transitive.
LEMMA SameBlocksTransitive ==
  ASSUME NEW w, NEW u, NEW v, SameBlocks(w, u), SameBlocks(u, v) PROVE SameBlocks(w, v)
<1> SUFFICES ASSUME NEW id \in Id
             PROVE  \E p \in Place, q \in Place :
                      /\ Copies(w, id) = {p}
                      /\ Copies(v, id) = {q}
                      /\ BlockIn(v, q) = BlockIn(w, p)
  BY DEF SameBlocks
<1>1. PICK p \in Place, q \in Place :
        Copies(w, id) = {p} /\ Copies(u, id) = {q} /\ BlockIn(u, q) = BlockIn(w, p)
  BY DEF SameBlocks
<1>2. PICK r \in Place, s \in Place :
        Copies(u, id) = {r} /\ Copies(v, id) = {s} /\ BlockIn(v, s) = BlockIn(u, r)
  BY DEF SameBlocks
<1>3. q = r BY <1>1, <1>2
<1> QED BY <1>1, <1>2, <1>3

\* A working set with one copy of each block keeps its own blocks.
LEMMA SameBlocksReflexive ==
  ASSUME NEW w, OneCopyIn(w) PROVE SameBlocks(w, w)
  BY DEF SameBlocks, OneCopyIn

\* A drain of any number of paths succeeds, keeps every block as it was and on
\* its labelled path: the error branch of drain_evictions is never taken.
LEMMA DrainKeepsBlocks ==
  ASSUME NEW labels \in [Id -> Leaf], NEW w \in WorkingSet,
         OneCopyIn(w), OnLabelledPathIn(w, labels), NEW start \in Nat, NEW n \in Nat
  PROVE  /\ EvictPaths(w, start)[n].ok
         /\ EvictPaths(w, start)[n].w \in WorkingSet
         /\ SameBlocks(w, EvictPaths(w, start)[n].w)
         /\ OnLabelledPathIn(EvictPaths(w, start)[n].w, labels)
<1> DEFINE run == EvictPaths(w, start)
           P == {k \in Nat : /\ run[k].ok /\ run[k].w \in WorkingSet
                             /\ SameBlocks(w, run[k].w)
                             /\ OnLabelledPathIn(run[k].w, labels)}
<1>0. /\ run[0] = [ok |-> TRUE, w |-> w]
      /\ \A k \in Nat : run[k + 1] = OnePath(run[k], eviction_leaf_at(start + k))
  BY EvictPathsDef
<1> HIDE DEF run
<1>1. 0 \in P BY <1>0, SameBlocksReflexive
<1>2. ASSUME NEW k \in Nat, k \in P PROVE k + 1 \in P
  <2> DEFINE leaf == eviction_leaf_at(start + k)
             u == run[k].w
             v == EvictPath(u, leaf)
  <2>1. leaf \in Leaf BY EvictionLeafType
  <2>2. run[k].ok /\ u \in WorkingSet /\ SameBlocks(w, u) /\ OnLabelledPathIn(u, labels)
    BY <1>2
  <2> HIDE DEF leaf, u
  <2>3. ~EvictOverflows(u, leaf) BY <2>1, <2>2, EvictionAlwaysFits
  <2>4. run[k + 1] = [ok |-> TRUE, w |-> v]
    BY <1>0, <2>2, <2>3 DEF leaf, u, OnePath
  <2>5. OneCopyIn(u) BY <2>2, SameBlocksKeepOneCopy
  <2>6. v \in WorkingSet BY <2>1, <2>2, EvictPathType
  <2>7. SameBlocks(u, v) BY <2>1, <2>2, <2>3, <2>5, EvictKeepsBlocks
  <2>8. OnLabelledPathIn(v, labels) BY <2>1, <2>2, EvictKeepsLabels
  <2> HIDE DEF v
  <2>9. SameBlocks(w, v) BY <2>2, <2>7, SameBlocksTransitive
  <2> QED BY <2>4, <2>6, <2>8, <2>9
<1>3. \A k \in Nat : k \in P
  <2> HIDE DEF P
  <2> QED BY <1>1, <1>2, SetInduction
<1> QED BY <1>3 DEF run
-----------------------------------------------------------------------------
(* What evictions leave in the slots they empty, and in the stash.         *)

\* Every unoccupied slot is a scrubbed dummy.
ScrubbedIn(w) ==
  \A p \in Place : ~BlockIn(w, p).occupied => BlockIn(w, p) = EmptyBlock

\* A planned slot holds an occupied candidate or Block::dummy.
LEMMA BlockAtRankScrubbed ==
  ASSUME NEW w, NEW leaf, NEW S, S \subseteq Active(w, leaf), NEW k,
         ~BlockAtRank(w, leaf, S, k).occupied
  PROVE  BlockAtRank(w, leaf, S, k) = EmptyBlock
<1>1. CASE \E c \in S : Rank(c, S) = k
  <2> DEFINE c == CHOOSE c \in S : Rank(c, S) = k
  <2>1. c \in Active(w, leaf) BY <1>1
  <2>2. BlockAtRank(w, leaf, S, k) = CandidateBlock(w, leaf, c) BY <1>1 DEF BlockAtRank
  <2> QED BY <2>1, <2>2 DEF Active
<1>2. CASE ~\E c \in S : Rank(c, S) = k BY <1>2 DEF BlockAtRank
<1> QED BY <1>1, <1>2

\* apply_eviction_plan_to_overlays and the stash rewrite leave no residue in a
\* slot they empty.
LEMMA EvictScrubs ==
  ASSUME NEW w \in WorkingSet, ScrubbedIn(w), NEW leaf \in Leaf
  PROVE  ScrubbedIn(EvictPath(w, leaf))
<1> DEFINE v == EvictPath(w, leaf)
<1> SUFFICES ASSUME NEW q \in Place, ~BlockIn(v, q).occupied
             PROVE  BlockIn(v, q) = EmptyBlock
  BY DEF ScrubbedIn
<1>1. CASE q \in {-1} \X StashSlot
  <2>1. PICK i \in StashSlot : q = <<-1, i>> BY <1>1
  <2>2. CASE q \in Vacant(w, leaf)
    BY <2>1, <2>2, EvictedStash, DisplacedSubset, BlockAtRankScrubbed
  <2>3. CASE q \notin Vacant(w, leaf)
    <3>1. BlockIn(v, q) = w.stash[i] BY <2>1, <2>3, EvictedStash
    <3>2. BlockIn(w, q) = w.stash[i] BY <2>1 DEF BlockIn
    <3> QED BY <3>1, <3>2 DEF ScrubbedIn
  <2> QED BY <2>2, <2>3
<1>2. CASE q \in Node \X Slot /\ OnPath(leaf, q[1])
  <2>1. PICK d \in Depth : node_index(d, leaf) = q[1] BY <1>2 DEF OnPath
  <2>2. q = <<node_index(d, leaf), q[2]>> /\ q[2] \in Slot BY <1>2, <2>1
  <2> QED BY <2>2, EvictedBucket, PlacedSubset, BlockAtRankScrubbed
<1>3. CASE q \in Node \X Slot /\ ~OnPath(leaf, q[1])
  <2>1. q[1] \in Node /\ q[2] \in Slot /\ q = <<q[1], q[2]>> BY <1>3
  <2>2. BlockIn(v, q) = BlockIn(w, q) BY <1>3, <2>1, EvictedElsewhere
  <2> QED BY <2>2 DEF ScrubbedIn
<1> QED BY <1>1, <1>2, <1>3 DEF Place

\* The occupied slots of the stash.
StashBlocks(w) == {c \in {-1} \X StashSlot : BlockIn(w, c).occupied}

\* The stash holds finitely many blocks.
LEMMA StashBlocksFinite ==
  ASSUME NEW w
  PROVE  /\ StashBlocks(w) \subseteq Candidate
         /\ IsFiniteSet(StashBlocks(w)) /\ Cardinality(StashBlocks(w)) \in Nat
<1>1. StashBlocks(w) \subseteq Candidate BY DEF StashBlocks, Candidate
<1> QED BY <1>1, CandidatesFinite

\* Evicting a path never leaves more blocks in the stash than it found there.
LEMMA EvictShrinksStash ==
  ASSUME NEW labels \in [Id -> Leaf], NEW w \in WorkingSet, OnLabelledPathIn(w, labels),
         NEW leaf \in Leaf
  PROVE  Cardinality(StashBlocks(EvictPath(w, leaf))) <= Cardinality(StashBlocks(w))
<1> DEFINE v == EvictPath(w, leaf)
           St == {-1} \X StashSlot
           A == Active(w, leaf)
           Sel == Selected(w, leaf)
           D == Displaced(w, leaf)
           V == Vacant(w, leaf)
           kept == St \cap (A \ Sel)
           gone == Sel \cap St
           fill == {q \in V : \E c \in D : Rank(c, D) = Rank(q, V)}
<1>1. height \in Nat BY ParamsAssumption DEF height
<1>2. Sel \subseteq A BY <1>1, SelectedActive DEF Selected
<1>3. /\ kept \subseteq Candidate /\ gone \subseteq Candidate /\ fill \subseteq Candidate
      /\ D \subseteq Candidate /\ V \subseteq Candidate
  BY VacantSubset, DisplacedSubset DEF Candidate
<1>4. /\ IsFiniteSet(kept) /\ IsFiniteSet(gone) /\ IsFiniteSet(fill) /\ IsFiniteSet(D)
      /\ Cardinality(kept) \in Nat /\ Cardinality(gone) \in Nat
      /\ Cardinality(fill) \in Nat /\ Cardinality(D) \in Nat
  BY <1>3, CandidatesFinite
<1>5. StashBlocks(w) = kept \cup gone
  <2>1. ASSUME NEW c \in St PROVE BlockIn(w, c).occupied <=> c \in A
    BY DEF Active, Candidate, CandidateBlock, PlaceOf
  <2> QED BY <1>2, <2>1 DEF StashBlocks
<1>6. StashBlocks(v) \subseteq kept \cup fill
  <2>1. ASSUME NEW q \in StashBlocks(v) PROVE q \in kept \cup fill
    <3>1. q \in St /\ BlockIn(v, q).occupied BY DEF StashBlocks
    <3>2. PICK i \in StashSlot : q = <<-1, i>> BY <3>1
    <3>3. CASE q \in V
      BY <3>1, <3>2, <3>3, EvictedStash, BlockAtRankFrom
    <3>4. CASE q \notin V BY <3>1, <3>4 DEF Vacant
    <3> QED BY <3>3, <3>4
  <2> QED BY <2>1
<1>7. Cardinality(D) <= Cardinality(gone) BY DisplacedBound
<1>8. kept \cap gone = {} OBVIOUS
<1>9. Cardinality(fill) <= Cardinality(D)
  <2> DEFINE f == [q \in fill |-> CHOOSE c \in D : Rank(c, D) = Rank(q, V)]
  <2>1. ASSUME NEW q \in fill PROVE f[q] \in D /\ Rank(f[q], D) = Rank(q, V)
    OBVIOUS
  <2>2. f \in [fill -> D] BY <2>1
  <2>3. \A a, b \in fill : f[a] = f[b] => a = b
    <3> HIDE DEF f
    <3>1. fill \subseteq V OBVIOUS
    <3> HIDE DEF fill
    <3> QED BY <1>3, <2>1, <3>1, RankInjective
  <2> HIDE DEF f, fill
  <2>4. f \in Injection(fill, D) BY <2>2, <2>3, Fun_IsInj
  <2> QED BY <1>4, <2>4, FS_Injection
<1> HIDE DEF kept, gone, fill, D, v
<1>10. Cardinality(kept \cup gone) = Cardinality(kept) + Cardinality(gone)
  <2>1. Cardinality(kept \cup gone) = Cardinality(kept) + Cardinality(gone) - Cardinality(kept \cap gone)
    BY <1>4, FS_Union
  <2>2. Cardinality(kept \cap gone) = 0 BY <1>8, FS_EmptySet
  <2> QED BY <1>4, <2>1, <2>2
<1>11. Cardinality(kept \cup fill) <= Cardinality(kept) + Cardinality(fill)
  <2>1. Cardinality(kept \cup fill) = Cardinality(kept) + Cardinality(fill) - Cardinality(kept \cap fill)
    BY <1>4, FS_Union
  <2>2. Cardinality(kept \cap fill) \in Nat BY <1>4, FS_Intersection, FS_CardinalityType
  <2> QED BY <1>4, <2>1, <2>2
<1>12. IsFiniteSet(kept \cup fill) BY <1>4, FS_Union
<1>13. /\ Cardinality(StashBlocks(v)) <= Cardinality(kept \cup fill)
       /\ Cardinality(StashBlocks(v)) \in Nat /\ Cardinality(kept \cup fill) \in Nat
  BY <1>6, <1>12, SubsetCardinality
<1> QED BY <1>4, <1>5, <1>7, <1>9, <1>10, <1>11, <1>13 DEF v

\* A drain leaves scrubbed slots, and no more blocks in the stash than it found.
LEMMA DrainScrubsAndShrinks ==
  ASSUME NEW labels \in [Id -> Leaf], NEW w \in WorkingSet,
         OneCopyIn(w), OnLabelledPathIn(w, labels), NEW start \in Nat, NEW n \in Nat
  PROVE  /\ ScrubbedIn(w) => ScrubbedIn(EvictPaths(w, start)[n].w)
         /\ Cardinality(StashBlocks(EvictPaths(w, start)[n].w)) <= Cardinality(StashBlocks(w))
<1> DEFINE run == EvictPaths(w, start)
           P == {k \in Nat : /\ ScrubbedIn(w) => ScrubbedIn(run[k].w)
                             /\ Cardinality(StashBlocks(run[k].w))
                                  <= Cardinality(StashBlocks(w))}
<1>0. /\ run[0] = [ok |-> TRUE, w |-> w]
      /\ \A k \in Nat : run[k + 1] = OnePath(run[k], eviction_leaf_at(start + k))
  BY EvictPathsDef
<1>1. \A k \in Nat : run[k].w \in WorkingSet /\ OnLabelledPathIn(run[k].w, labels)
  BY DrainKeepsBlocks
<1> HIDE DEF run
<1>2. 0 \in P
  <2>1. Cardinality(StashBlocks(w)) \in Nat BY StashBlocksFinite
  <2> QED BY <1>0, <2>1
<1>3. ASSUME NEW k \in Nat, k \in P PROVE k + 1 \in P
  <2> DEFINE leaf == eviction_leaf_at(start + k)
             u == run[k].w
             v == EvictPath(u, leaf)
  <2>1. leaf \in Leaf BY EvictionLeafType
  <2>2. run[k + 1].w = u \/ run[k + 1].w = v
    <3>1. run[k + 1] = OnePath(run[k], leaf) BY <1>0
    <3> HIDE DEF leaf
    <3>2. OnePath(run[k], leaf).w = run[k].w \/ OnePath(run[k], leaf).w = EvictPath(run[k].w, leaf)
      BY DEF OnePath
    <3> QED BY <3>1, <3>2
  <2>3. u \in WorkingSet /\ OnLabelledPathIn(u, labels) BY <1>1
  <2> HIDE DEF leaf, u
  <2>4. ScrubbedIn(u) => ScrubbedIn(v) BY <2>1, <2>3, EvictScrubs
  <2>5. Cardinality(StashBlocks(v)) <= Cardinality(StashBlocks(u))
    BY <2>1, <2>3, EvictShrinksStash
  <2>6. /\ Cardinality(StashBlocks(v)) \in Nat
        /\ Cardinality(StashBlocks(u)) \in Nat
        /\ Cardinality(StashBlocks(w)) \in Nat
    BY StashBlocksFinite
  <2> HIDE DEF v
  <2>7. /\ ScrubbedIn(w) => ScrubbedIn(u)
        /\ Cardinality(StashBlocks(u)) <= Cardinality(StashBlocks(w))
    BY <1>3 DEF u
  <2>8. Cardinality(StashBlocks(v)) <= Cardinality(StashBlocks(w)) BY <2>5, <2>6, <2>7
  <2> QED BY <2>2, <2>4, <2>7, <2>8
<1>4. \A k \in Nat : k \in P
  <2> HIDE DEF P
  <2> QED BY <1>2, <1>3, SetInduction
<1> QED BY <1>4 DEF run

-----------------------------------------------------------------------------
(* Online accesses keep the blocks.                                        *)

\* Every block of v is the block of w but for block `id`, which is b.
Rewritten(w, v, id, b) ==
  \A j \in Id : \E p \in Place, q \in Place :
    /\ Copies(w, j) = {p}
    /\ Copies(v, j) = {q}
    /\ BlockIn(v, q) = IF j = id THEN b ELSE BlockIn(w, p)

\* insert_into_stash finds a free slot when there is one.
LEMMA FirstFreeType ==
  ASSUME NEW st, FreeSlots(st) # {}
  PROVE  FirstFree(st) \in FreeSlots(st)
<1> DEFINE F == FreeSlots(st)
<1>1. F \subseteq Nat /\ F # {} BY ParamsAssumption DEF FreeSlots, StashSlot
<1>2. PICK i \in F : \A j \in F : i <= j
  <2> HIDE DEF F
  <2> QED BY <1>1, LeastNatural
<1> QED BY <1>2 DEF FirstFree

\* A place is a stash slot or a tree slot.
LEMMA PlaceInts ==
  ASSUME NEW p \in Place
  PROVE  /\ p = <<p[1], p[2]>>
         /\ \/ p[1] = -1 /\ p[2] \in StashSlot
            \/ p[1] \in Node /\ p[1] # -1 /\ p[2] \in Slot
  BY DEF Place, Node

\* Every slot holds a well-formed block or dummy.
LEMMA BlockInType ==
  ASSUME NEW w \in WorkingSet, NEW p \in Place
  PROVE  BlockIn(w, p) \in Block
<1>1. CASE p[1] = -1 /\ p[2] \in StashSlot BY <1>1 DEF BlockIn, WorkingSet
<1>2. CASE p[1] \in Node /\ p[1] # -1 /\ p[2] \in Slot
  <2>1. w.meta[p[1]][p[2]] \in Meta /\ w.payload[p[1]][p[2]] \in Payloads \cup {ZeroPayload}
    BY <1>2 DEF WorkingSet
  <2> QED BY <1>2, <2>1 DEF BlockIn, Block, Meta
<1> QED BY <1>1, <1>2, PlaceInts

\* Moving a block from p to the free place q.
Moved(w, v, p, q) ==
  /\ BlockIn(v, q) = BlockIn(w, p)
  /\ BlockIn(v, p) = EmptyBlock
  /\ ~BlockIn(w, q).occupied
  /\ \A x \in Place : x # p /\ x # q => BlockIn(v, x) = BlockIn(w, x)

\* Moving a block to a free place keeps the blocks.
LEMMA MoveKeepsBlocks ==
  ASSUME NEW w, NEW v, OneCopyIn(w), NEW p \in Place, NEW q \in Place,
         Moved(w, v, p, q), p # q
  PROVE  SameBlocks(w, v)
<1> SUFFICES ASSUME NEW id \in Id
             PROVE  \E x \in Place, y \in Place :
                      /\ Copies(w, id) = {x}
                      /\ Copies(v, id) = {y}
                      /\ BlockIn(v, y) = BlockIn(w, x)
  BY DEF SameBlocks
<1>1. PICK x \in Place : Copies(w, id) = {x} BY DEF OneCopyIn
<1>2. /\ ~Matches(BlockIn(v, p), id)
      /\ ~Matches(BlockIn(w, q), id)
  BY DEF Moved, Matches, EmptyBlock
<1>3. \A y \in Place : Matches(BlockIn(w, y), id) <=> y = x BY <1>1 DEF Copies
<1>4. x # q BY <1>2, <1>3
<1>5. CASE x = p
  <2>1. Matches(BlockIn(v, q), id) BY <1>3, <1>5 DEF Moved
  <2>2. \A y \in Place : Matches(BlockIn(v, y), id) => y = q
    BY <1>2, <1>3, <1>5 DEF Moved
  <2>3. Copies(v, id) = {q} BY <2>1, <2>2 DEF Copies
  <2> QED BY <1>1, <1>5, <2>3 DEF Moved
<1>6. CASE x # p
  <2>1. BlockIn(v, x) = BlockIn(w, x) BY <1>4, <1>6 DEF Moved
  <2>2. ~Matches(BlockIn(v, q), id) BY <1>3, <1>6 DEF Moved
  <2>3. \A y \in Place : Matches(BlockIn(v, y), id) => y = x
    BY <1>2, <1>3, <2>2 DEF Moved
  <2>4. Copies(v, id) = {x} BY <1>3, <2>1, <2>3 DEF Copies
  <2> QED BY <1>1, <2>1, <2>4
<1> QED BY <1>5, <1>6

\* Moving a block to the stash keeps blocks on their labelled paths.
LEMMA MoveToStashKeepsLabels ==
  ASSUME NEW w, NEW v, NEW labels, OnLabelledPathIn(w, labels),
         NEW p \in Place, NEW q \in Place, Moved(w, v, p, q), q[1] = -1
  PROVE  OnLabelledPathIn(v, labels)
<1> SUFFICES ASSUME NEW x \in Place, BlockIn(v, x).occupied
             PROVE  /\ BlockIn(v, x).id \in Id
                    /\ BlockIn(v, x).leaf = labels[BlockIn(v, x).id]
                    /\ x[1] # -1 =>
                         \E depth \in Depth : node_index(depth, BlockIn(v, x).leaf) = x[1]
  BY DEF OnLabelledPathIn
<1>1. CASE x = q BY <1>1 DEF Moved, OnLabelledPathIn
<1>2. CASE x = p /\ x # q BY <1>2 DEF Moved, EmptyBlock
<1>3. CASE x # p /\ x # q BY <1>3 DEF Moved, OnLabelledPathIn
<1> QED BY <1>1, <1>2, <1>3

\* read_and_remove_target_path moves its target from the path to a free stash
\* slot and touches nothing else.
LEMMA TakeTargetMoves ==
  ASSUME NEW w \in WorkingSet, NEW leaf \in Leaf, NEW id \in Id,
         Hits(w, leaf, id) # {}, FreeSlots(w.stash) # {}
  PROVE  \E p \in Place, q \in Place :
           /\ p[1] # -1 /\ q[1] = -1
           /\ Matches(BlockIn(w, p), id)
           /\ Moved(w, TakeTarget(w, leaf, id), p, q)
<1> DEFINE h == First(Hits(w, leaf, id))
           n == node_index(h[1], leaf)
           i == FirstFree(w.stash)
           m == w.meta[n][h[2]]
           v == TakeTarget(w, leaf, id)
           p == <<n, h[2]>>
           q == <<-1, i>>
<1>1. h \in Hits(w, leaf, id) BY FirstType DEF Hits
<1>2. h \in Depth \X Slot /\ Matches(m, id) BY <1>1 DEF Hits
<1>3. h[1] \in Depth /\ h[2] \in Slot BY <1>2
<1>4. n \in Node /\ n # -1 BY <1>3, NodeIndexType DEF Node
<1>5. i \in StashSlot /\ ~w.stash[i].occupied BY FirstFreeType DEF FreeSlots
<1>6. p \in Place /\ q \in Place /\ p[1] # -1 /\ q[1] = -1
  BY <1>3, <1>4, <1>5 DEF Place
<1>7. v = [meta    |-> [w.meta EXCEPT ![n][h[2]] = EmptyMeta],
           payload |-> [w.payload EXCEPT ![n][h[2]] = ZeroPayload],
           stash   |-> [w.stash EXCEPT ![i] = RealBlock(m.id, m.leaf, w.payload[n][h[2]])]]
  BY DEF TakeTarget
<1> DEFINE s == h[2]
<1>8. s \in Slot BY <1>3
<1>9. p = <<n, s>> OBVIOUS
<1>10. m \in Meta /\ m.occupied = TRUE /\ m = w.meta[n][s]
  BY <1>2, <1>4, <1>8 DEF WorkingSet, Matches, Meta
<1> HIDE DEF n, i, h, s, v, m, p, q
<1>11. BlockIn(w, p) = RealBlock(m.id, m.leaf, w.payload[n][s])
  BY <1>4, <1>9, <1>10 DEF BlockIn, RealBlock
<1>12. Matches(BlockIn(w, p), id) BY <1>2, <1>10, <1>11 DEF Matches, RealBlock
<1>13. BlockIn(v, q) = BlockIn(w, p)
  BY <1>5, <1>7, <1>11 DEF BlockIn, q, WorkingSet, s
<1>14. BlockIn(v, p) = EmptyBlock
  <2>1. v.meta[n][s] = EmptyMeta /\ v.payload[n][s] = ZeroPayload
    BY <1>4, <1>7, <1>8 DEF WorkingSet, s
  <2>2. p[1] = n /\ p[2] = s BY <1>9
  <2>3. BlockIn(v, p) = [occupied |-> EmptyMeta.occupied, id |-> EmptyMeta.id,
                         leaf |-> EmptyMeta.leaf, payload |-> ZeroPayload]
    BY <1>4, <2>1, <2>2 DEF BlockIn
  <2> QED BY <2>3 DEF EmptyBlock, EmptyMeta
<1>15. ~BlockIn(w, q).occupied BY <1>5 DEF BlockIn, q
<1>16. ASSUME NEW x \in Place, x # p, x # q PROVE BlockIn(v, x) = BlockIn(w, x)
  <2>1. CASE x[1] = -1 /\ x[2] \in StashSlot
    <3>1. x = <<-1, x[2]>> BY <2>1, PlaceInts
    <3>2. x[2] # i BY <1>16, <3>1 DEF q
    <3>3. v.stash[x[2]] = w.stash[x[2]] BY <1>7, <2>1, <3>2 DEF WorkingSet
    <3> QED BY <2>1, <3>3 DEF BlockIn
  <2>2. CASE x[1] \in Node /\ x[1] # -1 /\ x[2] \in Slot
    <3>1. x = <<x[1], x[2]>> BY PlaceInts
    <3>2. ~(x[1] = n /\ x[2] = s) BY <1>9, <1>16, <3>1
    <3>3. v.meta[x[1]][x[2]] = w.meta[x[1]][x[2]]
      BY <1>4, <1>7, <1>8, <2>2, <3>2 DEF WorkingSet, s
    <3>4. v.payload[x[1]][x[2]] = w.payload[x[1]][x[2]]
      BY <1>4, <1>7, <1>8, <2>2, <3>2 DEF WorkingSet, s
    <3> QED BY <2>2, <3>3, <3>4 DEF BlockIn
  <2> QED BY <2>1, <2>2, PlaceInts
<1>17. Moved(w, v, p, q) BY <1>13, <1>14, <1>15, <1>16 DEF Moved
<1> QED BY <1>6, <1>12, <1>17 DEF v, p, q

\* After the path of a block has been read the block is in the stash, wherever
\* it was: access never answers BlockNotFound.
LEMMA TargetReachesStash ==
  ASSUME NEW labels \in [Id -> Leaf], NEW w \in WorkingSet, NEW id \in Id,
         OneCopyIn(w), OnLabelledPathIn(w, labels), ~TakeOverflows(w, labels[id], id)
  PROVE  LET t == TakeTarget(w, labels[id], id)
         IN /\ SameBlocks(w, t)
            /\ OnLabelledPathIn(t, labels)
            /\ \E i \in StashSlot : Copies(t, id) = {<<-1, i>>}
<1> DEFINE leaf == labels[id]
           t == TakeTarget(w, leaf, id)
<1>0. leaf \in Leaf OBVIOUS
<1>1. CASE Hits(w, leaf, id) = {}
  <2>1. t = w BY <1>1 DEF TakeTarget
  <2>2. PICK p \in Place : Copies(w, id) = {p} BY DEF OneCopyIn
  <2>3. Matches(BlockIn(w, p), id) BY <2>2 DEF Copies
  <2>4. ASSUME p[1] # -1 PROVE FALSE
    <3>1. p[1] \in Node /\ p[2] \in Slot BY <2>4, PlaceInts
    <3>2. BlockIn(w, p).occupied /\ BlockIn(w, p).id = id BY <2>3 DEF Matches
    <3>3. BlockIn(w, p).leaf = leaf BY <3>2 DEF OnLabelledPathIn
    <3>4. PICK d \in Depth : node_index(d, leaf) = p[1]
      BY <2>4, <3>2, <3>3 DEF OnLabelledPathIn
    <3>5. Matches(w.meta[p[1]][p[2]], id) BY <2>3, <2>4 DEF BlockIn, Matches
    <3>6. <<d, p[2]>> \in Hits(w, leaf, id) BY <3>1, <3>4, <3>5 DEF Hits
    <3> QED BY <1>1, <3>6
  <2>5. p[1] = -1 /\ p[2] \in StashSlot /\ p = <<-1, p[2]>> BY <2>4, PlaceInts
  <2>6. SameBlocks(w, t) BY <2>1, SameBlocksReflexive
  <2> QED BY <2>1, <2>2, <2>5, <2>6
<1>2. CASE Hits(w, leaf, id) # {}
  <2>1. FreeSlots(w.stash) # {} BY <1>2 DEF TakeOverflows
  <2>2. PICK p \in Place, q \in Place :
          /\ p[1] # -1 /\ q[1] = -1
          /\ Matches(BlockIn(w, p), id)
          /\ Moved(w, t, p, q)
    BY <1>0, <1>2, <2>1, TakeTargetMoves
  <2> HIDE DEF t
  <2>3. SameBlocks(w, t) BY <2>2, MoveKeepsBlocks
  <2>4. OnLabelledPathIn(t, labels) BY <2>2, MoveToStashKeepsLabels
  <2>5. q \in Copies(t, id) BY <2>2 DEF Moved, Copies
  <2>6. Copies(t, id) = {q}
    <3>1. PICK y : Copies(t, id) = {y} BY <2>3 DEF SameBlocks
    <3> QED BY <2>5, <3>1
  <2>7. q = <<-1, q[2]>> /\ q[2] \in StashSlot BY <2>2, PlaceInts
  <2> QED BY <2>3, <2>4, <2>6, <2>7 DEF t
<1> QED BY <1>1, <1>2

\* The update scan rewrites the stash copy of one block and leaves the others
\* alone; with the new label in the position map, labels still agree.
LEMMA RelabelRewrites ==
  ASSUME NEW labels \in [Id -> Leaf], NEW w \in WorkingSet, NEW id \in Id,
         OneCopyIn(w), OnLabelledPathIn(w, labels), NEW i \in StashSlot,
         Copies(w, id) = {<<-1, i>>}, NEW p, NEW new_leaf \in Leaf
  PROVE  LET v == [w EXCEPT !.stash = Relabel(w.stash, id, p, new_leaf)]
         IN /\ Rewritten(w, v, id, [w.stash[i] EXCEPT !.payload = p, !.leaf = new_leaf])
            /\ OnLabelledPathIn(v, [labels EXCEPT ![id] = new_leaf])
<1> DEFINE v == [w EXCEPT !.stash = Relabel(w.stash, id, p, new_leaf)]
           b == [w.stash[i] EXCEPT !.payload = p, !.leaf = new_leaf]
           q == <<-1, i>>
           labels2 == [labels EXCEPT ![id] = new_leaf]
<1>1. q \in Place /\ q[1] = -1 /\ q[2] = i BY DEF Place
<1>2. \A y \in Place : Matches(BlockIn(w, y), id) <=> y = q BY <1>1 DEF Copies
<1>3. BlockIn(w, q) = w.stash[i] BY DEF BlockIn
<1>4. StashCopies(w.stash, id) = {i}
  <2>1. ASSUME NEW j \in StashSlot PROVE Matches(w.stash[j], id) <=> j = i
    <3>1. <<-1, j>> \in Place /\ BlockIn(w, <<-1, j>>) = w.stash[j] BY DEF Place, BlockIn
    <3> QED BY <1>2, <3>1
  <2> QED BY <2>1 DEF StashCopies
<1>5. w.stash[i] \in Block /\ w.stash[i].occupied /\ w.stash[i].id = id
  BY <1>1, <1>2, <1>3 DEF WorkingSet, Matches
<1>6. b.occupied /\ b.id = id /\ b.leaf = new_leaf BY <1>5 DEF Block
<1>7. v.meta = w.meta /\ v.payload = w.payload /\ v.stash = Relabel(w.stash, id, p, new_leaf)
  BY DEF WorkingSet
<1>8. v.stash[i] = b BY <1>4, <1>7 DEF Relabel
<1>9. \A j \in StashSlot : j # i => v.stash[j] = w.stash[j] BY <1>4, <1>7 DEF Relabel
<1> HIDE DEF v, b
<1>10. BlockIn(v, q) = b BY <1>8 DEF BlockIn
<1>11. ASSUME NEW x \in Place, x # q PROVE BlockIn(v, x) = BlockIn(w, x)
  <2>1. CASE x[1] = -1 /\ x[2] \in StashSlot
    <3>1. x = <<-1, x[2]>> BY <2>1, PlaceInts
    <3>2. x[2] # i BY <1>11, <3>1
    <3> QED BY <1>9, <2>1, <3>2 DEF BlockIn
  <2>2. CASE x[1] \in Node /\ x[1] # -1 /\ x[2] \in Slot
    BY <1>7, <2>2 DEF BlockIn
  <2> QED BY <2>1, <2>2, PlaceInts
<1> HIDE DEF q
<1>12. Rewritten(w, v, id, b)
  <2> SUFFICES ASSUME NEW j \in Id
               PROVE  \E x \in Place, y \in Place :
                        /\ Copies(w, j) = {x}
                        /\ Copies(v, j) = {y}
                        /\ BlockIn(v, y) = IF j = id THEN b ELSE BlockIn(w, x)
    BY DEF Rewritten
  <2>1. PICK x \in Place : Copies(w, j) = {x} BY DEF OneCopyIn
  <2>2. \A y \in Place : Matches(BlockIn(w, y), j) <=> y = x BY <2>1 DEF Copies
  <2>3. CASE j = id
    <3>1. x = q BY <1>1, <1>2, <2>2, <2>3
    <3>2. Matches(BlockIn(v, q), j) BY <1>6, <1>10, <2>3 DEF Matches
    <3>3. \A y \in Place : Matches(BlockIn(v, y), j) => y = q BY <1>2, <1>11, <2>3
    <3>4. Copies(v, j) = {q} BY <1>1, <3>2, <3>3 DEF Copies
    <3> QED BY <1>1, <1>10, <2>1, <2>3, <3>4
  <2>4. CASE j # id
    <3>1. ~Matches(BlockIn(v, q), j) BY <1>6, <1>10, <2>4 DEF Matches
    <3>2. x # q
      <4>1. ~Matches(BlockIn(w, q), j) BY <1>1, <1>2, <2>4 DEF Matches
      <4> QED BY <2>2, <4>1
    <3>3. \A y \in Place : Matches(BlockIn(v, y), j) => y = x BY <1>11, <2>2, <3>1
    <3>4. BlockIn(v, x) = BlockIn(w, x) BY <1>11, <3>2
    <3>5. Copies(v, j) = {x} BY <2>2, <3>3, <3>4 DEF Copies
    <3> QED BY <2>1, <2>4, <3>4, <3>5
  <2> QED BY <2>3, <2>4
<1>13. OnLabelledPathIn(v, labels2)
  <2> SUFFICES ASSUME NEW x \in Place, BlockIn(v, x).occupied
               PROVE  /\ BlockIn(v, x).id \in Id
                      /\ BlockIn(v, x).leaf = labels2[BlockIn(v, x).id]
                      /\ x[1] # -1 =>
                           \E depth \in Depth : node_index(depth, BlockIn(v, x).leaf) = x[1]
    BY DEF OnLabelledPathIn
  <2>1. CASE x = q
    <3>1. labels2[id] = new_leaf OBVIOUS
    <3> HIDE DEF labels2
    <3> QED BY <1>1, <1>6, <1>10, <2>1, <3>1
  <2>2. CASE x # q
    <3>1. BlockIn(v, x) = BlockIn(w, x) BY <1>11, <2>2
    <3>2. BlockIn(w, x).occupied BY <3>1
    <3>3. BlockIn(w, x).id # id BY <1>2, <2>2, <3>2 DEF Matches
    <3>4. BlockIn(w, x).id \in Id BY <3>2 DEF OnLabelledPathIn
    <3>5. labels2[BlockIn(w, x).id] = labels[BlockIn(w, x).id] BY <3>3, <3>4
    <3> HIDE DEF labels2
    <3> QED BY <3>1, <3>2, <3>5 DEF OnLabelledPathIn
  <2> QED BY <2>1, <2>2
<1> QED BY <1>12, <1>13 DEF v, b

\* Moving blocks and then rewriting one is rewriting one.
LEMMA RewrittenAfterMove ==
  ASSUME NEW w, NEW t, NEW v, NEW id, NEW b, SameBlocks(w, t), Rewritten(t, v, id, b)
  PROVE  Rewritten(w, v, id, b)
<1> SUFFICES ASSUME NEW j \in Id
             PROVE  \E x \in Place, y \in Place :
                      /\ Copies(w, j) = {x}
                      /\ Copies(v, j) = {y}
                      /\ BlockIn(v, y) = IF j = id THEN b ELSE BlockIn(w, x)
  BY DEF Rewritten
<1>1. PICK x \in Place, z \in Place :
        Copies(w, j) = {x} /\ Copies(t, j) = {z} /\ BlockIn(t, z) = BlockIn(w, x)
  BY DEF SameBlocks
<1>2. PICK u \in Place, y \in Place :
        /\ Copies(t, j) = {u} /\ Copies(v, j) = {y}
        /\ BlockIn(v, y) = IF j = id THEN b ELSE BlockIn(t, u)
  BY DEF Rewritten
<1>3. z = u BY <1>1, <1>2
<1> QED BY <1>1, <1>2, <1>3

\* Rewriting a block in place keeps one copy of each.
LEMMA RewrittenKeepsOneCopy ==
  ASSUME NEW w, NEW v, NEW id, NEW b, Rewritten(w, v, id, b) PROVE OneCopyIn(v)
  BY DEF Rewritten, OneCopyIn

\* access either finds the stash full and changes nothing, or returns the
\* payload of the block, rewrites that block alone and gives it the new label.
LEMMA AccessKeepsBlocks ==
  ASSUME NEW labels \in [Id -> Leaf], NEW w \in WorkingSet, NEW id \in Id,
         OneCopyIn(w), OnLabelledPathIn(w, labels), NEW update, NEW new_leaf \in Leaf
  PROVE  LET r == AccessOutcome(w, labels[id], id, update, new_leaf)
         IN \/ r.reply = Err("StashOverflow") /\ r.w = w
            \/ \E p \in Place :
                 /\ Copies(w, id) = {p}
                 /\ r.reply = Ok(<<BlockIn(w, p).payload>>)
                 /\ Rewritten(w, r.w, id,
                      [BlockIn(w, p) EXCEPT !.payload = Apply(update, BlockIn(w, p).payload),
                                            !.leaf = new_leaf])
                 /\ OnLabelledPathIn(r.w, [labels EXCEPT ![id] = new_leaf])
<1> DEFINE leaf == labels[id]
           r == AccessOutcome(w, leaf, id, update, new_leaf)
           t == TakeTarget(w, leaf, id)
           labels2 == [labels EXCEPT ![id] = new_leaf]
<1>1. CASE TakeOverflows(w, leaf, id)
  BY <1>1 DEF AccessOutcome
<1>2. CASE ~TakeOverflows(w, leaf, id)
  <2>1. t \in WorkingSet BY TakeTargetType
  <2>2. SameBlocks(w, t) /\ OnLabelledPathIn(t, labels) BY <1>2, TargetReachesStash
  <2>3. PICK i \in StashSlot : Copies(t, id) = {<<-1, i>>} BY <1>2, TargetReachesStash
  <2> DEFINE old == StashPayload(t.stash, id)
             v == [t EXCEPT !.stash = Relabel(t.stash, id, Apply(update, old), new_leaf)]
  <2>4. StashCopies(t.stash, id) # {} =>
          r = [reply |-> Ok(<<old>>), w |-> v]
    BY <1>2 DEF AccessOutcome
  <2> HIDE DEF t, r
  <2>5. StashCopies(t.stash, id) = {i}
    <3>1. \A y \in Place : Matches(BlockIn(t, y), id) <=> y = <<-1, i>>
      BY <2>3 DEF Copies, Place
    <3>2. ASSUME NEW j \in StashSlot PROVE Matches(t.stash[j], id) <=> j = i
      <4>1. <<-1, j>> \in Place /\ BlockIn(t, <<-1, j>>) = t.stash[j] BY DEF Place, BlockIn
      <4> QED BY <3>1, <4>1
    <3> QED BY <3>2 DEF StashCopies
  <2>6. old = t.stash[i].payload
    <3>1. i <= i BY ParamsAssumption DEF StashSlot
    <3>2. (CHOOSE j \in {i} : \A k \in {i} : k <= j) = i BY <3>1
    <3> QED BY <2>5, <3>2 DEF StashPayload
  <2> HIDE DEF old
  <2>7. r = [reply |-> Ok(<<old>>), w |-> v] BY <2>4, <2>5
  <2>8. OneCopyIn(t) BY <2>2, SameBlocksKeepOneCopy
  <2> DEFINE b == [t.stash[i] EXCEPT !.payload = Apply(update, old), !.leaf = new_leaf]
  <2>9. Rewritten(t, v, id, b) /\ OnLabelledPathIn(v, labels2)
    BY <2>1, <2>2, <2>3, <2>8, RelabelRewrites
  <2> HIDE DEF v, labels2
  <2>10. PICK p \in Place, z \in Place :
           Copies(w, id) = {p} /\ Copies(t, id) = {z} /\ BlockIn(t, z) = BlockIn(w, p)
    BY <2>2 DEF SameBlocks
  <2>11. z = <<-1, i>> BY <2>3, <2>10
  <2>12. t.stash[i] = BlockIn(w, p) BY <2>10, <2>11 DEF BlockIn
  <2>13. b = [BlockIn(w, p) EXCEPT !.payload = Apply(update, BlockIn(w, p).payload),
                                   !.leaf = new_leaf]
    BY <2>6, <2>12
  <2> HIDE DEF b
  <2>14. Rewritten(w, v, id, b) BY <2>2, <2>9, RewrittenAfterMove
  <2>15. r.w = v /\ r.reply = Ok(<<BlockIn(w, p).payload>>) BY <2>6, <2>7, <2>12
  <2> QED BY <2>9, <2>10, <2>13, <2>14, <2>15 DEF r, labels2
<1> QED BY <1>1, <1>2

-----------------------------------------------------------------------------
(* The trusted build, and the inductive invariant.                         *)

\* The place of block `id` after the build.
BuiltIn(labels, rest, id, p) ==
  IF p[1] = -1 THEN SpilledTo(rest, id, p[2]) ELSE BuiltAt(labels, rest, id, p[1], p[2])

\* Finitely many blocks are placed before a given one.
LEMMA EarlierFinite ==
  ASSUME NEW S, NEW id \in Id, S \subseteq 0 .. id - 1
  PROVE  IsFiniteSet(S) /\ Cardinality(S) \in Nat
<1>1. 0 \in Int /\ id - 1 \in Int BY ParamsAssumption DEF Id
<1>2. IsFiniteSet(0 .. id - 1) BY <1>1, FS_Interval
<1> QED BY <1>2, FS_Subset, FS_CardinalityType

\* A proper subset of a finite set has fewer members.
LEMMA OneMore ==
  ASSUME NEW S, NEW T, IsFiniteSet(T), S \subseteq T, NEW x, x \in T, x \notin S
  PROVE  /\ Cardinality(S) \in Nat /\ Cardinality(T) \in Nat
         /\ Cardinality(S) < Cardinality(T)
<1>1. S # T OBVIOUS
<1>2. /\ Cardinality(S) \in Nat /\ Cardinality(T) \in Nat
      /\ Cardinality(S) <= Cardinality(T) /\ Cardinality(S) # Cardinality(T)
  BY <1>1, SubsetCardinality
<1> QED BY <1>2

\* place_initial_meta gives every block exactly one place, inside the tree or
\* the stash.
LEMMA BuiltSomewhere ==
  ASSUME NEW labels \in [Id -> Leaf], NEW rest \in [Id -> -1 .. LeafBits],
         IsInitialPlacement(labels, rest), Cardinality(Spilled(rest)) <= StashCapacity,
         NEW id \in Id
  PROVE  \E p \in Place : \A q \in Place : BuiltIn(labels, rest, id, q) <=> q = p
<1>1. CASE rest[id] = -1
  <2> DEFINE S == {j \in Spilled(rest) : j < id}
             i == Cardinality(S)
  <2>1. Id \subseteq Nat /\ IsFiniteSet(Id)
    <3>1. 0 \in Int /\ LogicalBlocks - 1 \in Int BY ParamsAssumption
    <3> QED BY <3>1, FS_Interval DEF Id
  <2>2. IsFiniteSet(Spilled(rest)) BY <2>1, FS_Subset DEF Spilled
  <2>3. id \in Spilled(rest) /\ id \notin S /\ S \subseteq Spilled(rest)
    BY <1>1, <2>1 DEF Spilled
  <2>4. i \in Nat /\ Cardinality(Spilled(rest)) \in Nat /\ i < Cardinality(Spilled(rest))
    <3> HIDE DEF S
    <3> QED BY <2>2, <2>3, OneMore
  <2> HIDE DEF i
  <2>5. i \in StashSlot BY <2>4, ParamsAssumption DEF StashSlot
  <2>6. <<-1, i>> \in Place BY <2>5 DEF Place
  <2>7. ASSUME NEW q \in Place PROVE BuiltIn(labels, rest, id, q) <=> q = <<-1, i>>
    <3>1. CASE q[1] = -1
      <4>1. q = <<-1, q[2]>> BY <3>1, PlaceInts
      <4>2. BuiltIn(labels, rest, id, q) <=> q[2] = i
        BY <1>1, <3>1 DEF BuiltIn, SpilledTo, i
      <4> QED BY <4>1, <4>2
    <3>2. CASE q[1] # -1 BY <1>1, <3>2 DEF BuiltIn, BuiltAt
    <3> QED BY <3>1, <3>2
  <2> QED BY <2>6, <2>7
<1>2. CASE rest[id] # -1
  <2> DEFINE d == rest[id]
             n == node_index(d, labels[id])
             E == Earlier(labels, rest, id, d)
             s == Cardinality(E)
  <2>1. d \in Depth /\ s < BucketSize
    BY <1>2 DEF IsInitialPlacement, Room
  <2>2. E \subseteq 0 .. id - 1 BY DEF Earlier
  <2>3. s \in Nat BY <2>2, EarlierFinite
  <2>4. n \in Node /\ n # -1 BY <2>1, NodeIndexType DEF Node
  <2>5. s \in Slot BY <2>1, <2>3, ParamsAssumption DEF Slot
  <2>6. <<n, s>> \in Place BY <2>4, <2>5 DEF Place
  <2>7. ASSUME NEW q \in Place PROVE BuiltIn(labels, rest, id, q) <=> q = <<n, s>>
    <3>0. q = <<q[1], q[2]>> BY PlaceInts
    <3>1. CASE q[1] = -1 BY <1>2, <2>4, <3>1 DEF BuiltIn, SpilledTo
    <3>2. CASE q[1] # -1
      <4>1. BuiltIn(labels, rest, id, q) <=> q[1] = n /\ q[2] = s
        BY <1>2, <3>2 DEF BuiltIn, BuiltAt
      <4> HIDE DEF n, s
      <4> QED BY <3>0, <4>1
    <3> QED BY <3>1, <3>2
  <2> QED BY <2>6, <2>7
<1> QED BY <1>1, <1>2

\* place_initial_meta gives no two blocks the same place.
LEMMA BuiltApart ==
  ASSUME NEW labels \in [Id -> Leaf], NEW rest \in [Id -> -1 .. LeafBits],
         IsInitialPlacement(labels, rest),
         NEW a \in Id, NEW b \in Id, NEW p,
         BuiltIn(labels, rest, a, p), BuiltIn(labels, rest, b, p)
  PROVE  a = b
<1>0. Id \subseteq Nat /\ IsFiniteSet(Id)
  <2>1. 0 \in Int /\ LogicalBlocks - 1 \in Int BY ParamsAssumption
  <2> QED BY <2>1, FS_Interval DEF Id
<1>1. ASSUME NEW x \in Id, NEW y \in Id, x < y,
             BuiltIn(labels, rest, x, p), BuiltIn(labels, rest, y, p)
      PROVE  FALSE
  <2>1. CASE p[1] = -1
    <3> DEFINE S == {j \in Spilled(rest) : j < x}
               T == {j \in Spilled(rest) : j < y}
    <3>0. Spilled(rest) \subseteq Id /\ x \in Spilled(rest) /\ x \in Nat /\ y \in Nat
      BY <1>0, <1>1, <2>1 DEF BuiltIn, SpilledTo, Spilled
    <3>1. S \subseteq T /\ x \in T /\ x \notin S /\ T \subseteq Id
      <4>1. x < y BY <1>1
      <4>2. \A j \in Spilled(rest) : j \in Nat BY <1>0, <3>0
      <4>3. ASSUME NEW j \in S PROVE j \in T
        <5>1. j \in Spilled(rest) /\ j < x BY <4>3
        <5>2. j \in Nat BY <4>2, <5>1
        <5>3. j < y BY <3>0, <4>1, <5>1, <5>2
        <5> QED BY <5>1, <5>3
      <4>4. x \in T /\ x \notin S BY <3>0, <4>1
      <4> QED BY <3>0, <4>3, <4>4
    <3>2. Cardinality(S) = Cardinality(T)
      BY <1>1, <2>1 DEF BuiltIn, SpilledTo
    <3>3. IsFiniteSet(T) BY <1>0, <3>1, FS_Subset
    <3> HIDE DEF S, T
    <3> QED BY <3>1, <3>2, <3>3, OneMore
  <2>2. CASE p[1] # -1
    <3>1. /\ rest[x] # -1 /\ rest[y] # -1
          /\ node_index(rest[x], labels[x]) = node_index(rest[y], labels[y])
          /\ Cardinality(Earlier(labels, rest, x, rest[x]))
               = Cardinality(Earlier(labels, rest, y, rest[y]))
      BY <1>1, <2>2 DEF BuiltIn, BuiltAt
    <3>2. rest[x] \in Depth /\ rest[y] \in Depth
      BY <3>1 DEF IsInitialPlacement, Room
    <3>3. rest[x] = rest[y] BY <3>1, <3>2, LevelsDisjoint
    <3> DEFINE d == rest[x]
               S == Earlier(labels, rest, x, d)
               T == Earlier(labels, rest, y, d)
    <3>4. S \subseteq T BY <1>0, <1>1, <3>1, <3>3 DEF Earlier
    <3>5. x \in T /\ x \notin S BY <1>0, <1>1, <3>1, <3>3 DEF Earlier
    <3>6. T \subseteq 0 .. y - 1 BY DEF Earlier
    <3>7. Cardinality(S) = Cardinality(T) BY <3>1, <3>3
    <3> HIDE DEF S, T
    <3>8. IsFiniteSet(T) BY <3>6, EarlierFinite
    <3> QED BY <3>4, <3>5, <3>7, <3>8, OneMore
  <2> QED BY <2>1, <2>2
<1>2. ~(a < b) /\ ~(b < a) BY <1>1
<1> QED BY <1>0, <1>2

\* The trusted build stores every block once, on the path to its label, and
\* scrubbed dummies everywhere else.
LEMMA BlocksInit ==
  Init => /\ OneCopy /\ OnLabelledPath /\ DummiesScrubbed
          /\ \A id \in Id : \E p \in Place :
               Copies(Working, id) = {p} /\ BlockIn(Working, p).payload \in Payloads
<1> SUFFICES ASSUME Init
             PROVE  /\ OneCopy /\ OnLabelledPath /\ DummiesScrubbed
                    /\ \A id \in Id : \E p \in Place :
                         Copies(Working, id) = {p} /\ BlockIn(Working, p).payload \in Payloads
  OBVIOUS
<1>1. pos_map \in [Id -> Leaf] BY DEF Init
<1>2. PICK rest \in [Id -> -1 .. LeafBits], source \in [Id -> Payloads] :
       /\ IsInitialPlacement(pos_map, rest)
       /\ Cardinality(Spilled(rest)) <= StashCapacity
       /\ meta = [n \in Node |-> [s \in Slot |->
            IF \E id \in Id : BuiltAt(pos_map, rest, id, n, s)
            THEN LET id == CHOOSE id \in Id : BuiltAt(pos_map, rest, id, n, s)
                 IN RealMeta(id, pos_map[id])
            ELSE EmptyMeta]]
       /\ payload = [n \in Node |-> [s \in Slot |->
            IF \E id \in Id : BuiltAt(pos_map, rest, id, n, s)
            THEN source[CHOOSE id \in Id : BuiltAt(pos_map, rest, id, n, s)]
            ELSE ZeroPayload]]
       /\ stash = [i \in StashSlot |->
            IF \E id \in Id : SpilledTo(rest, id, i)
            THEN LET id == CHOOSE id \in Id : SpilledTo(rest, id, i)
                 IN RealBlock(id, pos_map[id], source[id])
            ELSE EmptyBlock]
  BY DEF Init
<1> DEFINE At(id, p) == BuiltIn(pos_map, rest, id, p)
<1>3. ASSUME NEW p \in Place, NEW id \in Id, At(id, p)
      PROVE  BlockIn(Working, p) = RealBlock(id, pos_map[id], source[id])
  <2>1. \A j \in Id : At(j, p) => j = id BY <1>1, <1>2, <1>3, BuiltApart
  <2>2. CASE p[1] = -1 /\ p[2] \in StashSlot
    <3>1. \A j \in Id : SpilledTo(rest, j, p[2]) <=> j = id
      BY <1>3, <2>1, <2>2 DEF BuiltIn
    <3>2. (CHOOSE j \in Id : SpilledTo(rest, j, p[2])) = id BY <3>1
    <3>3. stash[p[2]] = RealBlock(id, pos_map[id], source[id])
      BY <1>2, <2>2, <3>1, <3>2
    <3> QED BY <2>2, <3>3 DEF BlockIn, Working
  <2>3. CASE p[1] \in Node /\ p[1] # -1 /\ p[2] \in Slot
    <3>1. \A j \in Id : BuiltAt(pos_map, rest, j, p[1], p[2]) <=> j = id
      BY <1>3, <2>1, <2>3 DEF BuiltIn
    <3>2. (CHOOSE j \in Id : BuiltAt(pos_map, rest, j, p[1], p[2])) = id BY <3>1
    <3>3. meta[p[1]][p[2]] = RealMeta(id, pos_map[id])
      BY <1>2, <2>3, <3>1, <3>2
    <3>4. payload[p[1]][p[2]] = source[id]
      BY <1>2, <2>3, <3>1, <3>2
    <3> DEFINE m == RealMeta(id, pos_map[id])
    <3>5. BlockIn(Working, p) = [occupied |-> m.occupied, id |-> m.id, leaf |-> m.leaf,
                                 payload |-> source[id]]
      BY <2>3, <3>3, <3>4 DEF BlockIn, Working
    <3> QED BY <3>5 DEF RealMeta, RealBlock
  <2> QED BY <2>2, <2>3, PlaceInts
<1>4. ASSUME NEW p \in Place, \A id \in Id : ~At(id, p)
      PROVE  BlockIn(Working, p) = EmptyBlock
  <2>1. CASE p[1] = -1 /\ p[2] \in StashSlot
    <3>1. stash[p[2]] = EmptyBlock BY <1>2, <1>4, <2>1 DEF BuiltIn
    <3> QED BY <2>1, <3>1 DEF BlockIn, Working
  <2>2. CASE p[1] \in Node /\ p[1] # -1 /\ p[2] \in Slot
    <3>1. \A j \in Id : ~BuiltAt(pos_map, rest, j, p[1], p[2]) BY <1>4, <2>2 DEF BuiltIn
    <3>2. meta[p[1]][p[2]] = EmptyMeta BY <1>2, <2>2, <3>1
    <3>3. payload[p[1]][p[2]] = ZeroPayload BY <1>2, <2>2, <3>1
    <3>4. BlockIn(Working, p) = [occupied |-> EmptyMeta.occupied, id |-> EmptyMeta.id,
                                 leaf |-> EmptyMeta.leaf, payload |-> ZeroPayload]
      BY <2>2, <3>2, <3>3 DEF BlockIn, Working
    <3> QED BY <3>4 DEF EmptyBlock, EmptyMeta
  <2> QED BY <2>1, <2>2, PlaceInts
<1> HIDE DEF At
<1>5. ASSUME NEW p \in Place, NEW id \in Id
      PROVE  Matches(BlockIn(Working, p), id) <=> At(id, p)
  <2>1. ASSUME At(id, p) PROVE Matches(BlockIn(Working, p), id)
    BY <1>3, <2>1 DEF Matches, RealBlock
  <2>2. ASSUME Matches(BlockIn(Working, p), id) PROVE At(id, p)
    <3>1. BlockIn(Working, p) # EmptyBlock BY <2>2 DEF Matches, EmptyBlock
    <3>2. PICK j \in Id : At(j, p) BY <1>4, <3>1
    <3>3. j = id BY <1>3, <2>2, <3>2 DEF Matches, RealBlock
    <3> QED BY <3>2, <3>3
  <2> QED BY <2>1, <2>2
<1>6. OneCopy
  <2> SUFFICES ASSUME NEW id \in Id PROVE \E p \in Place : Copies(Working, id) = {p}
    BY DEF OneCopy, OneCopyIn
  <2>1. PICK p \in Place : \A q \in Place : At(id, q) <=> q = p
    BY <1>1, <1>2, BuiltSomewhere DEF At
  <2>2. Copies(Working, id) = {p} BY <1>5, <2>1 DEF Copies
  <2> QED BY <2>2
<1>8. ASSUME NEW id \in Id
      PROVE  \E p \in Place :
               Copies(Working, id) = {p} /\ BlockIn(Working, p).payload \in Payloads
  <2>1. PICK p \in Place : Copies(Working, id) = {p} BY <1>6 DEF OneCopy, OneCopyIn
  <2>2. At(id, p) BY <1>5, <2>1 DEF Copies
  <2>3. BlockIn(Working, p).payload = source[id] BY <1>3, <2>2 DEF RealBlock
  <2> QED BY <2>1, <2>3
<1>7. OnLabelledPath
  <2> SUFFICES ASSUME NEW p \in Place, BlockIn(Working, p).occupied
               PROVE  /\ BlockIn(Working, p).id \in Id
                      /\ BlockIn(Working, p).leaf = pos_map[BlockIn(Working, p).id]
                      /\ p[1] # -1 =>
                           \E depth \in Depth : node_index(depth, BlockIn(Working, p).leaf) = p[1]
    BY DEF OnLabelledPath, OnLabelledPathIn
  <2>1. BlockIn(Working, p) # EmptyBlock BY DEF EmptyBlock
  <2>2. PICK id \in Id : At(id, p) BY <1>4, <2>1
  <2>3. BlockIn(Working, p) = RealBlock(id, pos_map[id], source[id]) BY <1>3, <2>2
  <2>4. BlockIn(Working, p).id = id /\ BlockIn(Working, p).leaf = pos_map[id]
    BY <2>3 DEF RealBlock
  <2>5. ASSUME p[1] # -1 PROVE \E depth \in Depth : node_index(depth, pos_map[id]) = p[1]
    <3>1. rest[id] # -1 /\ p[1] = node_index(rest[id], pos_map[id])
      BY <2>2, <2>5 DEF At, BuiltIn, BuiltAt
    <3>2. rest[id] \in Depth BY <1>2, <3>1 DEF IsInitialPlacement, Room
    <3> QED BY <3>1, <3>2
  <2> QED BY <2>4, <2>5
<1>9. DummiesScrubbed
  <2>1. ASSUME NEW p \in Place, NEW id \in Id, At(id, p) PROVE BlockIn(Working, p).occupied
    BY <1>3, <2>1 DEF RealBlock
  <2> QED BY <1>4, <2>1 DEF DummiesScrubbed
<1> QED BY <1>6, <1>7, <1>8, <1>9

\* The inductive invariant.
BlockInvariant == StateTypes /\ OneCopy /\ OnLabelledPath

\* The invariants in the next state speak of the next working set.
LEMMA WorkingPrimed ==
  /\ OneCopy' <=> OneCopyIn([meta |-> meta', payload |-> payload', stash |-> stash'])
  /\ OnLabelledPath' <=>
       OnLabelledPathIn([meta |-> meta', payload |-> payload', stash |-> stash'], pos_map')
  BY DEF OneCopy, OnLabelledPath, Working

\* A working set is made of its three parts.
LEMMA WorkingIs ==
  ASSUME NEW w \in WorkingSet
  PROVE  w = [meta |-> w.meta, payload |-> w.payload, stash |-> w.stash]
  BY DEF WorkingSet

\* Every public operation keeps one copy of each block on its labelled path.
LEMMA BlocksStep == BlockInvariant /\ [Next]_vars => (OneCopy /\ OnLabelledPath)'
<1> SUFFICES ASSUME BlockInvariant, [Next]_vars PROVE (OneCopy /\ OnLabelledPath)'
  OBVIOUS
<1>1. Working \in WorkingSet /\ pos_map \in [Id -> Leaf]
  BY WorkingType DEF BlockInvariant, StateTypes
<1>2. OneCopyIn(Working) /\ OnLabelledPathIn(Working, pos_map)
  BY DEF BlockInvariant, OneCopy, OnLabelledPath
<1>3. ASSUME NEW w \in WorkingSet, meta' = w.meta, payload' = w.payload, stash' = w.stash,
             OneCopyIn(w), OnLabelledPathIn(w, pos_map')
      PROVE  (OneCopy /\ OnLabelledPath)'
  <2>1. w = [meta |-> meta', payload |-> payload', stash |-> stash'] BY <1>3, WorkingIs
  <2> QED BY <1>3, <2>1, WorkingPrimed
<1>4. ASSUME UNCHANGED <<meta, payload, stash, pos_map>>
      PROVE  (OneCopy /\ OnLabelledPath)'
  BY <1>1, <1>2, <1>3, <1>4 DEF Working
<1>5. ASSUME NEW id \in Id, NEW update \in Update, access(id, update)
      PROVE  (OneCopy /\ OnLabelledPath)'
  <2>1. PICK new_leaf \in Leaf :
          LET r == AccessOutcome(Working, pos_map[id], id, update, new_leaf)
          IN /\ SetWorking(r.w)
             /\ IF r.reply.result = "ok"
                THEN pos_map' = [pos_map EXCEPT ![id] = new_leaf]
                ELSE UNCHANGED pos_map
    BY <1>5 DEF access
  <2> DEFINE r == AccessOutcome(Working, pos_map[id], id, update, new_leaf)
             New(p) == [BlockIn(Working, p) EXCEPT
                          !.payload = Apply(update, BlockIn(Working, p).payload),
                          !.leaf = new_leaf]
  <2>2. r.w \in WorkingSet BY <1>1, AccessOutcomeType
  <2>3. \/ r.reply = Err("StashOverflow") /\ r.w = Working
        \/ \E p \in Place :
             /\ Copies(Working, id) = {p}
             /\ r.reply = Ok(<<BlockIn(Working, p).payload>>)
             /\ Rewritten(Working, r.w, id, New(p))
             /\ OnLabelledPathIn(r.w, [pos_map EXCEPT ![id] = new_leaf])
    BY <1>1, <1>2, AccessKeepsBlocks
  <2>4. meta' = r.w.meta /\ payload' = r.w.payload /\ stash' = r.w.stash
    BY <2>1 DEF SetWorking
  <2>5. IF r.reply.result = "ok" THEN pos_map' = [pos_map EXCEPT ![id] = new_leaf]
                                 ELSE pos_map' = pos_map
    BY <2>1
  <2> HIDE DEF r, New
  <2>6. CASE r.reply = Err("StashOverflow") /\ r.w = Working
    <3>1. pos_map' = pos_map BY <2>5, <2>6 DEF Err
    <3> QED BY <1>2, <1>3, <2>2, <2>4, <2>6, <3>1
  <2>7. ASSUME NEW p \in Place,
               r.reply = Ok(<<BlockIn(Working, p).payload>>),
               Rewritten(Working, r.w, id, New(p)),
               OnLabelledPathIn(r.w, [pos_map EXCEPT ![id] = new_leaf])
        PROVE  (OneCopy /\ OnLabelledPath)'
    <3>1. pos_map' = [pos_map EXCEPT ![id] = new_leaf] BY <2>5, <2>7 DEF Ok
    <3>2. OneCopyIn(r.w) BY <2>7, RewrittenKeepsOneCopy
    <3> QED BY <1>3, <2>2, <2>4, <2>7, <3>1, <3>2
  <2> QED BY <2>3, <2>6, <2>7
<1>6. CASE access_out_of_range
  BY <1>4, <1>6 DEF access_out_of_range
<1>7. CASE dummy_access
  BY <1>4, <1>7 DEF dummy_access
<1>8. ASSUME NEW budget \in 0 .. MaxBudget, drain_evictions(budget)
      PROVE  (OneCopy /\ OnLabelledPath)'
  <2> DEFINE r == EvictPaths(Working, completed_evictions)[ToDrain(budget)]
  <2>1. completed_evictions \in Nat /\ ToDrain(budget) \in Nat
    <3>1. issued_accesses * EvictionsPerAccess \in Nat
      BY DebtArithmetic, RateAssumption DEF BlockInvariant, StateTypes
    <3> QED BY <3>1, CircuitAssumption DEF ToDrain, Debt, BlockInvariant, StateTypes
  <2>2. /\ r.ok /\ r.w \in WorkingSet /\ SameBlocks(Working, r.w)
        /\ OnLabelledPathIn(r.w, pos_map)
    BY <1>1, <1>2, <2>1, DrainKeepsBlocks
  <2>3. /\ meta' = IF r.ok THEN r.w.meta ELSE meta
        /\ payload' = IF r.ok THEN r.w.payload ELSE payload
        /\ stash' = r.w.stash
        /\ pos_map' = pos_map
    BY <1>8 DEF drain_evictions
  <2> HIDE DEF r
  <2>4. OneCopyIn(r.w) BY <2>2, SameBlocksKeepOneCopy
  <2> QED BY <1>3, <2>2, <2>3, <2>4
<1>9. CASE UNCHANGED vars
  BY <1>4, <1>9 DEF vars
<1> QED BY <1>5, <1>6, <1>7, <1>8, <1>9 DEF Next

\* BlockInvariant is inductive: the two properties need each other (an eviction
\* that finds a block off its path could overflow, a second copy could survive an
\* access with a stale label) and the type invariant.
LEMMA BlockInvariantHolds == Spec => []BlockInvariant
<1> DEFINE Blocks == OneCopy /\ OnLabelledPath
<1>1. TypeOK /\ Blocks => BlockInvariant BY DEF BlockInvariant, StateTypes, TypeOK
<1>2. Init => Blocks BY BlocksInit
<1>3. TypeOK /\ Blocks /\ [Next]_vars => Blocks' BY <1>1, BlocksStep
<1> QED BY <1>1, <1>2, <1>3, TypeCorrect, PTL DEF Spec

\* No sequence of accesses, dummy accesses, refused calls and drains loses or
\* duplicates a block, for every tree shape, stash capacity, rate and contents.
THEOREM NoBlockLostOrDuplicated == Spec => []OneCopy
<1>1. BlockInvariant => OneCopy BY DEF BlockInvariant
<1> QED BY <1>1, BlockInvariantHolds, PTL

\* Every copy carries the label of the position map and rests in the stash or
\* on the path to that label: the path an access reads is the right one.
THEOREM BlocksStayOnTheirPath == Spec => []OnLabelledPath
<1>1. BlockInvariant => OnLabelledPath BY DEF BlockInvariant
<1> QED BY <1>1, BlockInvariantHolds, PTL

\* ensure_eviction_stash_capacity never fails: evicting any path from any
\* reachable state fits into the stash.
THEOREM EvictionNeverOverflows == Spec => []EvictionFits
<1>1. BlockInvariant => EvictionFits
  <2> SUFFICES ASSUME BlockInvariant, NEW leaf \in Leaf PROVE ~EvictOverflows(Working, leaf)
    BY DEF EvictionFits
  <2>1. Working \in WorkingSet /\ pos_map \in [Id -> Leaf]
    BY WorkingType DEF BlockInvariant, StateTypes
  <2>2. OnLabelledPathIn(Working, pos_map) BY DEF BlockInvariant, OnLabelledPath
  <2> QED BY <2>1, <2>2, EvictionAlwaysFits
<1> QED BY <1>1, BlockInvariantHolds, PTL

-----------------------------------------------------------------------------
(* What a call leaves in the slots it empties, and in the stash.           *)

\* TakeTarget and Relabel empty one slot, scrub it, and fill at most one free
\* stash slot.
LEMMA AccessScrubsAndGrows ==
  ASSUME NEW w \in WorkingSet, NEW leaf \in Leaf, NEW id \in Id,
         NEW update \in Update, NEW new_leaf \in Leaf
  PROVE  LET v == AccessOutcome(w, leaf, id, update, new_leaf).w
         IN /\ ScrubbedIn(w) => ScrubbedIn(v)
            /\ Cardinality(StashBlocks(v)) <= Cardinality(StashBlocks(w)) + 1
<1> DEFINE t == TakeTarget(w, leaf, id)
           r == AccessOutcome(w, leaf, id, update, new_leaf)
           Grown(v) == \E q : StashBlocks(v) \subseteq StashBlocks(w) \cup {q}
<1>1. CASE TakeOverflows(w, leaf, id)
  <2>1. r.w = w BY <1>1 DEF AccessOutcome
  <2>2. Cardinality(StashBlocks(w)) \in Nat BY StashBlocksFinite
  <2> QED BY <2>1, <2>2
<1>2. CASE ~TakeOverflows(w, leaf, id)
  <2>1. t \in WorkingSet BY TakeTargetType
  <2>2. (ScrubbedIn(w) => ScrubbedIn(t)) /\ Grown(t)
    <3>1. CASE Hits(w, leaf, id) = {}
      <4>1. t = w BY <3>1 DEF TakeTarget
      <4> QED BY <4>1
    <3>2. CASE Hits(w, leaf, id) # {}
      <4>1. FreeSlots(w.stash) # {} BY <1>2, <3>2 DEF TakeOverflows
      <4>2. PICK p \in Place, q \in Place :
              /\ p[1] # -1 /\ q[1] = -1
              /\ Matches(BlockIn(w, p), id)
              /\ Moved(w, t, p, q)
        BY <3>2, <4>1, TakeTargetMoves
      <4> HIDE DEF t
      <4>3. ASSUME ScrubbedIn(w), NEW x \in Place, ~BlockIn(t, x).occupied
            PROVE  BlockIn(t, x) = EmptyBlock
        <5>1. CASE x = q BY <4>2, <4>3, <5>1 DEF Moved, Matches
        <5>2. CASE x = p BY <4>2, <5>2 DEF Moved
        <5>3. CASE x # p /\ x # q BY <4>2, <4>3, <5>3 DEF Moved, ScrubbedIn
        <5> QED BY <5>1, <5>2, <5>3
      <4>4. StashBlocks(t) \subseteq StashBlocks(w) \cup {q}
        <5>1. ASSUME NEW x \in StashBlocks(t), x # q PROVE x \in StashBlocks(w)
          <6>1. x \in Place /\ x[1] = -1 /\ BlockIn(t, x).occupied /\ x \in {-1} \X StashSlot
            BY DEF StashBlocks, Place
          <6>2. BlockIn(t, x) = BlockIn(w, x) BY <4>2, <5>1, <6>1 DEF Moved
          <6> QED BY <6>1, <6>2 DEF StashBlocks
        <5> QED BY <5>1
      <4> QED BY <4>3, <4>4 DEF ScrubbedIn
    <3> QED BY <3>1, <3>2
  <2> DEFINE new == Apply(update, StashPayload(t.stash, id))
             v == [t EXCEPT !.stash = Relabel(t.stash, id, new, new_leaf)]
  <2>3. r.w = t \/ r.w = v BY <1>2 DEF AccessOutcome
  <2> HIDE DEF t, new
  <2>4. ASSUME NEW x \in Place
        PROVE  /\ BlockIn(v, x).occupied = BlockIn(t, x).occupied
               /\ ~BlockIn(t, x).occupied => BlockIn(v, x) = BlockIn(t, x)
    <3>1. /\ v.meta = t.meta /\ v.payload = t.payload
          /\ v.stash = Relabel(t.stash, id, new, new_leaf)
      BY <2>1 DEF WorkingSet
    <3>2. CASE x[1] = -1 /\ x[2] \in StashSlot
      <4>1. t.stash[x[2]] \in Block BY <2>1, <3>2 DEF WorkingSet
      <4>2. BlockIn(v, x) = Relabel(t.stash, id, new, new_leaf)[x[2]]
            /\ BlockIn(t, x) = t.stash[x[2]]
        BY <3>1, <3>2 DEF BlockIn
      <4>3. CASE x[2] \in StashCopies(t.stash, id)
        <5>1. t.stash[x[2]].occupied BY <4>3 DEF StashCopies, Matches
        <5>2. BlockIn(v, x) = [t.stash[x[2]] EXCEPT !.payload = new, !.leaf = new_leaf]
          BY <3>2, <4>2, <4>3 DEF Relabel
        <5>3. BlockIn(v, x).occupied = t.stash[x[2]].occupied BY <4>1, <5>2 DEF Block
        <5> QED BY <4>2, <5>1, <5>3
      <4>4. CASE x[2] \notin StashCopies(t.stash, id)
        BY <3>2, <4>2, <4>4 DEF Relabel
      <4> QED BY <4>3, <4>4
    <3>3. CASE x[1] \in Node /\ x[1] # -1 /\ x[2] \in Slot
      <4>1. BlockIn(v, x) = BlockIn(t, x) BY <3>1, <3>3 DEF BlockIn
      <4> QED BY <4>1
    <3> QED BY <3>2, <3>3, PlaceInts
  <2> HIDE DEF v
  <2>5. ScrubbedIn(t) => ScrubbedIn(v) BY <2>4 DEF ScrubbedIn
  <2>6. StashBlocks(v) = StashBlocks(t) BY <2>4 DEF StashBlocks, Place
  <2>7. (ScrubbedIn(w) => ScrubbedIn(r.w)) /\ Grown(r.w) BY <2>2, <2>3, <2>5, <2>6
  <2> HIDE DEF r
  <2>8. PICK q : StashBlocks(r.w) \subseteq StashBlocks(w) \cup {q} BY <2>7
  <2>9. IsFiniteSet(StashBlocks(w)) /\ Cardinality(StashBlocks(w)) \in Nat
    BY StashBlocksFinite
  <2>10. /\ IsFiniteSet(StashBlocks(w) \cup {q})
         /\ Cardinality(StashBlocks(w) \cup {q}) <= Cardinality(StashBlocks(w)) + 1
         /\ Cardinality(StashBlocks(w) \cup {q}) \in Nat
    <3>1. /\ IsFiniteSet(StashBlocks(w) \cup {q})
          /\ Cardinality(StashBlocks(w) \cup {q}) =
               IF q \in StashBlocks(w) THEN Cardinality(StashBlocks(w))
               ELSE Cardinality(StashBlocks(w)) + 1
      BY <2>9, FS_AddElement
    <3> QED BY <2>9, <3>1
  <2>11. /\ Cardinality(StashBlocks(r.w)) <= Cardinality(StashBlocks(w) \cup {q})
         /\ Cardinality(StashBlocks(r.w)) \in Nat
    BY <2>8, <2>10, SubsetCardinality
  <2>12. Cardinality(StashBlocks(r.w)) <= Cardinality(StashBlocks(w)) + 1
    BY <2>9, <2>10, <2>11
  <2> QED BY <2>7, <2>12 DEF r
<1> QED BY <1>1, <1>2

\* stash_len counts the occupied stash slots.
LEMMA StashLenIs ==
  ASSUME NEW w
  PROVE  Cardinality({i \in StashSlot : w.stash[i].occupied}) = Cardinality(StashBlocks(w))
<1> DEFINE S == StashBlocks(w)
           T == {i \in StashSlot : w.stash[i].occupied}
           f == [c \in S |-> c[2]]
<1>1. ASSUME NEW c \in S PROVE c[2] \in T /\ c = <<-1, c[2]>>
  BY DEF StashBlocks, BlockIn
<1>2. f \in [S -> T] BY <1>1
<1>3. \A a, b \in S : f[a] = f[b] => a = b BY <1>1
<1>4. ASSUME NEW i \in T PROVE \E c \in S : f[c] = i
  <2>1. <<-1, i>> \in S BY DEF StashBlocks, BlockIn
  <2>2. f[<<-1, i>>] = i BY <2>1
  <2> QED BY <2>1, <2>2
<1>5. IsFiniteSet(S) BY StashBlocksFinite
<1> HIDE DEF S, T, f
<1>6. f \in Bijection(S, T) BY <1>2, <1>3, <1>4, Fun_IsBij
<1>7. ExistsBijection(S, T) BY <1>6, Fun_ExistsBij
<1>8. Cardinality(T) = Cardinality(S) BY <1>5, <1>7, FS_Bijection
<1> QED BY <1>8 DEF S, T

\* What every public operation does to the slots it empties and to the stash.
LEMMA ScrubStep ==
  BlockInvariant /\ [Next]_vars =>
    /\ DummiesScrubbed => DummiesScrubbed'
    /\ StashLen' > StashLen =>
         StashLen' = StashLen + 1 /\ issued_accesses' = issued_accesses + 1
<1> SUFFICES ASSUME BlockInvariant, [Next]_vars
             PROVE  /\ DummiesScrubbed => DummiesScrubbed'
                    /\ StashLen' > StashLen =>
                         StashLen' = StashLen + 1 /\ issued_accesses' = issued_accesses + 1
  OBVIOUS
<1> DEFINE n(w) == Cardinality(StashBlocks(w))
           Primed == [meta |-> meta', payload |-> payload', stash |-> stash']
<1>1. Working \in WorkingSet /\ pos_map \in [Id -> Leaf]
  BY WorkingType DEF BlockInvariant, StateTypes
<1>2. OneCopyIn(Working) /\ OnLabelledPathIn(Working, pos_map)
  BY DEF BlockInvariant, OneCopy, OnLabelledPath
<1>3. /\ DummiesScrubbed <=> ScrubbedIn(Working)
      /\ DummiesScrubbed' <=> ScrubbedIn(Primed)
  BY DEF DummiesScrubbed, ScrubbedIn, Working
<1>4. StashLen = n(Working) /\ StashLen' = n(Primed)
  <2>1. StashLen = Cardinality({i \in StashSlot : Working.stash[i].occupied})
    BY DEF StashLen, Working
  <2>2. StashLen' = Cardinality({i \in StashSlot : Primed.stash[i].occupied})
    BY DEF StashLen
  <2> QED BY <2>1, <2>2, StashLenIs
<1>5. \A w : n(w) \in Nat BY StashBlocksFinite
<1> HIDE DEF n, Primed
<1>6. ASSUME NEW w \in WorkingSet, meta' = w.meta, payload' = w.payload, stash' = w.stash
      PROVE  Primed = w
  BY <1>6, WorkingIs DEF Primed
<1>7. ASSUME Primed = Working
      PROVE  /\ DummiesScrubbed => DummiesScrubbed'
             /\ ~(StashLen' > StashLen)
  BY <1>3, <1>4, <1>5, <1>7
<1>8. ASSUME UNCHANGED <<meta, payload, stash>> PROVE Primed = Working
  BY <1>8 DEF Primed, Working
<1>9. ASSUME NEW id \in Id, NEW update \in Update, access(id, update)
      PROVE  /\ DummiesScrubbed => DummiesScrubbed'
             /\ StashLen' > StashLen =>
                  StashLen' = StashLen + 1 /\ issued_accesses' = issued_accesses + 1
  <2>1. PICK new_leaf \in Leaf :
          LET r == AccessOutcome(Working, pos_map[id], id, update, new_leaf)
          IN /\ SetWorking(r.w)
             /\ r.reply.result = "ok" => issued_accesses' = issued_accesses + 1
    BY <1>9 DEF access
  <2> DEFINE r == AccessOutcome(Working, pos_map[id], id, update, new_leaf)
  <2>2. r.w \in WorkingSet BY <1>1, AccessOutcomeType
  <2>3. \/ r.reply = Err("StashOverflow") /\ r.w = Working
        \/ \E p \in Place : r.reply = Ok(<<BlockIn(Working, p).payload>>)
    <3> DEFINE New(p) == [BlockIn(Working, p) EXCEPT
                            !.payload = Apply(update, BlockIn(Working, p).payload),
                            !.leaf = new_leaf]
    <3>1. \/ r.reply = Err("StashOverflow") /\ r.w = Working
          \/ \E p \in Place :
               /\ Copies(Working, id) = {p}
               /\ r.reply = Ok(<<BlockIn(Working, p).payload>>)
               /\ Rewritten(Working, r.w, id, New(p))
               /\ OnLabelledPathIn(r.w, [pos_map EXCEPT ![id] = new_leaf])
      BY <1>1, <1>2, AccessKeepsBlocks
    <3> HIDE DEF r, New
    <3> QED BY <3>1
  <2>4. (ScrubbedIn(Working) => ScrubbedIn(r.w)) /\ n(r.w) <= n(Working) + 1
    BY <1>1, AccessScrubsAndGrows DEF n
  <2>5. /\ meta' = r.w.meta /\ payload' = r.w.payload /\ stash' = r.w.stash
        /\ r.reply.result = "ok" => issued_accesses' = issued_accesses + 1
    BY <2>1 DEF SetWorking
  <2> HIDE DEF r
  <2>6. Primed = r.w BY <1>6, <2>2, <2>5
  <2>7. CASE r.reply = Err("StashOverflow") /\ r.w = Working
    BY <1>7, <2>6, <2>7
  <2>8. ASSUME NEW p \in Place, r.reply = Ok(<<BlockIn(Working, p).payload>>)
        PROVE  issued_accesses' = issued_accesses + 1
    BY <2>5, <2>8 DEF Ok
  <2>9. n(r.w) > n(Working) => n(r.w) = n(Working) + 1 BY <1>5, <2>4
  <2> QED BY <1>3, <1>4, <2>3, <2>4, <2>6, <2>7, <2>8, <2>9
<1>10. CASE access_out_of_range
  BY <1>7, <1>8, <1>10 DEF access_out_of_range
<1>11. CASE dummy_access
  BY <1>7, <1>8, <1>11 DEF dummy_access
<1>12. ASSUME NEW budget \in 0 .. MaxBudget, drain_evictions(budget)
       PROVE  /\ DummiesScrubbed => DummiesScrubbed'
              /\ ~(StashLen' > StashLen)
  <2> DEFINE r == EvictPaths(Working, completed_evictions)[ToDrain(budget)]
  <2>1. completed_evictions \in Nat /\ ToDrain(budget) \in Nat
    <3>1. issued_accesses * EvictionsPerAccess \in Nat
      BY DebtArithmetic, RateAssumption DEF BlockInvariant, StateTypes
    <3> QED BY <3>1, CircuitAssumption DEF ToDrain, Debt, BlockInvariant, StateTypes
  <2>2. r.ok /\ r.w \in WorkingSet BY <1>1, <1>2, <2>1, DrainKeepsBlocks
  <2>3. (ScrubbedIn(Working) => ScrubbedIn(r.w)) /\ n(r.w) <= n(Working)
    BY <1>1, <1>2, <2>1, DrainScrubsAndShrinks DEF n
  <2>4. /\ meta' = IF r.ok THEN r.w.meta ELSE meta
        /\ payload' = IF r.ok THEN r.w.payload ELSE payload
        /\ stash' = r.w.stash
    BY <1>12 DEF drain_evictions
  <2> HIDE DEF r
  <2>5. Primed = r.w BY <1>6, <2>2, <2>4
  <2>6. ~(n(r.w) > n(Working)) BY <1>5, <2>3
  <2> QED BY <1>3, <1>4, <2>3, <2>5, <2>6
<1>13. CASE UNCHANGED vars
  BY <1>7, <1>8, <1>13 DEF vars
<1> QED BY <1>9, <1>10, <1>11, <1>12, <1>13 DEF Next

\* The slot a block was moved out of keeps none of its id, label and payload,
\* whichever of access and drain_evictions moved it: the branch-free rewrites
\* leave Block::dummy behind, for every tree, stash and payload set.
THEOREM EmptiedSlotsAreScrubbed == Spec => []DummiesScrubbed
<1>1. Init => DummiesScrubbed BY BlocksInit
<1>2. BlockInvariant /\ DummiesScrubbed /\ [Next]_vars => DummiesScrubbed' BY ScrubStep
<1> QED BY <1>1, <1>2, BlockInvariantHolds, PTL DEF Spec

\* Only a successful access adds to the stash, and only one block: a drain of
\* any number of paths leaves the stash no fuller than it found it, so a stash
\* that fills up is owed to accesses alone.
THEOREM OnlyAccessesFillTheStash == Spec => StashGrowsByAccessOnly
<1>1. BlockInvariant /\ [Next]_vars =>
        [StashLen' > StashLen =>
           /\ StashLen' = StashLen + 1
           /\ issued_accesses' = issued_accesses + 1]_vars
  BY ScrubStep
<1> QED BY <1>1, BlockInvariantHolds, PTL DEF Spec, StashGrowsByAccessOnly

-----------------------------------------------------------------------------
(* The controller implements the array.                                    *)

\* The array a working set stores.
ContentsIn(w) ==
  [id \in Id |-> BlockIn(w, CHOOSE p \in Place : Matches(BlockIn(w, p), id)).payload]

\* With one copy of a block, its content is the payload of that copy.
LEMMA ContentOfCopy ==
  ASSUME NEW w, NEW id \in Id, NEW p \in Place, Copies(w, id) = {p}
  PROVE  ContentsIn(w)[id] = BlockIn(w, p).payload
<1>1. \A q \in Place : Matches(BlockIn(w, q), id) <=> q = p BY DEF Copies
<1>2. (CHOOSE q \in Place : Matches(BlockIn(w, q), id)) = p BY <1>1
<1> QED BY <1>2 DEF ContentsIn

\* The refinement mapping reads the contents off the pages and the stash.
LEMMA ContentsNow ==
  /\ Contents = ContentsIn(Working)
  /\ Contents' = ContentsIn([meta |-> meta', payload |-> payload', stash |-> stash'])
  BY DEF Contents, ContentsIn, Working

\* Moving blocks around (evictions, drains) leaves the contents alone.
LEMMA SameBlocksSameContents ==
  ASSUME NEW w, NEW v, SameBlocks(w, v) PROVE ContentsIn(v) = ContentsIn(w)
<1>1. ASSUME NEW id \in Id PROVE ContentsIn(v)[id] = ContentsIn(w)[id]
  <2>1. PICK p \in Place, q \in Place :
          Copies(w, id) = {p} /\ Copies(v, id) = {q} /\ BlockIn(v, q) = BlockIn(w, p)
    BY DEF SameBlocks
  <2> QED BY <2>1, ContentOfCopy
<1>2. ContentsIn(v) = [id \in Id |-> ContentsIn(v)[id]] BY DEF ContentsIn
<1>3. ContentsIn(w) = [id \in Id |-> ContentsIn(w)[id]] BY DEF ContentsIn
<1> QED BY <1>1, <1>2, <1>3

\* Rewriting one block changes the contents at that block only.
LEMMA RewrittenContents ==
  ASSUME NEW w, NEW v, NEW id \in Id, NEW b, NEW x, Rewritten(w, v, id, b), x = b.payload
  PROVE  ContentsIn(v) = [j \in Id |-> IF j = id THEN x ELSE ContentsIn(w)[j]]
<1>1. ContentsIn(v) = [j \in Id |-> ContentsIn(v)[j]] BY DEF ContentsIn
<1>2. ASSUME NEW j \in Id
      PROVE  ContentsIn(v)[j] = IF j = id THEN x ELSE ContentsIn(w)[j]
  <2>1. PICK p \in Place, q \in Place :
          /\ Copies(w, j) = {p} /\ Copies(v, j) = {q}
          /\ BlockIn(v, q) = IF j = id THEN b ELSE BlockIn(w, p)
    BY DEF Rewritten
  <2>2. ContentsIn(v)[j] = BlockIn(v, q).payload /\ ContentsIn(w)[j] = BlockIn(w, p).payload
    BY <2>1, ContentOfCopy
  <2> QED BY <2>1, <2>2
<1> QED BY <1>1, <1>2

\* The trusted build starts as an array of legal payloads.
LEMMA ArrayInitHolds == Init => Array!ArrayInit
<1> SUFFICES ASSUME Init PROVE Array!ArrayInit
  OBVIOUS
<1>1. ASSUME NEW id \in Id PROVE ContentsIn(Working)[id] \in Payloads
  <2>1. PICK p \in Place : Copies(Working, id) = {p} /\ BlockIn(Working, p).payload \in Payloads
    BY BlocksInit
  <2> QED BY <2>1, ContentOfCopy
<1>2. ContentsIn(Working) = [id \in Id |-> ContentsIn(Working)[id]] BY DEF ContentsIn
<1>3. Contents \in [Id -> Payloads] BY <1>1, <1>2, ContentsNow
<1>4. request = <<>> /\ reply = Ok(<<>>) BY DEF Init
<1> QED BY <1>3, <1>4 DEF Array!ArrayInit, Array!Ok, Ok

\* When the pages and the stash of a call are those of a working set, the
\* contents are those it stores.
LEMMA ContentsOf ==
  ASSUME NEW w \in WorkingSet, meta' = w.meta, payload' = w.payload, stash' = w.stash
  PROVE  Contents' = ContentsIn(w)
<1>1. w = [meta |-> meta', payload |-> payload', stash |-> stash'] BY WorkingIs
<1> QED BY <1>1, ContentsNow

\* A call that leaves pages and stash alone leaves the contents alone.
LEMMA ContentsKept ==
  ASSUME BlockInvariant, UNCHANGED <<meta, payload, stash>> PROVE Contents' = Contents
<1>1. Working \in WorkingSet BY WorkingType DEF BlockInvariant
<1>2. meta' = Working.meta /\ payload' = Working.payload /\ stash' = Working.stash
  BY DEF Working
<1> QED BY <1>1, <1>2, ContentsOf, ContentsNow

\* access finds the stash full and changes no contents, or it returns the
\* content of its block and replaces it.
LEMMA AccessEffect ==
  ASSUME BlockInvariant, NEW id \in Id, NEW update \in Update, access(id, update)
  PROVE  \/ reply' = Err("StashOverflow") /\ Contents' = Contents
         \/ /\ reply' = Ok(<<Contents[id]>>)
            /\ Contents' = [Contents EXCEPT ![id] = Apply(update, Contents[id])]
<1>1. Working \in WorkingSet /\ pos_map \in [Id -> Leaf]
  BY WorkingType DEF BlockInvariant, StateTypes
<1>2. OneCopyIn(Working) /\ OnLabelledPathIn(Working, pos_map)
  BY DEF BlockInvariant, OneCopy, OnLabelledPath
<1>3. PICK new_leaf \in Leaf :
        LET r == AccessOutcome(Working, pos_map[id], id, update, new_leaf)
        IN SetWorking(r.w) /\ reply' = r.reply
  BY DEF access
<1> DEFINE r == AccessOutcome(Working, pos_map[id], id, update, new_leaf)
           New(p) == [BlockIn(Working, p) EXCEPT
                        !.payload = Apply(update, BlockIn(Working, p).payload),
                        !.leaf = new_leaf]
<1>4. r.w \in WorkingSet BY <1>1, AccessOutcomeType
<1>5. \/ r.reply = Err("StashOverflow") /\ r.w = Working
      \/ \E p \in Place :
           /\ Copies(Working, id) = {p}
           /\ r.reply = Ok(<<BlockIn(Working, p).payload>>)
           /\ Rewritten(Working, r.w, id, New(p))
           /\ OnLabelledPathIn(r.w, [pos_map EXCEPT ![id] = new_leaf])
  BY <1>1, <1>2, AccessKeepsBlocks
<1>6. meta' = r.w.meta /\ payload' = r.w.payload /\ stash' = r.w.stash /\ reply' = r.reply
  BY <1>3 DEF SetWorking
<1>7. ASSUME NEW p \in Place PROVE New(p).payload = Apply(update, BlockIn(Working, p).payload)
  <2>1. BlockIn(Working, p) \in Block BY <1>1, BlockInType
  <2> QED BY <2>1 DEF Block
<1> HIDE DEF r, New
<1>8. Contents' = ContentsIn(r.w) BY <1>4, <1>6, ContentsOf
<1>9. CASE r.reply = Err("StashOverflow") /\ r.w = Working
  BY <1>6, <1>8, <1>9, ContentsNow
<1>10. ASSUME NEW p \in Place,
              Copies(Working, id) = {p},
              r.reply = Ok(<<BlockIn(Working, p).payload>>),
              Rewritten(Working, r.w, id, New(p))
       PROVE  /\ reply' = Ok(<<Contents[id]>>)
              /\ Contents' = [Contents EXCEPT ![id] = Apply(update, Contents[id])]
  <2>1. Contents[id] = BlockIn(Working, p).payload BY <1>10, ContentOfCopy, ContentsNow
  <2>2. Contents' = [Contents EXCEPT ![id] = New(p).payload]
    <3>1. Contents = ContentsIn(Working) BY ContentsNow
    <3>2. ContentsIn(r.w) = [j \in Id |-> IF j = id THEN New(p).payload ELSE Contents[j]]
      BY <1>10, <3>1, RewrittenContents
    <3>3. Contents = [j \in Id |-> Contents[j]] BY <3>1 DEF ContentsIn
    <3> QED BY <1>8, <3>2, <3>3
  <2> QED BY <1>6, <1>7, <1>10, <2>1, <2>2
<1> QED BY <1>5, <1>9, <1>10

\* A drain always succeeds and changes no contents.
LEMMA DrainEffect ==
  ASSUME BlockInvariant, NEW budget \in 0 .. MaxBudget, drain_evictions(budget)
  PROVE  reply' = Ok(<<>>) /\ Contents' = Contents
<1> DEFINE r == EvictPaths(Working, completed_evictions)[ToDrain(budget)]
<1>1. Working \in WorkingSet /\ pos_map \in [Id -> Leaf]
  BY WorkingType DEF BlockInvariant, StateTypes
<1>2. OneCopyIn(Working) /\ OnLabelledPathIn(Working, pos_map)
  BY DEF BlockInvariant, OneCopy, OnLabelledPath
<1>3. completed_evictions \in Nat /\ ToDrain(budget) \in Nat
  <2>1. issued_accesses * EvictionsPerAccess \in Nat
    BY DebtArithmetic, RateAssumption DEF BlockInvariant, StateTypes
  <2> QED BY <2>1, CircuitAssumption DEF ToDrain, Debt, BlockInvariant, StateTypes
<1>4. r.ok /\ r.w \in WorkingSet /\ SameBlocks(Working, r.w)
  BY <1>1, <1>2, <1>3, DrainKeepsBlocks
<1>5. /\ meta' = IF r.ok THEN r.w.meta ELSE meta
      /\ payload' = IF r.ok THEN r.w.payload ELSE payload
      /\ stash' = r.w.stash
      /\ reply' = IF r.ok THEN Ok(<<>>) ELSE Err("StashOverflow")
  BY DEF drain_evictions
<1> HIDE DEF r
<1>6. Contents' = ContentsIn(r.w) BY <1>4, <1>5, ContentsOf
<1> QED BY <1>4, <1>5, <1>6, SameBlocksSameContents, ContentsNow

\* Every public operation of the controller is an operation of the array or
\* a stutter.
LEMMA ArrayStepHolds ==
  BlockInvariant /\ [Next]_vars => [Array!ArrayNext]_(Array!arrayVars)
<1> SUFFICES ASSUME BlockInvariant, [Next]_vars
             PROVE  Array!ArrayNext \/ UNCHANGED Array!arrayVars
  OBVIOUS
<1>1. ASSUME NEW id \in Id, NEW update \in Update, access(id, update)
      PROVE  Array!ArrayNext
  <2>1. request' = <<<<id, update>>>> BY <1>1 DEF access
  <2>2. update \in Array!Update BY DEF Update, Array!Update
  <2>3. CASE reply' = Err("StashOverflow") /\ Contents' = Contents
    <3>1. <<id, update>> \in Id \X Array!Update BY <2>2
    <3>2. request' \in Seq(Id \X Array!Update) BY <2>1, <3>1
    <3>3. reply' = Array!Err("StashOverflow") BY <2>3 DEF Err, Array!Err
    <3>4. Array!Refuse BY <2>3, <3>2, <3>3 DEF Array!Refuse
    <3> QED BY <3>4 DEF Array!ArrayNext
  <2>4. CASE /\ reply' = Ok(<<Contents[id]>>)
             /\ Contents' = [Contents EXCEPT ![id] = Apply(update, Contents[id])]
    <3>1. Contents' = [Contents EXCEPT ![id] = Array!Apply(update, Contents[id])]
      BY <2>4 DEF Apply, Array!Apply
    <3>2. reply' = Array!Ok(<<Contents[id]>>) BY <2>4 DEF Ok, Array!Ok
    <3>3. Array!Access(id, update) BY <2>1, <3>1, <3>2 DEF Array!Access
    <3> QED BY <2>2, <3>3 DEF Array!ArrayNext
  <2> QED BY <1>1, <2>3, <2>4, AccessEffect
<1>2. CASE access_out_of_range
  <2>1. UNCHANGED <<meta, payload, stash>> BY <1>2 DEF access_out_of_range
  <2>2. Contents' = Contents BY <2>1, ContentsKept
  <2>3. request' = <<>> /\ reply' = Array!Err("InvalidInput")
    BY <1>2 DEF access_out_of_range, Err, Array!Err
  <2>4. request' \in Seq(Id \X Array!Update) BY <2>3
  <2>5. Array!Refuse BY <2>2, <2>3, <2>4 DEF Array!Refuse
  <2> QED BY <2>5 DEF Array!ArrayNext
<1>3. CASE dummy_access
  <2>1. UNCHANGED <<meta, payload, stash>> BY <1>3 DEF dummy_access
  <2>2. Contents' = Contents BY <2>1, ContentsKept
  <2>3. request' = <<>> /\ reply' = Array!Ok(<<>>)
    BY <1>3 DEF dummy_access, Ok, Array!Ok
  <2> QED BY <2>2, <2>3 DEF Array!Maintain, Array!ArrayNext
<1>4. ASSUME NEW budget \in 0 .. MaxBudget, drain_evictions(budget)
      PROVE  Array!ArrayNext
  <2>1. reply' = Ok(<<>>) /\ Contents' = Contents BY <1>4, DrainEffect
  <2>2. request' = <<>> BY <1>4 DEF drain_evictions
  <2>3. reply' = Array!Ok(<<>>) BY <2>1 DEF Ok, Array!Ok
  <2> QED BY <2>1, <2>2, <2>3 DEF Array!Maintain, Array!ArrayNext
<1>5. CASE UNCHANGED vars
  <2>1. UNCHANGED <<meta, payload, stash>> /\ UNCHANGED <<request, reply>> BY <1>5 DEF vars
  <2>2. Contents' = Contents BY <2>1, ContentsKept
  <2> QED BY <2>1, <2>2 DEF Array!arrayVars
<1> QED BY <1>1, <1>2, <1>3, <1>4, <1>5 DEF Next

\* The controller implements the plain array: every access returns what the
\* last access of that id stored, drains and dummy accesses are invisible, and a
\* refused call changes no contents; for every tree, stash, rate and payload set.
THEOREM ControllerImplementsArray == Spec => ImplementsArray
  BY ArrayInitHolds, ArrayStepHolds, BlockInvariantHolds, PTL
  DEF Spec, ImplementsArray, Array!ArraySpec

-----------------------------------------------------------------------------
(* Sequences of accesses.                                                  *)

\* A list of n members is a sequence of length n.
LEMMA ListLen ==
  ASSUME NEW n \in Nat, NEW S, NEW f \in [1 .. n -> S]
  PROVE  f \in Seq(S) /\ Len(f) = n
<1>1. f \in Seq(S) OBVIOUS
<1>2. DOMAIN f = 1 .. n /\ DOMAIN f = 1 .. Len(f) BY <1>1
<1>3. Len(f) \in Nat BY <1>1
<1> QED BY <1>1, <1>2, <1>3

\* The greatest of a non-empty set of positions.
LEMMA LastIs ==
  ASSUME NEW n \in Nat, NEW S, S \subseteq 1 .. n, S # {}
  PROVE  Last(S) \in S /\ \A j \in S : j <= Last(S)
<1>1. S \subseteq 0 .. n OBVIOUS
<1>2. \E j \in S : \A i \in S : i <= j BY <1>1, GreatestNatural
<1> QED BY <1>2 DEF Last

-----------------------------------------------------------------------------
(* Batches: the loop of access_batch.                                      *)

BatchReply ==
  [result : {"ok", "InvalidInput", "StashOverflow", "BlockNotFound"},
   out    : Seq(Payloads \cup {ZeroPayload})]

BatchResult == [done : Nat, reply : BatchReply, w : WorkingSet]

\* The k-th access of a batch, where the accesses before it left r.
BatchOutcome(r, ids, updates, new_leaves, k) ==
  AccessOutcome(r.w, batch_access_leaf(ids, new_leaves, k), ids[k], updates[k], new_leaves[k])

\* One round of the loop.
OneMoreAccess(r, o, k) ==
  IF r.reply.result # "ok" THEN r
  ELSE IF o.reply.result # "ok" THEN [done |-> r.done, reply |-> o.reply, w |-> o.w]
  ELSE [done |-> k, reply |-> Ok(r.reply.out \o o.reply.out), w |-> o.w]

\* An access answers with at most one payload.
LEMMA ReplyIsBatchReply == ASSUME NEW x \in Reply PROVE x \in BatchReply
<1> DEFINE P == Payloads \cup {ZeroPayload}
<1>1. <<>> \in Seq(P) OBVIOUS
<1>2. ASSUME NEW p \in P PROVE <<p>> \in Seq(P) OBVIOUS
<1>3. CASE x \in [result : {"ok"}, out : {<<>>} \cup {<<p>> : p \in P}]
  <2>1. x.out \in Seq(P) BY <1>1, <1>2, <1>3
  <2>2. x = [result |-> x.result, out |-> x.out] /\ x.result = "ok" BY <1>3
  <2> HIDE DEF P
  <2> QED BY <2>1, <2>2 DEF BatchReply, P
<1>4. CASE x \in {Err(e) : e \in {"InvalidInput", "StashOverflow", "BlockNotFound"}}
  <2>1. PICK e \in {"InvalidInput", "StashOverflow", "BlockNotFound"} : x = Err(e) BY <1>4
  <2>2. x = [result |-> e, out |-> <<>>] BY <2>1 DEF Err
  <2> HIDE DEF P
  <2> QED BY <1>1, <2>2 DEF BatchReply, P
<1> QED BY <1>3, <1>4 DEF Reply

\* batch_access_leaves looks for each id under a leaf of the tree.
LEMMA BatchAccessLeafType ==
  ASSUME pos_map \in [Id -> Leaf], NEW n \in Nat, NEW ids \in [1 .. n -> Id],
         NEW new_leaves \in [1 .. n -> Leaf], NEW k \in 1 .. n
  PROVE  batch_access_leaf(ids, new_leaves, k) \in Leaf
<1> DEFINE S == Occurrences(ids, k, k - 1)
<1>1. CASE S = {} BY <1>1 DEF batch_access_leaf
<1>2. CASE S # {}
  <2>1. S \subseteq 1 .. n BY DEF Occurrences
  <2>2. Last(S) \in 1 .. n BY <1>2, <2>1, LastIs
  <2> QED BY <1>2, <2>2 DEF batch_access_leaf
<1> QED BY <1>1, <1>2

\* A round leaves a legal result.
LEMMA OneMoreAccessType ==
  ASSUME pos_map \in [Id -> Leaf], NEW n \in Nat, NEW ids \in [1 .. n -> Id],
         NEW updates \in [1 .. n -> Update], NEW new_leaves \in [1 .. n -> Leaf],
         NEW k \in 1 .. n, NEW r \in BatchResult
  PROVE  OneMoreAccess(r, BatchOutcome(r, ids, updates, new_leaves, k), k) \in BatchResult
<1> DEFINE o == BatchOutcome(r, ids, updates, new_leaves, k)
<1>1. r.w \in WorkingSet /\ r.reply \in BatchReply /\ r.done \in Nat BY DEF BatchResult
<1>2. batch_access_leaf(ids, new_leaves, k) \in Leaf BY BatchAccessLeafType
<1>3. o.w \in WorkingSet /\ o.reply \in Reply
  <2>1. ids[k] \in Id /\ updates[k] \in Update /\ new_leaves[k] \in Leaf OBVIOUS
  <2> QED BY <1>1, <1>2, <2>1, AccessOutcomeType DEF BatchOutcome
<1>4. o.reply \in BatchReply BY <1>3, ReplyIsBatchReply
<1> HIDE DEF o
<1>5. r.reply.out \o o.reply.out \in Seq(Payloads \cup {ZeroPayload})
  BY <1>1, <1>4 DEF BatchReply
<1>6. Ok(r.reply.out \o o.reply.out) \in BatchReply BY <1>5 DEF BatchReply, Ok
<1>7. k \in Nat OBVIOUS
<1>8. r = [done |-> r.done, reply |-> r.reply, w |-> r.w] BY DEF BatchResult
<1> DEFINE more == Ok(r.reply.out \o o.reply.out)
<1> HIDE DEF more
<1>9. [done |-> r.done, reply |-> o.reply, w |-> o.w] \in BatchResult
  BY <1>1, <1>3, <1>4 DEF BatchResult
<1>10. [done |-> k, reply |-> more, w |-> o.w] \in BatchResult
  BY <1>3, <1>6, <1>7 DEF BatchResult, more
<1> QED BY <1>9, <1>10 DEF OneMoreAccess, o, more

\* The loop of access_batch: each access goes on from what the accesses before
\* it left.
LEMMA BatchRunDef ==
  ASSUME Working \in WorkingSet, pos_map \in [Id -> Leaf], NEW n \in Nat,
         NEW ids \in [1 .. n -> Id], NEW updates \in [1 .. n -> Update],
         NEW new_leaves \in [1 .. n -> Leaf]
  PROVE  LET run == BatchRun(ids, updates, new_leaves)
         IN /\ run[0] = [done |-> 0, reply |-> Ok(<<>>), w |-> Working]
            /\ \A k \in 1 .. n :
                 run[k] = OneMoreAccess(run[k - 1],
                            BatchOutcome(run[k - 1], ids, updates, new_leaves, k), k)
            /\ \A k \in 0 .. n : run[k] \in BatchResult
<1> DEFINE Round(r, k) == OneMoreAccess(r, BatchOutcome(r, ids, updates, new_leaves, k), k)
           step == [x \in Nat \X BatchResult |->
                      IF x[1] + 1 <= n THEN Round(x[2], x[1] + 1) ELSE x[2]]
           a == [done |-> 0, reply |-> Ok(<<>>), w |-> Working]
           run == CHOOSE run : run = [k \in 0 .. Len(ids) |->
                                        IF k = 0 THEN a ELSE Round(run[k - 1], k)]
<1>1. Len(ids) = n BY ListLen
<1>2. BatchRun(ids, updates, new_leaves) = run
  BY DEF BatchRun, OneMoreAccess, BatchOutcome
<1>3. a \in BatchResult BY DEF BatchResult, BatchReply, Ok
<1>4. ASSUME NEW r \in BatchResult, NEW k \in 1 .. n PROVE Round(r, k) \in BatchResult
  BY <1>4, OneMoreAccessType
<1> HIDE DEF Round, a
<1>5. step \in Steps(BatchResult)
  <2>1. ASSUME NEW x \in Nat \X BatchResult PROVE step[x] \in BatchResult
    <3>1. x[1] \in Nat /\ x[2] \in BatchResult OBVIOUS
    <3>2. CASE x[1] + 1 <= n
      <4>1. x[1] + 1 \in 1 .. n BY <3>1, <3>2
      <4> QED BY <1>4, <3>1, <3>2, <4>1
    <3>3. CASE ~(x[1] + 1 <= n) BY <3>1, <3>3
    <3> QED BY <3>2, <3>3
  <2> QED BY <2>1 DEF Steps
<1>6. PICK f : LoopOf(f, BatchResult, a, step, n)
  <2> HIDE DEF step
  <2> QED BY <1>3, <1>5, Loop
<1>7. \A k \in 0 .. n : f[k] \in BatchResult BY <1>6 DEF LoopOf
<1>8. f = [k \in 0 .. n |-> IF k = 0 THEN a ELSE Round(f[k - 1], k)]
  <2>1. ASSUME NEW k \in 0 .. n, k # 0 PROVE step[<<k - 1, f[k - 1]>>] = Round(f[k - 1], k)
    <3>1. k - 1 \in Nat /\ k - 1 \in 0 .. n /\ (k - 1) + 1 = k BY <2>1
    <3>2. <<k - 1, f[k - 1]>> \in Nat \X BatchResult BY <1>7, <3>1
    <3> QED BY <3>1, <3>2
  <2>2. f = [k \in 0 .. n |-> IF k = 0 THEN a ELSE step[<<k - 1, f[k - 1]>>]]
    BY <1>6 DEF LoopOf
  <2> HIDE DEF step
  <2> QED BY <2>1, <2>2
<1>9. run = [k \in 0 .. n |-> IF k = 0 THEN a ELSE Round(run[k - 1], k)] BY <1>1, <1>8
<1> HIDE DEF run
<1>10. run[0] = a /\ \A k \in 1 .. n : run[k] = Round(run[k - 1], k) BY <1>9
<1>11. \A k \in 0 .. n : run[k] \in BatchResult
  <2> DEFINE P == {k \in 0 .. n : run[k] \in BatchResult}
  <2>1. 0 \in P BY <1>3, <1>10
  <2>2. ASSUME NEW k \in 1 .. n, k - 1 \in P PROVE k \in P BY <1>4, <1>10, <2>2
  <2> HIDE DEF P
  <2>3. \A k \in 0 .. n : k \in P BY <2>1, <2>2, BoundedInduction
  <2> QED BY <2>3 DEF P
<1> QED BY <1>2, <1>10, <1>11 DEF Round, a

\* What a slot may hold.
Content == Payloads \cup {ZeroPayload}

\* Adding one answer to a list of answers.
LEMMA AppendOne ==
  ASSUME NEW k \in Nat \ {0}, NEW f \in [1 .. k - 1 -> Content], NEW x \in Content,
         NEW g \in [1 .. k -> Content], \A j \in 1 .. k - 1 : g[j] = f[j], g[k] = x
  PROVE  f \o <<x>> = g
<1> DEFINE S == Content
<1>1. f \in Seq(S) /\ Len(f) = k - 1
  <2>1. k - 1 \in Nat OBVIOUS
  <2> QED BY <2>1, ListLen
<1>2. g \in Seq(S) /\ Len(g) = k
  <2>1. k \in Nat OBVIOUS
  <2> QED BY <2>1, ListLen
<1>3. <<x>> \in Seq(S) /\ Len(<<x>>) = 1 /\ <<x>>[1] = x OBVIOUS
<1> DEFINE h == f \o <<x>>
<1>4. /\ h \in Seq(S) /\ Len(h) = k
      /\ \A i \in 1 .. k : h[i] = IF i <= k - 1 THEN f[i] ELSE <<x>>[i - (k - 1)]
  BY <1>1, <1>3, ConcatProperties
<1> HIDE DEF h
<1>5. \A i \in 1 .. Len(h) : h[i] = g[i] BY <1>3, <1>4
<1>6. h = g BY <1>2, <1>4, <1>5, SeqEqual
<1> QED BY <1>6 DEF h

-----------------------------------------------------------------------------
(* The labels and the contents after the first accesses of a batch.        *)

\* The positions of id among the first k.
Uses(ids, id, k) == {j \in 1 .. k : ids[j] = id}

\* The labels after the first k accesses: the last use labels the block.
LabelsAt(ids, new_leaves, k) ==
  [id \in Id |-> IF Uses(ids, id, k) = {} THEN pos_map[id]
                 ELSE new_leaves[Last(Uses(ids, id, k))]]

\* How the uses of an id grow: the k-th access is the last use of its own id.
LEMMA UsesStep ==
  ASSUME NEW n \in Nat, NEW ids \in [1 .. n -> Id], NEW k \in 1 .. n, NEW id \in Id
  PROVE  /\ id # ids[k] => Uses(ids, id, k) = Uses(ids, id, k - 1)
         /\ id = ids[k] => Uses(ids, id, k) # {} /\ Last(Uses(ids, id, k)) = k
<1>1. CASE id # ids[k]
  <2>1. ASSUME NEW j, j \in Uses(ids, id, k) PROVE j \in Uses(ids, id, k - 1)
    BY <1>1, <2>1 DEF Uses
  <2>2. ASSUME NEW j, j \in Uses(ids, id, k - 1) PROVE j \in Uses(ids, id, k)
    BY <1>1, <2>2 DEF Uses
  <2> QED BY <1>1, <2>1, <2>2
<1>2. CASE id = ids[k]
  <2>1. k \in Uses(ids, id, k) BY <1>2 DEF Uses
  <2>2. Uses(ids, id, k) \subseteq 1 .. n /\ \A j \in Uses(ids, id, k) : j <= k /\ j \in Int
    BY DEF Uses
  <2>3. Last(Uses(ids, id, k)) \in Uses(ids, id, k) /\ k <= Last(Uses(ids, id, k))
    BY <2>1, <2>2, LastIs
  <2>4. Last(Uses(ids, id, k)) = k BY <2>2, <2>3
  <2> QED BY <1>2, <2>1, <2>4
<1> QED BY <1>1, <1>2

\* The last use of an id among the first k is one of them.
LEMMA LastUse ==
  ASSUME NEW n \in Nat, NEW ids \in [1 .. n -> Id], NEW k \in 0 .. n, NEW id \in Id,
         Uses(ids, id, k) # {}
  PROVE  Last(Uses(ids, id, k)) \in 1 .. k /\ ids[Last(Uses(ids, id, k))] = id
<1>1. Uses(ids, id, k) \subseteq 1 .. n BY DEF Uses
<1>2. Last(Uses(ids, id, k)) \in Uses(ids, id, k) BY <1>1, LastIs
<1> QED BY <1>2 DEF Uses

\* Every access of a batch relabels its block.
LEMMA LabelsAtStep ==
  ASSUME pos_map \in [Id -> Leaf], NEW n \in Nat, NEW ids \in [1 .. n -> Id],
         NEW new_leaves \in [1 .. n -> Leaf], NEW k \in 1 .. n
  PROVE  \A id \in Id :
           LabelsAt(ids, new_leaves, k)[id] =
             IF id = ids[k] THEN new_leaves[k] ELSE LabelsAt(ids, new_leaves, k - 1)[id]
  BY UsesStep DEF LabelsAt

\* batch_access_leaves and scan_pos_map_update_batch follow these labels.
LEMMA LabelsAtType ==
  ASSUME pos_map \in [Id -> Leaf], NEW n \in Nat, NEW ids \in [1 .. n -> Id],
         NEW new_leaves \in [1 .. n -> Leaf]
  PROVE  /\ LabelsAt(ids, new_leaves, 0) = pos_map
         /\ LabelsAt(ids, new_leaves, n) = BatchLabels(ids, new_leaves)
         /\ \A k \in 0 .. n : LabelsAt(ids, new_leaves, k) \in [Id -> Leaf]
         /\ \A k \in 1 .. n : batch_access_leaf(ids, new_leaves, k)
                                = LabelsAt(ids, new_leaves, k - 1)[ids[k]]
<1>1. LabelsAt(ids, new_leaves, 0) = pos_map
  <2>1. \A id \in Id : Uses(ids, id, 0) = {} BY DEF Uses
  <2> QED BY <2>1 DEF LabelsAt
<1>2. LabelsAt(ids, new_leaves, n) = BatchLabels(ids, new_leaves)
  <2>1. Len(ids) = n BY ListLen
  <2> QED BY <2>1 DEF LabelsAt, BatchLabels, Uses
<1>3. ASSUME NEW k \in 0 .. n PROVE LabelsAt(ids, new_leaves, k) \in [Id -> Leaf]
  <2>1. ASSUME NEW id \in Id, Uses(ids, id, k) # {}
        PROVE  new_leaves[Last(Uses(ids, id, k))] \in Leaf
    <3>1. Last(Uses(ids, id, k)) \in 1 .. k BY <2>1, LastUse
    <3>2. Last(Uses(ids, id, k)) \in 1 .. n BY <3>1
    <3> QED BY <3>2
  <2> QED BY <2>1 DEF LabelsAt
<1>4. ASSUME NEW k \in 1 .. n
      PROVE  batch_access_leaf(ids, new_leaves, k) = LabelsAt(ids, new_leaves, k - 1)[ids[k]]
  <2>1. ids[k] \in Id OBVIOUS
  <2>2. Occurrences(ids, k, k - 1) = Uses(ids, ids[k], k - 1) BY DEF Occurrences, Uses
  <2> QED BY <2>1, <2>2 DEF batch_access_leaf, LabelsAt
<1> QED BY <1>1, <1>2, <1>3, <1>4

-----------------------------------------------------------------------------

\* The contents after the first accesses of a batch.
After(ids, updates) == BatchArray!AfterBatch(ids, updates)

\* The contents are a function of the ids.
LEMMA ContentsType ==
  ASSUME NEW w \in WorkingSet, OneCopyIn(w) PROVE ContentsIn(w) \in [Id -> Content]
<1>1. ASSUME NEW id \in Id PROVE ContentsIn(w)[id] \in Content
  <2>1. PICK p \in Place : Copies(w, id) = {p} BY DEF OneCopyIn
  <2>2. BlockIn(w, p) \in Block BY BlockInType
  <2> QED BY <2>1, <2>2, ContentOfCopy DEF Block, Content
<1>2. ContentsIn(w) = [id \in Id |-> ContentsIn(w)[id]] BY DEF ContentsIn
<1> QED BY <1>1, <1>2

\* One access of the array.
Stored(c, id, update) == [j \in Id |-> IF j = id THEN Apply(update, c[j]) ELSE c[j]]

\* It changes one block only.
LEMMA StoredAt ==
  ASSUME NEW c, NEW id, NEW update, NEW j \in Id
  PROVE  Stored(c, id, update)[j] = IF j = id THEN Apply(update, c[j]) ELSE c[j]
  BY DEF Stored

\* An access of the array leaves legal contents.
LEMMA StoredType ==
  ASSUME NEW c \in [Id -> Content], NEW id, NEW update \in Update
  PROVE  Stored(c, id, update) \in [Id -> Content]
  BY DEF Stored, Apply, Update, Content

\* The contents after k accesses, one access at a time.
LEMMA AfterDef ==
  ASSUME Contents \in [Id -> Content], NEW n \in Nat, NEW ids \in [1 .. n -> Id],
         NEW updates \in [1 .. n -> Update]
  PROVE  /\ After(ids, updates)[0] = Contents
         /\ \A k \in 1 .. n :
              After(ids, updates)[k] = Stored(After(ids, updates)[k - 1], ids[k], updates[k])
         /\ \A k \in 0 .. n : After(ids, updates)[k] \in [Id -> Content]
<1> DEFINE C == [Id -> Content]
           Round(c, k) == [c EXCEPT ![ids[k]] = BatchArray!Apply(updates[k], c[ids[k]])]
           step == [x \in Nat \X C |->
                      IF x[1] + 1 <= n THEN Stored(x[2], ids[x[1] + 1], updates[x[1] + 1])
                      ELSE x[2]]
           after == CHOOSE after : after = [k \in 0 .. Len(ids) |->
                                        IF k = 0 THEN Contents ELSE Round(after[k - 1], k)]
<1>1. Len(ids) = n BY ListLen
<1>2. After(ids, updates) = after
  BY DEF After, BatchArray!AfterBatch
<1>3. ASSUME NEW c \in C, NEW k \in 1 .. n
      PROVE  Round(c, k) = Stored(c, ids[k], updates[k]) /\ Round(c, k) \in C
  <2>1. ids[k] \in Id /\ updates[k] \in Update OBVIOUS
  <2>2. Round(c, k) = Stored(c, ids[k], updates[k])
    BY <2>1 DEF Stored, Apply, BatchArray!Apply
  <2> QED BY <2>1, <2>2, StoredType
<1> HIDE DEF Round
<1>5. step \in Steps(C)
  <2>1. ASSUME NEW x \in Nat \X C PROVE step[x] \in C
    <3>1. x[1] \in Nat /\ x[2] \in C OBVIOUS
    <3>2. CASE x[1] + 1 <= n
      <4>1. x[1] + 1 \in 1 .. n BY <3>1, <3>2
      <4> QED BY <1>3, <3>1, <3>2, <4>1
    <3>3. CASE ~(x[1] + 1 <= n) BY <3>1, <3>3
    <3> QED BY <3>2, <3>3
  <2> QED BY <2>1 DEF Steps
<1>6. PICK f : LoopOf(f, C, Contents, step, n)
  <2> HIDE DEF step, C
  <2>1. Contents \in C BY DEF C
  <2> QED BY <1>5, <2>1, Loop
<1>7. \A k \in 0 .. n : f[k] \in C BY <1>6 DEF LoopOf
<1>8. f = [k \in 0 .. n |-> IF k = 0 THEN Contents ELSE Round(f[k - 1], k)]
  <2>1. ASSUME NEW k \in 0 .. n, k # 0 PROVE step[<<k - 1, f[k - 1]>>] = Round(f[k - 1], k)
    <3>1. k - 1 \in Nat /\ k - 1 \in 0 .. n /\ (k - 1) + 1 = k /\ k \in 1 .. n BY <2>1
    <3>2. f[k - 1] \in C BY <1>7, <3>1
    <3>3. <<k - 1, f[k - 1]>> \in Nat \X C BY <3>1, <3>2
    <3>4. step[<<k - 1, f[k - 1]>>] = Stored(f[k - 1], ids[k], updates[k])
      BY <3>1, <3>3
    <3>5. Round(f[k - 1], k) = Stored(f[k - 1], ids[k], updates[k]) BY <1>3, <3>1, <3>2
    <3> QED BY <3>4, <3>5
  <2>2. f = [k \in 0 .. n |-> IF k = 0 THEN Contents ELSE step[<<k - 1, f[k - 1]>>]]
    BY <1>6 DEF LoopOf
  <2> HIDE DEF step
  <2> QED BY <2>1, <2>2
<1>9. after = [k \in 0 .. n |-> IF k = 0 THEN Contents ELSE Round(after[k - 1], k)]
  BY <1>1, <1>8
<1> HIDE DEF after, C
<1>10. after[0] = Contents /\ \A k \in 1 .. n : after[k] = Round(after[k - 1], k) BY <1>9
<1>11. \A k \in 0 .. n : after[k] \in C
  <2> DEFINE P == {k \in 0 .. n : after[k] \in C}
  <2>1. 0 \in P BY <1>10 DEF C
  <2>2. ASSUME NEW k \in 1 .. n, k - 1 \in P PROVE k \in P BY <1>3, <1>10, <2>2
  <2> HIDE DEF P
  <2>3. \A k \in 0 .. n : k \in P BY <2>1, <2>2, BoundedInduction
  <2> QED BY <2>3 DEF P
<1>12. ASSUME NEW k \in 1 .. n PROVE after[k] = Stored(after[k - 1], ids[k], updates[k])
  <2>1. k - 1 \in 0 .. n OBVIOUS
  <2> QED BY <1>3, <1>10, <1>11, <2>1
<1> QED BY <1>2, <1>10, <1>11, <1>12 DEF C

\* A block of a batch is found as its previous access left it.
LEMMA AfterLastUse ==
  ASSUME Contents \in [Id -> Content], NEW n \in Nat, NEW ids \in [1 .. n -> Id],
         NEW updates \in [1 .. n -> Update], NEW id \in Id
  PROVE  \A k \in 0 .. n :
           After(ids, updates)[k][id] =
             IF Uses(ids, id, k) = {} THEN Contents[id]
             ELSE Apply(updates[Last(Uses(ids, id, k))],
                        After(ids, updates)[Last(Uses(ids, id, k)) - 1][id])
<1> DEFINE A == After(ids, updates)
           U(k) == Uses(ids, id, k)
           P == {k \in 0 .. n : A[k][id] = IF U(k) = {} THEN Contents[id]
                                           ELSE Apply(updates[Last(U(k))], A[Last(U(k)) - 1][id])}
<1>1. /\ A[0] = Contents
      /\ \A k \in 1 .. n : A[k] = Stored(A[k - 1], ids[k], updates[k])
  BY AfterDef
<1> HIDE DEF A
<1>2. 0 \in P
  <2>1. U(0) = {} BY DEF Uses
  <2> HIDE DEF U
  <2> QED BY <1>1, <2>1
<1>3. ASSUME NEW k \in 1 .. n, k - 1 \in P PROVE k \in P
  <2>1. A[k][id] = IF id = ids[k] THEN Apply(updates[k], A[k - 1][id]) ELSE A[k - 1][id]
    BY <1>1, StoredAt
  <2>2. /\ id # ids[k] => U(k) = U(k - 1)
        /\ id = ids[k] => U(k) # {} /\ Last(U(k)) = k
    BY UsesStep
  <2> HIDE DEF U
  <2> QED BY <1>3, <2>1, <2>2
<1> HIDE DEF P
<1>4. \A k \in 0 .. n : k \in P BY <1>2, <1>3, BoundedInduction
<1> QED BY <1>4 DEF P, A

\* What a batch leaves in a block is what it held, or an update of the batch.
LEMMA AfterIsUpdate ==
  ASSUME Contents \in [Id -> Content], NEW n \in Nat, NEW ids \in [1 .. n -> Id],
         NEW updates \in [1 .. n -> Update], NEW id \in Id
  PROVE  \A k \in 0 .. n :
           \/ After(ids, updates)[k][id] = Contents[id]
           \/ \E j \in 1 .. n : /\ ids[j] = id
                                /\ After(ids, updates)[k][id] = Apply(updates[j], Contents[id])
<1> DEFINE A == After(ids, updates)
           P == {k \in 0 .. n : \/ A[k][id] = Contents[id]
                                \/ \E j \in 1 .. n :
                                     ids[j] = id /\ A[k][id] = Apply(updates[j], Contents[id])}
<1>1. /\ A[0] = Contents
      /\ \A k \in 1 .. n : A[k] = Stored(A[k - 1], ids[k], updates[k])
  BY AfterDef
<1> HIDE DEF A
<1>2. 0 \in P BY <1>1
<1>3. ASSUME NEW k \in 1 .. n, k - 1 \in P PROVE k \in P
  <2>1. A[k][id] = IF id = ids[k] THEN Apply(updates[k], A[k - 1][id]) ELSE A[k - 1][id]
    BY <1>1, StoredAt
  <2>2. Apply(updates[k], A[k - 1][id]) \in {A[k - 1][id], Apply(updates[k], Contents[id])}
    BY DEF Apply
  <2> QED BY <1>3, <2>1, <2>2
<1> HIDE DEF P
<1>4. \A k \in 0 .. n : k \in P BY <1>2, <1>3, BoundedInduction
<1> QED BY <1>4 DEF P, A

-----------------------------------------------------------------------------
(* What an access and a metadata write do to the blocks.                   *)

\* Only the stash of v may hold blocks that w does not hold at that place: no
\* access writes a block into the tree.
OnlyRemoves(w, v) ==
  \A p \in Place : p[1] # -1 /\ BlockIn(v, p).occupied => BlockIn(v, p) = BlockIn(w, p)

\* Accesses made one after the other only take blocks out of the tree.
LEMMA OnlyRemovesTransitive ==
  ASSUME NEW w, NEW u, NEW v, OnlyRemoves(w, u), OnlyRemoves(u, v) PROVE OnlyRemoves(w, v)
<1> SUFFICES ASSUME NEW p \in Place, p[1] # -1, BlockIn(v, p).occupied
             PROVE  BlockIn(v, p) = BlockIn(w, p)
  BY DEF OnlyRemoves
<1>1. BlockIn(v, p) = BlockIn(u, p) BY DEF OnlyRemoves
<1>2. BlockIn(u, p) = BlockIn(w, p) BY <1>1 DEF OnlyRemoves
<1> QED BY <1>1, <1>2

\* read_and_remove_target_path only takes its target out of the tree.
LEMMA TakeTargetOnlyRemoves ==
  ASSUME NEW w \in WorkingSet, NEW leaf \in Leaf, NEW id \in Id, ~TakeOverflows(w, leaf, id)
  PROVE  OnlyRemoves(w, TakeTarget(w, leaf, id))
<1>1. CASE Hits(w, leaf, id) = {}
  <2>1. TakeTarget(w, leaf, id) = w BY <1>1 DEF TakeTarget
  <2> QED BY <2>1 DEF OnlyRemoves
<1>2. CASE Hits(w, leaf, id) # {}
  <2> DEFINE t == TakeTarget(w, leaf, id)
  <2>1. FreeSlots(w.stash) # {} BY <1>2 DEF TakeOverflows
  <2>2. PICK p \in Place, q \in Place : q[1] = -1 /\ Moved(w, t, p, q)
    BY <1>2, <2>1, TakeTargetMoves
  <2> HIDE DEF t
  <2>3. ~EmptyBlock.occupied BY DEF EmptyBlock
  <2>4. ASSUME NEW x \in Place, x[1] # -1, BlockIn(t, x).occupied
        PROVE  BlockIn(t, x) = BlockIn(w, x)
    <3>1. x # q BY <2>2, <2>4
    <3>2. x # p BY <2>2, <2>3, <2>4 DEF Moved
    <3> QED BY <2>2, <3>1, <3>2 DEF Moved
  <2> QED BY <2>4 DEF OnlyRemoves, t
<1> QED BY <1>1, <1>2

\* An access only takes its target out of the tree.
LEMMA AccessOnlyRemoves ==
  ASSUME NEW w \in WorkingSet, NEW leaf \in Leaf, NEW id \in Id,
         NEW update, NEW new_leaf
  PROVE  OnlyRemoves(w, AccessOutcome(w, leaf, id, update, new_leaf).w)
<1> DEFINE o == AccessOutcome(w, leaf, id, update, new_leaf)
           t == TakeTarget(w, leaf, id)
           st == Relabel(t.stash, id, Apply(update, StashPayload(t.stash, id)), new_leaf)
<1>1. CASE TakeOverflows(w, leaf, id)
  <2>1. o.w = w BY <1>1 DEF AccessOutcome
  <2> HIDE DEF o
  <2>2. OnlyRemoves(w, o.w) BY <2>1 DEF OnlyRemoves
  <2> QED BY <2>2 DEF o
<1>2. CASE ~TakeOverflows(w, leaf, id)
  <2>1. t \in WorkingSet BY TakeTargetType
  <2>2. OnlyRemoves(w, t) BY <1>2, TakeTargetOnlyRemoves
  <2>3. o.w = t \/ o.w = [t EXCEPT !.stash = st] BY <1>2 DEF AccessOutcome
  <2> HIDE DEF o, t, st
  <2>4. ASSUME NEW p \in Place, p[1] # -1 PROVE BlockIn(o.w, p) = BlockIn(t, p)
    <3>1. o.w.meta = t.meta /\ o.w.payload = t.payload BY <2>1, <2>3 DEF WorkingSet
    <3> QED BY <2>4, <3>1 DEF BlockIn
  <2>5. OnlyRemoves(w, o.w) BY <2>2, <2>4 DEF OnlyRemoves
  <2> QED BY <2>5 DEF o
<1> QED BY <1>1, <1>2

\* Same metadata everywhere.
SameMeta(w, v) ==
  \A p \in Place : /\ BlockIn(v, p).occupied = BlockIn(w, p).occupied
                   /\ BlockIn(v, p).id = BlockIn(w, p).id
                   /\ BlockIn(v, p).leaf = BlockIn(w, p).leaf

\* Copies and labels are a matter of the metadata and the stash.
LEMMA SameMetaSameCopies ==
  ASSUME NEW w, NEW v, SameMeta(w, v)
  PROVE  /\ \A id \in Id : Copies(v, id) = Copies(w, id)
         /\ OneCopyIn(w) => OneCopyIn(v)
         /\ \A labels : OnLabelledPathIn(w, labels) => OnLabelledPathIn(v, labels)
<1>1. ASSUME NEW id \in Id PROVE Copies(v, id) = Copies(w, id)
  BY DEF SameMeta, Copies, Matches
<1>2. OneCopyIn(w) => OneCopyIn(v) BY <1>1 DEF OneCopyIn
<1>3. ASSUME NEW labels, OnLabelledPathIn(w, labels) PROVE OnLabelledPathIn(v, labels)
  <2> SUFFICES ASSUME NEW p \in Place, BlockIn(v, p).occupied
               PROVE  /\ BlockIn(v, p).id \in Id
                      /\ BlockIn(v, p).leaf = labels[BlockIn(v, p).id]
                      /\ p[1] # -1 => \E depth \in Depth :
                           node_index(depth, BlockIn(v, p).leaf) = p[1]
    BY DEF OnLabelledPathIn
  <2>1. /\ BlockIn(w, p).occupied
        /\ BlockIn(v, p).id = BlockIn(w, p).id
        /\ BlockIn(v, p).leaf = BlockIn(w, p).leaf
    BY DEF SameMeta
  <2> QED BY <1>3, <2>1 DEF OnLabelledPathIn
<1> QED BY <1>1, <1>2, <1>3

\* What is vouched for when the metadata pages of w are written and its payload
\* pages are not.
MetaWritten(w, old) == [meta |-> w.meta, payload |-> old, stash |-> w.stash]

\* It holds the same blocks in the same places, whatever their payloads.
LEMMA MetaWrittenSameMeta ==
  ASSUME NEW w, NEW old PROVE SameMeta(w, MetaWritten(w, old))
<1> SUFFICES ASSUME NEW p \in Place
             PROVE  /\ BlockIn(MetaWritten(w, old), p).occupied = BlockIn(w, p).occupied
                    /\ BlockIn(MetaWritten(w, old), p).id = BlockIn(w, p).id
                    /\ BlockIn(MetaWritten(w, old), p).leaf = BlockIn(w, p).leaf
  BY DEF SameMeta
<1>1. CASE p[1] = -1 BY <1>1 DEF BlockIn, MetaWritten
<1>2. CASE p[1] # -1 BY <1>2 DEF BlockIn, MetaWritten
<1> QED BY <1>1, <1>2

\* A metadata write without its payload write loses no payload, if the call has
\* only taken blocks out of the tree.
LEMMA MetaWrittenSameBlocks ==
  ASSUME NEW w \in WorkingSet, NEW v \in WorkingSet, OneCopyIn(v), OnlyRemoves(w, v)
  PROVE  SameBlocks(v, MetaWritten(v, w.payload))
<1> DEFINE m == MetaWritten(v, w.payload)
<1>1. SameMeta(v, m) BY MetaWrittenSameMeta
<1>2. ASSUME NEW p \in Place, BlockIn(v, p).occupied PROVE BlockIn(m, p) = BlockIn(v, p)
  <2>1. CASE p[1] = -1 BY <2>1 DEF BlockIn, MetaWritten
  <2>2. CASE p[1] # -1
    <3>1. BlockIn(v, p) = BlockIn(w, p) BY <1>2, <2>2 DEF OnlyRemoves
    <3>2. v.payload[p[1]][p[2]] = w.payload[p[1]][p[2]] BY <2>2, <3>1 DEF BlockIn
    <3>3. m.meta = v.meta /\ m.payload = w.payload BY DEF MetaWritten
    <3> HIDE DEF m
    <3> QED BY <2>2, <3>2, <3>3 DEF BlockIn
  <2> QED BY <2>1, <2>2
<1> HIDE DEF m
<1>3. ASSUME NEW id \in Id
      PROVE  \E p \in Place, q \in Place :
               Copies(v, id) = {p} /\ Copies(m, id) = {q} /\ BlockIn(m, q) = BlockIn(v, p)
  <2>1. PICK p \in Place : Copies(v, id) = {p} BY DEF OneCopyIn
  <2>2. Copies(m, id) = {p} BY <1>1, <2>1, SameMetaSameCopies
  <2>3. BlockIn(v, p).occupied BY <2>1 DEF Copies, Matches
  <2> QED BY <1>2, <2>1, <2>2, <2>3
<1> QED BY <1>3 DEF SameBlocks, m

-----------------------------------------------------------------------------
(* Batches that cannot overflow.                                           *)

\* The stash can hold every block, or a call makes at most one access.
BatchesFit == StashCapacity >= LogicalBlocks \/ MaxBatch <= 1

\* A stash that can hold every block has room for a block of the tree.
LEMMA RoomForTarget ==
  ASSUME StashCapacity >= LogicalBlocks,
         NEW w \in WorkingSet, OneCopyIn(w),
         \A p \in Place : BlockIn(w, p).occupied => BlockIn(w, p).id \in Id,
         NEW leaf \in Leaf, NEW id \in Id
  PROVE  ~TakeOverflows(w, leaf, id)
<1> SUFFICES ASSUME TakeOverflows(w, leaf, id) PROVE FALSE
  OBVIOUS
<1>1. PICK h \in Depth \X Slot : Matches(w.meta[node_index(h[1], leaf)][h[2]], id)
  BY DEF TakeOverflows, Hits
<1> DEFINE x == <<node_index(h[1], leaf), h[2]>>
<1>2. x \in Place /\ x[1] # -1
  <2>1. node_index(h[1], leaf) \in Node BY NodeIndexType
  <2>2. node_index(h[1], leaf) # -1 BY <2>1, LeavesType DEF Node, bucket_count
  <2> QED BY <2>1, <2>2 DEF Place
<1>3. x \in Copies(w, id)
  <2>1. Matches(BlockIn(w, x), id) BY <1>1, <1>2 DEF BlockIn, Matches
  <2> QED BY <1>2, <2>1 DEF Copies
<1> HIDE DEF x
<1>4. ASSUME NEW i \in StashSlot
      PROVE  /\ w.stash[i].id \in Id
             /\ <<-1, i>> \in Copies(w, w.stash[i].id)
  <2>1. <<-1, i>> \in Place BY DEF Place
  <2>2. BlockIn(w, <<-1, i>>) = w.stash[i] BY DEF BlockIn
  <2>3. w.stash[i].occupied BY DEF TakeOverflows, FreeSlots
  <2>4. w.stash[i].id \in Id BY <2>1, <2>2, <2>3
  <2> QED BY <2>1, <2>2, <2>3, <2>4 DEF Copies, Matches
<1>5. ASSUME NEW j \in Id, NEW a \in Copies(w, j), NEW b \in Copies(w, j) PROVE a = b
  <2>1. PICK p \in Place : Copies(w, j) = {p} BY DEF OneCopyIn
  <2> QED BY <2>1
<1> DEFINE f == [i \in StashSlot |-> w.stash[i].id]
           T == Id \ {id}
<1>6. f \in [StashSlot -> T]
  <2>1. ASSUME NEW i \in StashSlot PROVE w.stash[i].id # id
    <3>1. SUFFICES ASSUME w.stash[i].id = id PROVE FALSE
      OBVIOUS
    <3>2. x = <<-1, i>> BY <1>3, <1>4, <1>5, <3>1
    <3> QED BY <1>2, <3>2
  <2> QED BY <1>4, <2>1
<1>7. \A a, b \in StashSlot : f[a] = f[b] => a = b
  <2> SUFFICES ASSUME NEW a \in StashSlot, NEW b \in StashSlot, w.stash[a].id = w.stash[b].id
               PROVE  a = b
    OBVIOUS
  <2>1. <<-1, a>> = <<-1, b>> BY <1>4, <1>5
  <2> QED BY <2>1
<1> HIDE DEF f
<1>8. f \in Injection(StashSlot, T) BY <1>6, <1>7, Fun_IsInj
<1>9. /\ IsFiniteSet(Id) /\ Cardinality(Id) = LogicalBlocks
      /\ IsFiniteSet(StashSlot) /\ Cardinality(StashSlot) = StashCapacity
  <2>1. 0 \in Int /\ LogicalBlocks - 1 \in Int /\ StashCapacity - 1 \in Int
    BY ParamsAssumption
  <2>2. /\ IsFiniteSet(0 .. LogicalBlocks - 1)
        /\ Cardinality(0 .. LogicalBlocks - 1)
             = IF 0 > LogicalBlocks - 1 THEN 0 ELSE (LogicalBlocks - 1) - 0 + 1
    BY <2>1, FS_Interval
  <2>3. /\ IsFiniteSet(0 .. StashCapacity - 1)
        /\ Cardinality(0 .. StashCapacity - 1)
             = IF 0 > StashCapacity - 1 THEN 0 ELSE (StashCapacity - 1) - 0 + 1
    BY <2>1, FS_Interval
  <2>4. Cardinality(Id) = LogicalBlocks BY <2>2, ParamsAssumption DEF Id
  <2>5. Cardinality(StashSlot) = StashCapacity BY <2>3, ParamsAssumption DEF StashSlot
  <2> QED BY <2>2, <2>3, <2>4, <2>5 DEF Id, StashSlot
<1>10. IsFiniteSet(T) /\ Cardinality(T) = LogicalBlocks - 1 BY <1>9, FS_RemoveElement
<1> HIDE DEF T
<1>11. Cardinality(StashSlot) <= Cardinality(T)
  BY <1>8, <1>10, FS_Injection
<1> QED BY <1>9, <1>10, <1>11, ParamsAssumption

-----------------------------------------------------------------------------
(* A batch keeps every block and acts as its accesses in sequence.         *)

\* The answers to the first k accesses of a batch.
Answers(ids, updates, k) == [j \in 1 .. k |-> After(ids, updates)[j - 1][ids[j]]]

\* The accesses so far all succeeded: they kept every block, on the path to its
\* label of the moment, answered and acted as the array does, and wrote no block
\* into the tree.
BatchState(ids, updates, new_leaves, k, r) ==
  /\ r.done = k
  /\ r.reply = Ok(Answers(ids, updates, k))
  /\ r.w \in WorkingSet
  /\ OneCopyIn(r.w)
  /\ OnLabelledPathIn(r.w, LabelsAt(ids, new_leaves, k))
  /\ ContentsIn(r.w) = After(ids, updates)[k]
  /\ OnlyRemoves(Working, r.w)

\* One more answer.
LEMMA AnswersStep ==
  ASSUME Contents \in [Id -> Content], NEW n \in Nat, NEW ids \in [1 .. n -> Id],
         NEW updates \in [1 .. n -> Update], NEW k \in 1 .. n
  PROVE  Answers(ids, updates, k)
           = Answers(ids, updates, k - 1) \o <<After(ids, updates)[k - 1][ids[k]]>>
<1> DEFINE A == After(ids, updates)
           f == Answers(ids, updates, k - 1)
           g == Answers(ids, updates, k)
<1>1. \A j \in 0 .. n : A[j] \in [Id -> Content] BY AfterDef
<1> HIDE DEF A
<1>2. ASSUME NEW j \in 1 .. n PROVE A[j - 1][ids[j]] \in Content
  <2>1. j - 1 \in 0 .. n /\ ids[j] \in Id OBVIOUS
  <2> QED BY <1>1, <2>1
<1>3. k \in Nat \ {0} OBVIOUS
<1>4. f \in [1 .. k - 1 -> Content] BY <1>2 DEF Answers, A
<1>5. g \in [1 .. k -> Content] BY <1>2 DEF Answers, A
<1>6. \A j \in 1 .. k - 1 : g[j] = f[j] BY DEF Answers
<1>7. g[k] = A[k - 1][ids[k]] BY DEF Answers, A
<1>8. A[k - 1][ids[k]] \in Content BY <1>2
<1> HIDE DEF f, g
<1>9. f \o <<A[k - 1][ids[k]]>> = g BY <1>3, <1>4, <1>5, <1>6, <1>7, <1>8, AppendOne
<1> QED BY <1>9 DEF f, g, A

\* An access of a batch overflows the stash or goes on as the array does.
LEMMA BatchStateStep ==
  ASSUME Working \in WorkingSet, pos_map \in [Id -> Leaf], Contents \in [Id -> Content],
         NEW n \in Nat, NEW ids \in [1 .. n -> Id], NEW updates \in [1 .. n -> Update],
         NEW new_leaves \in [1 .. n -> Leaf], NEW k \in 1 .. n, NEW r,
         BatchState(ids, updates, new_leaves, k - 1, r)
  PROVE  LET o == BatchOutcome(r, ids, updates, new_leaves, k)
         IN \/ /\ o.reply = Err("StashOverflow") /\ o.w = r.w
               /\ ~(StashCapacity >= LogicalBlocks)
            \/ BatchState(ids, updates, new_leaves, k, OneMoreAccess(r, o, k))
<1> DEFINE L == LabelsAt(ids, new_leaves, k - 1)
           A == After(ids, updates)
           id == ids[k]
           o == AccessOutcome(r.w, L[id], id, updates[k], new_leaves[k])
           New(p) == [BlockIn(r.w, p) EXCEPT
                        !.payload = Apply(updates[k], BlockIn(r.w, p).payload),
                        !.leaf = new_leaves[k]]
           v == OneMoreAccess(r, o, k)
<1>1. /\ r.done = k - 1 /\ r.reply = Ok(Answers(ids, updates, k - 1))
      /\ r.w \in WorkingSet /\ OneCopyIn(r.w) /\ OnLabelledPathIn(r.w, L)
      /\ ContentsIn(r.w) = A[k - 1] /\ OnlyRemoves(Working, r.w)
  BY DEF BatchState
<1>2. id \in Id /\ updates[k] \in Update /\ new_leaves[k] \in Leaf /\ k - 1 \in 0 .. n
  OBVIOUS
<1>3. L \in [Id -> Leaf] /\ batch_access_leaf(ids, new_leaves, k) = L[id]
  BY <1>2, LabelsAtType
<1>4. LabelsAt(ids, new_leaves, k) = [L EXCEPT ![id] = new_leaves[k]]
  <2> DEFINE M == LabelsAt(ids, new_leaves, k)
  <2>1. \A j \in Id : M[j] = IF j = id THEN new_leaves[k] ELSE L[j] BY LabelsAtStep
  <2>2. M \in [Id -> Leaf]
    <3>1. k \in 0 .. n OBVIOUS
    <3> QED BY <3>1, LabelsAtType
  <2> HIDE DEF L, M, id
  <2>3. M = [L EXCEPT ![id] = new_leaves[k]] BY <1>3, <2>1, <2>2
  <2> QED BY <2>3 DEF M
<1>5. A[k] = Stored(A[k - 1], id, updates[k]) BY AfterDef
<1>6. Answers(ids, updates, k) = Answers(ids, updates, k - 1) \o <<A[k - 1][id]>>
  BY AnswersStep
<1> HIDE DEF L, A, id
<1>7. BatchOutcome(r, ids, updates, new_leaves, k) = o BY <1>3 DEF BatchOutcome, id
<1>8. L[id] \in Leaf BY <1>2, <1>3
<1>9. o.w \in WorkingSet BY <1>1, <1>2, <1>8, AccessOutcomeType
<1>10. OnlyRemoves(Working, o.w)
  <2>1. OnlyRemoves(r.w, o.w) BY <1>1, <1>2, <1>8, AccessOnlyRemoves
  <2> QED BY <1>1, <2>1, OnlyRemovesTransitive
<1>11. \/ o.reply = Err("StashOverflow") /\ o.w = r.w
       \/ \E p \in Place :
            /\ Copies(r.w, id) = {p}
            /\ o.reply = Ok(<<BlockIn(r.w, p).payload>>)
            /\ Rewritten(r.w, o.w, id, New(p))
            /\ OnLabelledPathIn(o.w, [L EXCEPT ![id] = new_leaves[k]])
  BY <1>1, <1>2, <1>3, AccessKeepsBlocks
<1>12. StashCapacity >= LogicalBlocks => o.reply # Err("StashOverflow")
  <2>1. SUFFICES ASSUME StashCapacity >= LogicalBlocks PROVE o.reply # Err("StashOverflow")
    OBVIOUS
  <2>2. ~TakeOverflows(r.w, L[id], id)
    <3>1. \A p \in Place : BlockIn(r.w, p).occupied => BlockIn(r.w, p).id \in Id
      BY <1>1 DEF OnLabelledPathIn
    <3> QED BY <1>1, <1>2, <1>8, <2>1, <3>1, RoomForTarget
  <2>3. \/ o.reply = Err("BlockNotFound")
        \/ \E x : o.reply = Ok(x)
    BY <2>2 DEF AccessOutcome
  <2> HIDE DEF o
  <2>4. CASE o.reply = Err("BlockNotFound")
    <3>1. o.reply.result = "BlockNotFound" BY <2>4 DEF Err
    <3>2. Err("StashOverflow").result = "StashOverflow" BY DEF Err
    <3> QED BY <3>1, <3>2
  <2>5. CASE \E x : o.reply = Ok(x)
    <3>1. o.reply.result = "ok" BY <2>5 DEF Ok
    <3>2. Err("StashOverflow").result = "StashOverflow" BY DEF Err
    <3> QED BY <3>1, <3>2
  <2> QED BY <2>3, <2>4, <2>5
<1>13. ASSUME NEW p \in Place PROVE New(p).payload = Apply(updates[k], BlockIn(r.w, p).payload)
  <2>1. BlockIn(r.w, p) \in Block BY <1>1, BlockInType
  <2> QED BY <2>1 DEF Block
<1> HIDE DEF o, New
<1>14. ASSUME NEW p \in Place, Copies(r.w, id) = {p},
              o.reply = Ok(<<BlockIn(r.w, p).payload>>),
              Rewritten(r.w, o.w, id, New(p)),
              OnLabelledPathIn(o.w, [L EXCEPT ![id] = new_leaves[k]])
       PROVE  BatchState(ids, updates, new_leaves, k, v)
  <2>1. BlockIn(r.w, p).payload = A[k - 1][id] BY <1>1, <1>2, <1>14, ContentOfCopy
  <2>2. r.reply.out \o o.reply.out = Answers(ids, updates, k)
    <3>1. r.reply.out = Answers(ids, updates, k - 1) BY <1>1 DEF Ok
    <3>2. o.reply.out = <<A[k - 1][id]>> BY <1>14, <2>1 DEF Ok
    <3> QED BY <1>6, <3>1, <3>2
  <2>3. v = [done |-> k, reply |-> Ok(Answers(ids, updates, k)), w |-> o.w]
    <3>1. r.reply.result = "ok" /\ o.reply.result = "ok" BY <1>1, <1>14 DEF Ok
    <3> QED BY <2>2, <3>1 DEF OneMoreAccess
  <2>4. v.done = k /\ v.reply = Ok(Answers(ids, updates, k)) /\ v.w = o.w BY <2>3
  <2>5. OneCopyIn(o.w) BY <1>14, RewrittenKeepsOneCopy
  <2>6. ContentsIn(o.w) = A[k]
    <3> DEFINE x == Apply(updates[k], A[k - 1][id])
    <3>1. x = New(p).payload BY <1>13, <2>1
    <3> HIDE DEF x
    <3>2. ContentsIn(o.w) = [j \in Id |-> IF j = id THEN x ELSE A[k - 1][j]]
      BY <1>1, <1>2, <1>14, <3>1, RewrittenContents
    <3>3. A[k] = [j \in Id |-> IF j = id THEN Apply(updates[k], A[k - 1][j]) ELSE A[k - 1][j]]
      BY <1>5 DEF Stored
    <3> QED BY <3>2, <3>3 DEF x
  <2> HIDE DEF v
  <2>7. OnLabelledPathIn(v.w, LabelsAt(ids, new_leaves, k)) BY <1>4, <1>14, <2>4
  <2> QED BY <1>9, <1>10, <2>4, <2>5, <2>6, <2>7 DEF BatchState, A
<1> HIDE DEF v
<1>15. \/ o.reply = Err("StashOverflow") /\ o.w = r.w /\ ~(StashCapacity >= LogicalBlocks)
       \/ BatchState(ids, updates, new_leaves, k, v)
  BY <1>11, <1>12, <1>14
<1> QED BY <1>7, <1>15 DEF v

\* A batch of a controller whose batches fit succeeds as a whole, or is one
\* access that finds the stash full and leaves everything as it was.
LEMMA BatchKeepsBlocks ==
  ASSUME BatchesFit, Working \in WorkingSet, pos_map \in [Id -> Leaf], OneCopy, OnLabelledPath,
         NEW n \in 0 .. MaxBatch, NEW ids \in [1 .. n -> Id], NEW updates \in [1 .. n -> Update],
         NEW new_leaves \in [1 .. n -> Leaf]
  PROVE  LET r == BatchRun(ids, updates, new_leaves)[Len(ids)]
         IN \/ BatchState(ids, updates, new_leaves, n, r)
            \/ /\ n = 1
               /\ r.done = 0 /\ r.reply = Err("StashOverflow") /\ r.w = Working
<1> DEFINE run == BatchRun(ids, updates, new_leaves)
           Ends(k) == BatchState(ids, updates, new_leaves, k, run[k])
           Full == /\ n = 1
                   /\ run[1].done = 0 /\ run[1].reply = Err("StashOverflow")
                   /\ run[1].w = Working
           P == {k \in 0 .. n : Ends(k) \/ (Full /\ k = 1)}
<1>1. n \in Nat /\ MaxBatch \in Nat BY BatchAssumption
<1>2. Len(ids) = n BY <1>1, ListLen
<1>3. OneCopyIn(Working) /\ OnLabelledPathIn(Working, pos_map) BY DEF OneCopy, OnLabelledPath
<1>4. Contents \in [Id -> Content] BY <1>3, ContentsType, ContentsNow
<1>5. /\ run[0] = [done |-> 0, reply |-> Ok(<<>>), w |-> Working]
      /\ \A k \in 1 .. n : run[k] = OneMoreAccess(run[k - 1],
                             BatchOutcome(run[k - 1], ids, updates, new_leaves, k), k)
  BY <1>1, BatchRunDef
<1> HIDE DEF run
<1>6. Ends(0)
  <2>1. Answers(ids, updates, 0) = <<>> BY DEF Answers
  <2>2. After(ids, updates)[0] = ContentsIn(Working) BY <1>1, <1>4, AfterDef, ContentsNow
  <2>3. LabelsAt(ids, new_leaves, 0) = pos_map BY <1>1, LabelsAtType
  <2>4. OnlyRemoves(Working, Working) BY DEF OnlyRemoves
  <2>5. run[0].done = 0 /\ run[0].reply = Ok(<<>>) /\ run[0].w = Working BY <1>5
  <2> QED BY <1>3, <2>1, <2>2, <2>3, <2>4, <2>5 DEF BatchState
<1>7. ASSUME NEW k \in 1 .. n, Ends(k - 1) PROVE Ends(k) \/ (Full /\ k = 1)
  <2> DEFINE o == BatchOutcome(run[k - 1], ids, updates, new_leaves, k)
  <2>1. \/ /\ o.reply = Err("StashOverflow") /\ o.w = run[k - 1].w
           /\ ~(StashCapacity >= LogicalBlocks)
        \/ BatchState(ids, updates, new_leaves, k, OneMoreAccess(run[k - 1], o, k))
    BY <1>1, <1>4, <1>7, BatchStateStep
  <2>2. run[k] = OneMoreAccess(run[k - 1], o, k) BY <1>5
  <2> HIDE DEF o
  <2>3. CASE /\ o.reply = Err("StashOverflow") /\ o.w = run[k - 1].w
             /\ ~(StashCapacity >= LogicalBlocks)
    <3>1. n = 1 /\ k = 1 BY <1>1, <2>3 DEF BatchesFit
    <3>2. run[0].reply.result = "ok" /\ run[0].done = 0 /\ run[0].w = Working
      BY <1>5 DEF Ok
    <3>3. o.reply.result # "ok" BY <2>3 DEF Err
    <3>4. k - 1 = 0 BY <3>1
    <3>5. run[1] = [done |-> 0, reply |-> Err("StashOverflow"), w |-> Working]
      BY <2>2, <2>3, <3>1, <3>2, <3>3, <3>4 DEF OneMoreAccess
    <3> QED BY <3>1, <3>5
  <2> QED BY <2>1, <2>2, <2>3
<1> HIDE DEF Ends, Full
<1>8. 0 \in P BY <1>1, <1>6
<1>9. ASSUME NEW k \in 1 .. n, k - 1 \in P PROVE k \in P
  <2>1. CASE Ends(k - 1) BY <1>7, <2>1
  <2>2. CASE Full /\ k - 1 = 1 BY <2>2 DEF Full
  <2> QED BY <1>9, <2>1, <2>2
<1> HIDE DEF P
<1>10. \A k \in 0 .. n : k \in P BY <1>1, <1>8, <1>9, BoundedInduction
<1>11. n \in P BY <1>1, <1>10
<1>12. Ends(n) \/ (Full /\ n = 1) BY <1>11 DEF P
<1> QED BY <1>2, <1>12 DEF Ends, Full, run

-----------------------------------------------------------------------------
(* Calls that fail: what they leave.                                       *)

\* The access counter of a batch: the debt grows with every access.
LEMMA DebtGrows ==
  ASSUME NEW a \in Nat, NEW b \in Nat, NEW c \in Nat
  PROVE  a * c \in Nat /\ a * c <= (a + b) * c
<1>1. (a + b) * c = a * c + b * c OBVIOUS
<1>2. a * c \in Nat /\ b * c \in Nat OBVIOUS
<1> QED BY <1>1, <1>2

\* A call that leaves a working set, in whole or with the payload pages of
\* before, keeps the types.
LEMMA TypesKept ==
  ASSUME StateTypes, NEW w \in WorkingSet,
         meta' \in {meta, w.meta}, payload' \in {payload, w.payload}, stash' = w.stash,
         pos_map' \in [Id -> Leaf], NEW more \in Nat, issued_accesses' = issued_accesses + more,
         completed_evictions' = completed_evictions
  PROVE  StateTypes'
<1>1. /\ meta' \in [Node -> [Slot -> Meta]]
      /\ payload' \in [Node -> [Slot -> Payloads \cup {ZeroPayload}]]
      /\ stash' \in [StashSlot -> Block]
  BY DEF StateTypes, WorkingSet
<1>2. issued_accesses' \in Nat /\ completed_evictions' \in Nat BY DEF StateTypes
<1>3. completed_evictions' <= issued_accesses' * EvictionsPerAccess
  <2>1. /\ issued_accesses * EvictionsPerAccess \in Nat
        /\ issued_accesses * EvictionsPerAccess
             <= (issued_accesses + more) * EvictionsPerAccess
    BY DebtGrows, RateAssumption DEF StateTypes
  <2>2. (issued_accesses + more) * EvictionsPerAccess \in Int
    BY RateAssumption DEF StateTypes
  <2>3. completed_evictions \in Nat
        /\ completed_evictions <= issued_accesses * EvictionsPerAccess
    BY DEF StateTypes
  <2>4. completed_evictions <= (issued_accesses + more) * EvictionsPerAccess
    BY <2>1, <2>2, <2>3
  <2> QED BY <2>4
<1> QED BY <1>1, <1>2, <1>3 DEF StateTypes

\* The state part of a batch that is answered.
LEMMA BatchTypes ==
  ASSUME StateTypes, NEW n \in 0 .. MaxBatch, NEW ids \in [1 .. n -> Id],
         NEW updates \in [1 .. n -> Update], NEW new_leaves \in [1 .. n -> Leaf],
         AccessBatch(ids, updates, new_leaves)
  PROVE  StateTypes'
<1> DEFINE r == BatchRun(ids, updates, new_leaves)[Len(ids)]
<1>1. n \in Nat BY BatchAssumption
<1>2. Len(ids) = n BY <1>1, ListLen
<1>3. Working \in WorkingSet /\ pos_map \in [Id -> Leaf] BY WorkingType DEF StateTypes
<1>4. r \in BatchResult
  <2>1. \A k \in 0 .. n : BatchRun(ids, updates, new_leaves)[k] \in BatchResult
    BY <1>1, <1>3, BatchRunDef
  <2>2. n \in 0 .. n BY <1>1
  <2> QED BY <1>2, <2>1, <2>2
<1>5. BatchLabels(ids, new_leaves) \in [Id -> Leaf] BY <1>1, <1>3, LabelsAtType
<1>6. /\ stash' = r.w.stash
      /\ issued_accesses' = issued_accesses + r.done
      /\ IF r.reply.result = "ok"
         THEN /\ pos_map' = BatchLabels(ids, new_leaves)
              /\ meta' = r.w.meta
              /\ payload' = r.w.payload
         ELSE UNCHANGED <<pos_map, meta, payload>>
      /\ completed_evictions' = completed_evictions
  BY DEF AccessBatch
<1> HIDE DEF r
<1>7. r.w \in WorkingSet /\ r.done \in Nat BY <1>4 DEF BatchResult
<1>8. meta' \in {meta, r.w.meta} /\ payload' \in {payload, r.w.payload} BY <1>6
<1>9. pos_map' \in [Id -> Leaf] BY <1>3, <1>5, <1>6
<1> QED BY <1>6, <1>7, <1>8, <1>9, TypesKept

\* A drain whose pages are not all written.
DrainResult(budget) == EvictPaths(Working, completed_evictions)[ToDrain(budget)]

\* The length of a drain.
LEMMA ToDrainType ==
  ASSUME StateTypes, NEW budget \in 0 .. MaxBudget
  PROVE  completed_evictions \in Nat /\ ToDrain(budget) \in Nat
<1>1. issued_accesses * EvictionsPerAccess \in Nat
  BY DebtArithmetic, RateAssumption DEF StateTypes
<1> QED BY <1>1, CircuitAssumption DEF ToDrain, Debt, StateTypes

\* The calls that go through are those of the controller.
Served ==
  \/ \E id \in Id, update \in Update : access_served(id, update)
  \/ dummy_served
  \/ \E budget \in 1 .. MaxBudget : drain_served(budget)

\* Each of them is a call of the controller over stores that do not fail.
LEMMA ServedIsNext == Served => Next
<1>1. ASSUME NEW budget \in 1 .. MaxBudget PROVE budget \in 0 .. MaxBudget OBVIOUS
<1> QED BY <1>1 DEF Served, access_served, dummy_served, drain_served, Next

\* What a failing write leaves: the metadata the roots vouch for is the new one,
\* the payload is the old or the new one.
Vouched(w) ==
  /\ meta' = w.meta
  /\ payload' \in {payload, w.payload}
  /\ stash' = w.stash

\* A failing access has taken its target to the stash.
LEMMA AccessWriteFails ==
  ASSUME NEW id \in Id, access_write_fails(id)
  PROVE  /\ ~TakeOverflows(Working, pos_map[id], id)
         /\ Vouched(TakeTarget(Working, pos_map[id], id))
         /\ UNCHANGED <<pos_map, issued_accesses, completed_evictions, mem>>
         /\ request' = <<>> /\ reply' = Err("Storage") /\ faults' = faults + 1
  BY DEF access_write_fails, WriteFails, WriteMetaFails, WritePayloadFails, Vouched

\* A failing dummy access has changed nothing.
LEMMA DummyWriteFails ==
  ASSUME dummy_write_fails
  PROVE  /\ UNCHANGED <<meta, payload, stash, pos_map, issued_accesses, completed_evictions, mem>>
         /\ request' = <<>> /\ reply' = Err("Storage") /\ faults' = faults + 1
  BY DEF dummy_write_fails, WriteFails, WriteMetaFails, WritePayloadFails, Working

\* A failing batch has updated the stash, the labels and the counter.
LEMMA BatchWriteFails ==
  ASSUME NEW ids, NEW updates, access_batch_write_fails(ids, updates)
  PROVE  /\ \E new_leaves \in [1 .. Len(ids) -> Leaf] :
              LET r == BatchRun(ids, updates, new_leaves)[Len(ids)]
              IN /\ r.reply.result = "ok"
                 /\ Vouched(r.w)
                 /\ pos_map' = BatchLabels(ids, new_leaves)
         /\ issued_accesses' = issued_accesses + Len(ids)
         /\ mem' = MayHold(ids, updates)
         /\ completed_evictions' = completed_evictions
         /\ request' = <<>> /\ reply' = Err("Storage") /\ faults' = faults + 1
<1>1. PICK new_leaves \in [1 .. Len(ids) -> Leaf] :
        \E S \in {BatchPaths(ids, new_leaves)} :
        \E r \in {BatchRun(ids, updates, new_leaves)[Len(ids)]} :
            /\ r.reply.result = "ok"
            /\ WriteFails(S, r.w, TRUE)
            /\ stash' = r.w.stash
            /\ pos_map' = BatchLabels(ids, new_leaves)
            /\ issued_accesses' = issued_accesses + Len(ids)
  BY DEF access_batch_write_fails
<1> DEFINE r == BatchRun(ids, updates, new_leaves)[Len(ids)]
<1>2. PICK S : /\ r.reply.result = "ok"
               /\ WriteFails(S, r.w, TRUE)
               /\ stash' = r.w.stash
               /\ pos_map' = BatchLabels(ids, new_leaves)
               /\ issued_accesses' = issued_accesses + Len(ids)
  BY <1>1
<1> HIDE DEF r
<1>3. Vouched(r.w) /\ reply' = Err("Storage") /\ faults' = faults + 1
  BY <1>2 DEF WriteFails, WriteMetaFails, WritePayloadFails, Vouched
<1>4. /\ mem' = MayHold(ids, updates) /\ request' = <<>>
      /\ completed_evictions' = completed_evictions
  BY DEF access_batch_write_fails
<1>5. r.reply.result = "ok" /\ Vouched(r.w) /\ pos_map' = BatchLabels(ids, new_leaves)
  BY <1>2, <1>3
<1> QED BY <1>2, <1>3, <1>4, <1>5 DEF r

\* A failing drain has updated the stash; its metadata write may fail only if
\* DrainMetaFaults allows it.
LEMMA DrainWriteFails ==
  ASSUME NEW budget, drain_write_fails(budget)
  PROVE  /\ Vouched(DrainResult(budget).w)
         /\ ~DrainMetaFaults => payload' = DrainResult(budget).w.payload
         /\ UNCHANGED <<pos_map, issued_accesses, completed_evictions, mem>>
         /\ request' = <<>> /\ reply' = Err("Storage") /\ faults' = faults + 1
<1> DEFINE r == DrainResult(budget)
<1>1. /\ WriteFails(DrainPaths(budget), r.w, DrainMetaFaults)
      /\ stash' = r.w.stash
      /\ request' = <<>>
      /\ UNCHANGED <<pos_map, issued_accesses, completed_evictions, mem>>
  BY DEF drain_write_fails, DrainResult
<1> HIDE DEF r
<1>2. /\ reply' = Err("Storage") /\ faults' = faults + 1
      /\ meta' = r.w.meta
      /\ payload' = r.w.payload \/ (DrainMetaFaults /\ payload' = payload)
  BY <1>1 DEF WriteFails, WriteMetaFails, WritePayloadFails
<1>3. Vouched(r.w) BY <1>1, <1>2 DEF Vouched
<1>4. ~DrainMetaFaults => payload' = r.w.payload BY <1>2
<1> QED BY <1>1, <1>2, <1>3, <1>4 DEF r

\* What a drain leaves is a working set.
LEMMA DrainResultType ==
  ASSUME StateTypes, NEW budget \in 0 .. MaxBudget
  PROVE  DrainResult(budget).w \in WorkingSet
<1>1. Working \in WorkingSet BY WorkingType
<1>2. completed_evictions \in Nat /\ ToDrain(budget) \in Nat BY ToDrainType
<1>3. DrainResult(budget) \in EvictResult BY <1>1, <1>2, EvictPathsType DEF DrainResult
<1> QED BY <1>3 DEF EvictResult

\* Every call keeps the types, whether its writes fail or not.
FaultTypes == StateTypes /\ faults \in Nat

\* The types are inductive.
LEMMA FaultTypesStep == FaultTypes /\ [FaultsNext]_fvars => FaultTypes'
<1> SUFFICES ASSUME FaultTypes, [FaultsNext]_fvars PROVE FaultTypes'
  OBVIOUS
<1>1. StateTypes /\ faults \in Nat BY DEF FaultTypes
<1>2. Working \in WorkingSet /\ pos_map \in [Id -> Leaf] BY <1>1, WorkingType DEF StateTypes
<1>3. meta = Working.meta /\ payload = Working.payload /\ stash = Working.stash BY DEF Working
<1>4. 0 \in Nat /\ issued_accesses = issued_accesses + 0 BY <1>1 DEF StateTypes
<1>5. CASE Served
  <2>1. TypeOK' BY <1>1, <1>5, ServedIsNext, NextTypes
  <2>2. StateTypes' BY <2>1 DEF TypeOK, StateTypes
  <2>3. faults' = faults BY <1>5 DEF Served, access_served, dummy_served, drain_served
  <2> QED BY <1>1, <2>2, <2>3 DEF FaultTypes
<1>6. ASSUME NEW n \in 0 .. MaxBatch, NEW ids \in [1 .. n -> Id],
             NEW updates \in [1 .. n -> Update], access_batch_served(ids, updates)
      PROVE  FaultTypes'
  <2>1. n \in Nat /\ Len(ids) = n BY BatchAssumption, ListLen
  <2>2. PICK new_leaves \in [1 .. n -> Leaf] : AccessBatch(ids, updates, new_leaves)
    BY <1>6, <2>1 DEF access_batch_served
  <2>3. StateTypes' BY <1>1, <2>2, BatchTypes
  <2>4. faults' = faults BY <1>6 DEF access_batch_served
  <2> QED BY <1>1, <2>3, <2>4 DEF FaultTypes
<1>7. ASSUME NEW count \in 0 .. MaxBatch, dummy_batch_served(count) PROVE FaultTypes'
  <2>1. count \in Nat BY BatchAssumption
  <2>2. /\ issued_accesses' = issued_accesses + count
        /\ UNCHANGED <<pos_map, meta, payload, stash, completed_evictions, faults>>
    BY <1>7 DEF dummy_batch_served, dummy_access_batch
  <2>3. /\ meta' \in {meta, Working.meta} /\ payload' \in {payload, Working.payload}
        /\ stash' = Working.stash /\ pos_map' \in [Id -> Leaf]
    BY <1>2, <1>3, <2>2
  <2>4. StateTypes' BY <1>1, <1>2, <2>1, <2>2, <2>3, TypesKept
  <2> QED BY <1>1, <2>2, <2>4 DEF FaultTypes
<1>8. CASE read_refused
  BY <1>1, <1>8 DEF read_refused, FaultTypes, StateTypes
<1>9. ASSUME NEW w \in WorkingSet, Vouched(w), pos_map' \in [Id -> Leaf],
             NEW more \in Nat, issued_accesses' = issued_accesses + more,
             completed_evictions' = completed_evictions, faults' = faults + 1
      PROVE  FaultTypes'
  <2>1. /\ meta' \in {meta, w.meta} /\ payload' \in {payload, w.payload}
        /\ stash' = w.stash
    BY <1>9 DEF Vouched
  <2>2. StateTypes' BY <1>1, <1>9, <2>1, TypesKept
  <2>3. faults' \in Nat BY <1>1, <1>9
  <2> QED BY <2>2, <2>3 DEF FaultTypes
<1>10. ASSUME NEW id \in Id, access_write_fails(id) PROVE FaultTypes'
  <2> DEFINE t == TakeTarget(Working, pos_map[id], id)
  <2>1. pos_map[id] \in Leaf BY <1>2
  <2>2. /\ ~TakeOverflows(Working, pos_map[id], id) /\ Vouched(t)
        /\ UNCHANGED <<pos_map, issued_accesses, completed_evictions, mem>>
        /\ faults' = faults + 1
    BY <1>10, AccessWriteFails
  <2>3. t \in WorkingSet BY <1>2, <2>1, <2>2, TakeTargetType
  <2> HIDE DEF t
  <2>4. pos_map' \in [Id -> Leaf] /\ issued_accesses' = issued_accesses + 0
    BY <1>2, <1>4, <2>2
  <2> QED BY <1>4, <1>9, <2>2, <2>3, <2>4
<1>11. CASE dummy_write_fails
  <2>1. /\ UNCHANGED <<meta, payload, stash, pos_map, issued_accesses, completed_evictions>>
        /\ faults' = faults + 1
    BY <1>11, DummyWriteFails
  <2> QED BY <1>1, <2>1 DEF FaultTypes, StateTypes
<1>12. ASSUME NEW n \in 1 .. MaxBatch, NEW ids \in [1 .. n -> Id],
              NEW updates \in [1 .. n -> Update], access_batch_write_fails(ids, updates)
       PROVE  FaultTypes'
  <2>1. n \in Nat /\ Len(ids) = n BY BatchAssumption, ListLen
  <2>2. PICK new_leaves \in [1 .. n -> Leaf] :
          LET r == BatchRun(ids, updates, new_leaves)[Len(ids)]
          IN /\ r.reply.result = "ok"
             /\ Vouched(r.w)
             /\ pos_map' = BatchLabels(ids, new_leaves)
    BY <1>12, <2>1, BatchWriteFails
  <2> DEFINE r == BatchRun(ids, updates, new_leaves)[Len(ids)]
  <2>3. r.w \in WorkingSet
    <3>1. \A k \in 0 .. n : BatchRun(ids, updates, new_leaves)[k] \in BatchResult
      BY <1>2, <2>1, BatchRunDef
    <3>2. n \in 0 .. n BY <2>1
    <3>3. r \in BatchResult BY <2>1, <3>1, <3>2
    <3> QED BY <3>3 DEF BatchResult
  <2>4. pos_map' \in [Id -> Leaf]
    <3>1. BatchLabels(ids, new_leaves) \in [Id -> Leaf]
      <4>1. n \in 0 .. n BY <2>1
      <4>2. LabelsAt(ids, new_leaves, n) = BatchLabels(ids, new_leaves)
        BY <1>2, <2>1, LabelsAtType
      <4>3. LabelsAt(ids, new_leaves, n) \in [Id -> Leaf]
        BY <1>2, <2>1, <4>1, LabelsAtType
      <4> QED BY <4>2, <4>3
    <3> QED BY <2>2, <3>1
  <2>5. Vouched(r.w) BY <2>2
  <2> HIDE DEF r
  <2>6. /\ issued_accesses' = issued_accesses + n
        /\ completed_evictions' = completed_evictions /\ faults' = faults + 1
    BY <1>12, <2>1, BatchWriteFails
  <2> QED BY <1>9, <2>1, <2>3, <2>4, <2>5, <2>6
<1>13. ASSUME NEW budget \in 1 .. MaxBudget, drain_write_fails(budget) PROVE FaultTypes'
  <2> DEFINE w == DrainResult(budget).w
  <2>1. budget \in 0 .. MaxBudget BY CircuitAssumption
  <2>2. w \in WorkingSet BY <1>1, <2>1, DrainResultType
  <2>3. /\ Vouched(w)
        /\ UNCHANGED <<pos_map, issued_accesses, completed_evictions, mem>>
        /\ faults' = faults + 1
    BY <1>13, DrainWriteFails
  <2> HIDE DEF w
  <2>4. pos_map' \in [Id -> Leaf] /\ issued_accesses' = issued_accesses + 0
    BY <1>2, <1>4, <2>3
  <2> QED BY <1>4, <1>9, <2>2, <2>3, <2>4
<1>14. CASE UNCHANGED fvars
  BY <1>1, <1>14 DEF fvars, vars, FaultTypes, StateTypes
<1> QED BY <1>5, <1>6, <1>7, <1>8, <1>10, <1>11, <1>12, <1>13, <1>14 DEF FaultsNext, Served

\* The types hold in every state.
LEMMA FaultTypesHold == FaultsSpec => []FaultTypes
<1>1. FaultsInit => FaultTypes BY TypeInit DEF FaultsInit, FaultTypes, TypeOK, StateTypes
<1> QED BY <1>1, FaultTypesStep, PTL DEF FaultsSpec

-----------------------------------------------------------------------------
(* Blocks stay reachable after failed writes.                              *)

\* Blocks stay reachable in what the stores vouch for: whether the payload pages
\* are written plays no part.
LEMMA VouchedBlocks ==
  ASSUME NEW w, OneCopyIn(w), OnLabelledPathIn(w, pos_map'), meta' = w.meta, stash' = w.stash
  PROVE  (OneCopy /\ OnLabelledPath)'
<1> DEFINE m == MetaWritten(w, payload')
<1>1. m = [meta |-> meta', payload |-> payload', stash |-> stash'] BY DEF MetaWritten
<1>2. SameMeta(w, m)
  <2>1. PICK old : old = payload' OBVIOUS
  <2>2. SameMeta(w, MetaWritten(w, old)) BY MetaWrittenSameMeta
  <2> QED BY <2>1, <2>2
<1> HIDE DEF m
<1>3. OneCopyIn(m) /\ OnLabelledPathIn(m, pos_map')
  <2>1. PICK v : v = m OBVIOUS
  <2>2. PICK labels : labels = pos_map' OBVIOUS
  <2>3. SameMeta(w, v) BY <1>2, <2>1
  <2>4. OneCopyIn(v) /\ OnLabelledPathIn(v, labels) BY <2>2, <2>3, SameMetaSameCopies
  <2> QED BY <2>1, <2>2, <2>4
<1> QED BY <1>1, <1>3, WorkingPrimed

\* The contents are those of the call, if it has only taken blocks out of the
\* tree: an old payload page still holds every block that stayed.
LEMMA VouchedContents ==
  ASSUME Working \in WorkingSet, NEW w \in WorkingSet, OneCopyIn(w), OnlyRemoves(Working, w),
         Vouched(w)
  PROVE  Contents' = ContentsIn(w)
<1>1. CASE payload' = w.payload
  BY <1>1, ContentsOf DEF Vouched
<1>2. CASE payload' = payload
  <2> DEFINE m == MetaWritten(w, Working.payload)
  <2>1. SameBlocks(w, m) BY MetaWrittenSameBlocks
  <2>2. m = [meta |-> meta', payload |-> payload', stash |-> stash']
    BY <1>2 DEF MetaWritten, Vouched, Working
  <2> HIDE DEF m
  <2>3. ContentsIn(m) = ContentsIn(w) BY <2>1, SameBlocksSameContents
  <2> QED BY <2>2, <2>3, ContentsNow
<1> QED BY <1>1, <1>2 DEF Vouched

\* The inductive invariant of the controller whose writes may fail.
FaultsInv == BatchesFit /\ FaultTypes /\ OneCopy /\ OnLabelledPath

\* It contains the invariant of the controller whose writes do not fail.
LEMMA FaultsInvIs ==
  ASSUME FaultsInv
  PROVE  /\ BlockInvariant /\ StateTypes /\ BatchesFit /\ OneCopy /\ OnLabelledPath
         /\ Working \in WorkingSet /\ pos_map \in [Id -> Leaf]
         /\ OneCopyIn(Working) /\ OnLabelledPathIn(Working, pos_map)
         /\ Contents \in [Id -> Content]
<1>1. BlockInvariant /\ StateTypes /\ BatchesFit /\ OneCopy /\ OnLabelledPath
  BY DEF FaultsInv, FaultTypes, BlockInvariant
<1>2. Working \in WorkingSet /\ pos_map \in [Id -> Leaf] BY <1>1, WorkingType DEF StateTypes
<1>3. OneCopyIn(Working) /\ OnLabelledPathIn(Working, pos_map)
  BY <1>1 DEF OneCopy, OnLabelledPath
<1>4. Contents \in [Id -> Content] BY <1>2, <1>3, ContentsType, ContentsNow
<1> QED BY <1>1, <1>2, <1>3, <1>4

\* A failing access keeps blocks and contents.
LEMMA AccessFailKeeps ==
  ASSUME FaultsInv, NEW id \in Id, access_write_fails(id)
  PROVE  (OneCopy /\ OnLabelledPath)' /\ Contents' = Contents
<1> DEFINE t == TakeTarget(Working, pos_map[id], id)
<1>1. /\ Working \in WorkingSet /\ pos_map \in [Id -> Leaf]
      /\ OneCopyIn(Working) /\ OnLabelledPathIn(Working, pos_map)
  BY FaultsInvIs
<1>2. pos_map[id] \in Leaf BY <1>1
<1>3. ~TakeOverflows(Working, pos_map[id], id) /\ Vouched(t) /\ pos_map' = pos_map
  BY AccessWriteFails
<1>4. t \in WorkingSet BY <1>1, <1>2, <1>3, TakeTargetType
<1>5. SameBlocks(Working, t) /\ OnLabelledPathIn(t, pos_map)
  BY <1>1, <1>3, TargetReachesStash
<1>6. OnlyRemoves(Working, t) BY <1>1, <1>2, <1>3, TakeTargetOnlyRemoves
<1> HIDE DEF t
<1>7. OneCopyIn(t) BY <1>5, SameBlocksKeepOneCopy
<1>8. (OneCopy /\ OnLabelledPath)'
  <2>1. meta' = t.meta /\ stash' = t.stash BY <1>3 DEF Vouched
  <2>2. OnLabelledPathIn(t, pos_map') BY <1>3, <1>5
  <2> QED BY <1>7, <2>1, <2>2, VouchedBlocks
<1>9. Contents' = ContentsIn(t) BY <1>1, <1>3, <1>4, <1>6, <1>7, VouchedContents
<1> QED BY <1>5, <1>8, <1>9, SameBlocksSameContents, ContentsNow

\* A failing batch keeps blocks and leaves the contents its accesses make.
LEMMA BatchFailKeeps ==
  ASSUME FaultsInv, NEW n \in 0 .. MaxBatch, NEW ids \in [1 .. n -> Id],
         NEW updates \in [1 .. n -> Update], access_batch_write_fails(ids, updates)
  PROVE  (OneCopy /\ OnLabelledPath)' /\ Contents' = After(ids, updates)[n]
<1>1. /\ Working \in WorkingSet /\ pos_map \in [Id -> Leaf]
      /\ BatchesFit /\ OneCopy /\ OnLabelledPath
  BY FaultsInvIs
<1>2. n \in Nat /\ Len(ids) = n BY BatchAssumption, ListLen
<1>3. PICK new_leaves \in [1 .. n -> Leaf] :
        LET r == BatchRun(ids, updates, new_leaves)[Len(ids)]
        IN /\ r.reply.result = "ok"
           /\ Vouched(r.w)
           /\ pos_map' = BatchLabels(ids, new_leaves)
  BY <1>2, BatchWriteFails
<1> DEFINE r == BatchRun(ids, updates, new_leaves)[Len(ids)]
<1>4. r.reply.result = "ok" /\ Vouched(r.w) /\ pos_map' = BatchLabels(ids, new_leaves)
  BY <1>3
<1>5. \/ BatchState(ids, updates, new_leaves, n, r)
      \/ n = 1 /\ r.done = 0 /\ r.reply = Err("StashOverflow") /\ r.w = Working
  BY <1>1, BatchKeepsBlocks
<1> HIDE DEF r
<1>6. BatchState(ids, updates, new_leaves, n, r)
  <2>1. r.reply # Err("StashOverflow") BY <1>4 DEF Err
  <2> QED BY <1>5, <2>1
<1>7. /\ r.w \in WorkingSet /\ OneCopyIn(r.w)
      /\ OnLabelledPathIn(r.w, LabelsAt(ids, new_leaves, n))
      /\ ContentsIn(r.w) = After(ids, updates)[n] /\ OnlyRemoves(Working, r.w)
  BY <1>6 DEF BatchState
<1>8. LabelsAt(ids, new_leaves, n) = BatchLabels(ids, new_leaves)
  BY <1>1, <1>2, LabelsAtType
<1>9. (OneCopy /\ OnLabelledPath)'
  <2>1. PICK w : w = r.w OBVIOUS
  <2>2. meta' = w.meta /\ stash' = w.stash BY <1>4, <2>1 DEF Vouched
  <2>3. OneCopyIn(w) /\ OnLabelledPathIn(w, pos_map') BY <1>4, <1>7, <1>8, <2>1
  <2> QED BY <2>2, <2>3, VouchedBlocks
<1>10. Contents' = ContentsIn(r.w) BY <1>1, <1>4, <1>7, VouchedContents
<1> QED BY <1>7, <1>9, <1>10

\* A failing drain keeps blocks, and contents unless the metadata pages are
\* written without the payload pages.
LEMMA DrainFailKeeps ==
  ASSUME FaultsInv, NEW budget \in 1 .. MaxBudget, drain_write_fails(budget)
  PROVE  /\ (OneCopy /\ OnLabelledPath)'
         /\ ~DrainMetaFaults => Contents' = Contents
<1> DEFINE w == DrainResult(budget).w
<1>1. /\ Working \in WorkingSet /\ pos_map \in [Id -> Leaf] /\ StateTypes
      /\ OneCopyIn(Working) /\ OnLabelledPathIn(Working, pos_map)
  BY FaultsInvIs
<1>2. budget \in 0 .. MaxBudget BY CircuitAssumption
<1>3. completed_evictions \in Nat /\ ToDrain(budget) \in Nat BY <1>1, <1>2, ToDrainType
<1>4. w \in WorkingSet /\ SameBlocks(Working, w) /\ OnLabelledPathIn(w, pos_map)
  BY <1>1, <1>3, DrainKeepsBlocks DEF DrainResult
<1>5. Vouched(w) /\ pos_map' = pos_map /\ (~DrainMetaFaults => payload' = w.payload)
  BY DrainWriteFails
<1> HIDE DEF w
<1>6. OneCopyIn(w) BY <1>4, SameBlocksKeepOneCopy
<1>7. (OneCopy /\ OnLabelledPath)'
  <2>1. meta' = w.meta /\ stash' = w.stash BY <1>5 DEF Vouched
  <2>2. OnLabelledPathIn(w, pos_map') BY <1>4, <1>5
  <2> QED BY <1>6, <2>1, <2>2, VouchedBlocks
<1>8. ASSUME ~DrainMetaFaults PROVE Contents' = Contents
  <2>1. Contents' = ContentsIn(w) BY <1>4, <1>5, <1>8, ContentsOf DEF Vouched
  <2> QED BY <1>4, <2>1, SameBlocksSameContents, ContentsNow
<1> QED BY <1>7, <1>8

\* A batch on pages that verify is answered as the array answers, or is one
\* access that finds the stash full and changes nothing.
LEMMA BatchEffect ==
  ASSUME FaultsInv, NEW n \in 0 .. MaxBatch, NEW ids \in [1 .. n -> Id],
         NEW updates \in [1 .. n -> Update], access_batch_served(ids, updates)
  PROVE  /\ (OneCopy /\ OnLabelledPath)'
         /\ request' = [k \in 1 .. n |-> <<ids[k], updates[k]>>]
         /\ \/ /\ reply' = Ok(Answers(ids, updates, n))
               /\ Contents' = After(ids, updates)[n]
            \/ /\ reply' = Err("StashOverflow")
               /\ Contents' = Contents
<1>1. /\ Working \in WorkingSet /\ pos_map \in [Id -> Leaf]
      /\ BatchesFit /\ OneCopy /\ OnLabelledPath /\ BlockInvariant
      /\ OneCopyIn(Working) /\ OnLabelledPathIn(Working, pos_map)
  BY FaultsInvIs
<1>2. n \in Nat /\ Len(ids) = n BY BatchAssumption, ListLen
<1>3. PICK new_leaves \in [1 .. n -> Leaf] : AccessBatch(ids, updates, new_leaves)
  BY <1>2 DEF access_batch_served
<1> DEFINE r == BatchRun(ids, updates, new_leaves)[Len(ids)]
<1>4. /\ request' = [k \in 1 .. n |-> <<ids[k], updates[k]>>]
      /\ reply' = r.reply
      /\ stash' = r.w.stash
      /\ IF r.reply.result = "ok"
         THEN /\ pos_map' = BatchLabels(ids, new_leaves)
              /\ meta' = r.w.meta
              /\ payload' = r.w.payload
         ELSE pos_map' = pos_map /\ meta' = meta /\ payload' = payload
  BY <1>2, <1>3 DEF AccessBatch
<1>5. \/ BatchState(ids, updates, new_leaves, n, r)
      \/ n = 1 /\ r.done = 0 /\ r.reply = Err("StashOverflow") /\ r.w = Working
  BY <1>1, BatchKeepsBlocks
<1> HIDE DEF r
<1>6. CASE BatchState(ids, updates, new_leaves, n, r)
  <2>1. /\ r.w \in WorkingSet /\ OneCopyIn(r.w)
        /\ OnLabelledPathIn(r.w, LabelsAt(ids, new_leaves, n))
        /\ ContentsIn(r.w) = After(ids, updates)[n]
        /\ r.reply = Ok(Answers(ids, updates, n))
    BY <1>6 DEF BatchState
  <2>2. r.reply.result = "ok" BY <2>1 DEF Ok
  <2>3. /\ pos_map' = BatchLabels(ids, new_leaves)
        /\ meta' = r.w.meta /\ payload' = r.w.payload
    BY <1>4, <2>2
  <2>4. LabelsAt(ids, new_leaves, n) = BatchLabels(ids, new_leaves)
    BY <1>1, <1>2, LabelsAtType
  <2>5. (OneCopy /\ OnLabelledPath)'
    <3>1. PICK w : w = r.w OBVIOUS
    <3>2. meta' = w.meta /\ stash' = w.stash BY <1>4, <2>3, <3>1
    <3>3. OneCopyIn(w) /\ OnLabelledPathIn(w, pos_map') BY <2>1, <2>3, <2>4, <3>1
    <3> QED BY <3>2, <3>3, VouchedBlocks
  <2>6. Contents' = ContentsIn(r.w) BY <1>4, <2>1, <2>3, ContentsOf
  <2> QED BY <1>4, <2>1, <2>5, <2>6
<1>7. CASE r.reply = Err("StashOverflow") /\ r.w = Working
  <2>1. r.reply.result # "ok" BY <1>7 DEF Err
  <2>2. pos_map' = pos_map /\ meta' = meta /\ payload' = payload BY <1>4, <2>1
  <2>3. stash' = stash BY <1>4, <1>7 DEF Working
  <2>4. Contents' = Contents BY <1>1, <2>2, <2>3, ContentsKept
  <2>5. (OneCopy /\ OnLabelledPath)'
    <3>1. meta' = Working.meta /\ stash' = Working.stash BY <2>2, <2>3 DEF Working
    <3>2. OnLabelledPathIn(Working, pos_map') BY <1>1, <2>2
    <3>3. PICK w : w = Working OBVIOUS
    <3>4. meta' = w.meta /\ stash' = w.stash /\ OneCopyIn(w) /\ OnLabelledPathIn(w, pos_map')
      BY <1>1, <3>1, <3>2, <3>3
    <3> QED BY <3>4, VouchedBlocks
  <2> QED BY <1>4, <1>7, <2>4, <2>5
<1> QED BY <1>5, <1>6, <1>7

\* Every call keeps one copy of each block on its labelled path.
LEMMA FaultBlocksStep == FaultsInv /\ [FaultsNext]_fvars => (OneCopy /\ OnLabelledPath)'
<1> SUFFICES ASSUME FaultsInv, [FaultsNext]_fvars PROVE (OneCopy /\ OnLabelledPath)'
  OBVIOUS
<1>1. BlockInvariant BY FaultsInvIs
<1>2. ASSUME UNCHANGED <<meta, payload, stash, pos_map>> PROVE (OneCopy /\ OnLabelledPath)'
  BY <1>1, <1>2 DEF BlockInvariant, OneCopy, OnLabelledPath, Working
<1>3. CASE Served BY <1>1, <1>3, ServedIsNext, BlocksStep
<1>4. ASSUME NEW n \in 0 .. MaxBatch, NEW ids \in [1 .. n -> Id],
             NEW updates \in [1 .. n -> Update], access_batch_served(ids, updates)
      PROVE  (OneCopy /\ OnLabelledPath)'
  BY <1>4, BatchEffect
<1>5. ASSUME NEW count \in 0 .. MaxBatch, dummy_batch_served(count)
      PROVE  (OneCopy /\ OnLabelledPath)'
  BY <1>2, <1>5 DEF dummy_batch_served, dummy_access_batch
<1>6. CASE read_refused BY <1>2, <1>6 DEF read_refused
<1>7. ASSUME NEW id \in Id, access_write_fails(id) PROVE (OneCopy /\ OnLabelledPath)'
  BY <1>7, AccessFailKeeps
<1>8. CASE dummy_write_fails BY <1>2, <1>8, DummyWriteFails
<1>9. ASSUME NEW n \in 1 .. MaxBatch, NEW ids \in [1 .. n -> Id],
             NEW updates \in [1 .. n -> Update], access_batch_write_fails(ids, updates)
      PROVE  (OneCopy /\ OnLabelledPath)'
  <2>1. n \in 0 .. MaxBatch BY BatchAssumption
  <2> QED BY <1>9, <2>1, BatchFailKeeps
<1>10. ASSUME NEW budget \in 1 .. MaxBudget, drain_write_fails(budget)
       PROVE  (OneCopy /\ OnLabelledPath)'
  BY <1>10, DrainFailKeeps
<1>11. CASE UNCHANGED fvars BY <1>2, <1>11 DEF fvars, vars
<1> QED BY <1>3, <1>4, <1>5, <1>6, <1>7, <1>8, <1>9, <1>10, <1>11 DEF FaultsNext, Served

\* FaultsInv is inductive.
LEMMA FaultsInvHolds == BatchesFit /\ FaultsSpec => []FaultsInv
<1>1. BatchesFit /\ FaultsInit /\ FaultTypes => FaultsInv
  BY BlocksInit DEF FaultsInit, FaultsInv
<1>2. FaultsInv /\ FaultTypes' /\ [FaultsNext]_fvars => FaultsInv'
  <2>1. BatchesFit => BatchesFit' BY DEF BatchesFit
  <2> QED BY <2>1, FaultBlocksStep DEF FaultsInv
<1> QED BY <1>1, <1>2, FaultTypesHold, PTL DEF FaultsSpec

\* After any failed writes, of metadata or payload pages, by an access, a dummy
\* access, a batch or a drain, every block still has one copy in what the two
\* roots vouch for, on the path to its label: no failed write makes a block
\* unreachable for good.  For every tree, stash, rate and batch length for which
\* a batch cannot fail half way.
THEOREM FailedWritesKeepBlocks == BatchesFit /\ FaultsSpec => []ReachableUnlessRefused
<1>1. FaultsInv => ReachableUnlessRefused BY DEF FaultsInv, ReachableUnlessRefused
<1> QED BY <1>1, FaultsInvHolds, PTL

-----------------------------------------------------------------------------
(* Failing closed.                                                         *)

\* The caller's knowledge covers what the stores vouch for.
Known == \A id \in Id : Contents[id] \in mem[id]

\* The last call was answered as FailsClosed asks.
FoundAsLeft ==
  /\ reply'.result # "BlockNotFound"
  /\ \A j \in DOMAIN reply'.out :
       LET before == {i \in 1 .. j - 1 : request'[i][1] = request'[j][1]}
       IN IF before = {} THEN reply'.out[j] \in mem[request'[j][1]]
          ELSE reply'.out[j] = Apply(request'[Last(before)][2], reply'.out[Last(before)])

\* Calls that do not touch a block say nothing of it.
LEMMA LearnNothing ==
  ASSUME NEW calls, NEW out, NEW id \in Id, {j \in DOMAIN out : calls[j][1] = id} = {}
  PROVE  Learn(calls, out)[id] = mem[id]
  BY DEF Learn

\* The last use of a block tells what it holds.
LEMMA LearnLast ==
  ASSUME NEW calls, NEW out, NEW id \in Id,
         {j \in DOMAIN out : calls[j][1] = id} # {}
  PROVE  LET l == Last({j \in DOMAIN out : calls[j][1] = id})
         IN Learn(calls, out)[id] = {Apply(calls[l][2], out[l])}
  BY DEF Learn

\* What may be left in a block after a batch that failed.
LEMMA MayHoldIs ==
  ASSUME NEW n \in Nat, NEW ids \in [1 .. n -> Id], NEW updates \in [1 .. n -> Update],
         NEW id \in Id, NEW c \in mem[id]
  PROVE  /\ c \in MayHold(ids, updates)[id]
         /\ \A j \in 1 .. n : ids[j] = id => Apply(updates[j], c) \in MayHold(ids, updates)[id]
<1>1. Len(ids) = n BY ListLen
<1>2. MayHold(ids, updates)[id] = mem[id] \cup
        {Apply(updates[j], p) : j \in {i \in 1 .. n : ids[i] = id}, p \in mem[id]}
  BY <1>1 DEF MayHold
<1> QED BY <1>2

\* An empty answer is found as left.
LEMMA NothingFound ==
  ASSUME reply'.out = <<>>, reply'.result # "BlockNotFound" PROVE FoundAsLeft
<1>1. DOMAIN reply'.out = {} OBVIOUS
<1> QED BY <1>1 DEF FoundAsLeft

\* The access case.
LEMMA AccessFound ==
  ASSUME FaultsInv, Known, NEW id \in Id, NEW update \in Update, access_served(id, update)
  PROVE  FoundAsLeft /\ Known'
<1>1. BlockInvariant /\ Contents \in [Id -> Content] BY FaultsInvIs
<1>2. access(id, update) /\ mem' = Learn(request', reply'.out) BY DEF access_served
<1>3. request' = <<<<id, update>>>> BY <1>2 DEF access
<1>4. CASE reply' = Err("StashOverflow") /\ Contents' = Contents
  <2>1. reply'.out = <<>> /\ reply'.result # "BlockNotFound" BY <1>4 DEF Err
  <2>2. ASSUME NEW j \in Id PROVE mem'[j] = mem[j]
    <3>1. PICK calls, out : calls = request' /\ out = reply'.out OBVIOUS
    <3>2. {i \in DOMAIN out : calls[i][1] = j} = {} BY <2>1, <3>1
    <3>3. Learn(calls, out)[j] = mem[j] BY <3>2, LearnNothing
    <3> QED BY <1>2, <3>1, <3>3
  <2>3. Known' BY <1>4, <2>2 DEF Known
  <2> QED BY <2>1, <2>3, NothingFound
<1>5. CASE /\ reply' = Ok(<<Contents[id]>>)
           /\ Contents' = [Contents EXCEPT ![id] = Apply(update, Contents[id])]
  <2>1. reply'.out = <<Contents[id]>> /\ reply'.result = "ok" BY <1>5 DEF Ok
  <2>2. DOMAIN reply'.out = {1} /\ reply'.out[1] = Contents[id] BY <2>1
  <2>3. request'[1][1] = id /\ request'[1][2] = update BY <1>3
  <2>4. FoundAsLeft
    <3>1. Contents[id] \in mem[id] BY DEF Known
    <3>2. \A i \in 1 .. 1 - 1 : FALSE OBVIOUS
    <3>3. {i \in 1 .. 1 - 1 : request'[i][1] = request'[1][1]} = {} BY <3>2
    <3>4. reply'.result # "BlockNotFound" BY <2>1
    <3> QED BY <2>2, <2>3, <3>1, <3>3, <3>4 DEF FoundAsLeft
  <2>5. ASSUME NEW j \in Id PROVE Contents'[j] \in mem'[j]
    <3>1. PICK calls, out : calls = request' /\ out = reply'.out OBVIOUS
    <3>2. mem'[j] = Learn(calls, out)[j] BY <1>2, <3>1
    <3>3. CASE j = id
      <4>1. {i \in DOMAIN out : calls[i][1] = j} = {1} BY <2>2, <2>3, <3>1, <3>3
      <4>2. Last({1}) = 1 BY DEF Last
      <4>3. Learn(calls, out)[j] = {Apply(calls[Last({1})][2], out[Last({1})])}
        <5> DEFINE U == {i \in DOMAIN out : calls[i][1] = j}
        <5>1. U # {} => Learn(calls, out)[j] = {Apply(calls[Last(U)][2], out[Last(U)])}
          BY LearnLast
        <5> QED BY <4>1, <5>1
      <4>4. Learn(calls, out)[j] = {Apply(update, Contents[id])}
        BY <2>2, <2>3, <3>1, <4>2, <4>3
      <4>5. Contents'[j] = Apply(update, Contents[id]) BY <1>1, <1>5, <3>3
      <4> QED BY <3>2, <4>4, <4>5
    <3>4. CASE j # id
      <4>1. {i \in DOMAIN out : calls[i][1] = j} = {} BY <2>2, <2>3, <3>1, <3>4
      <4>2. Learn(calls, out)[j] = mem[j] BY <4>1, LearnNothing
      <4>3. Contents'[j] = Contents[j] BY <1>1, <1>5, <3>4
      <4> QED BY <3>2, <4>2, <4>3 DEF Known
    <3> QED BY <3>3, <3>4
  <2>6. Known' BY <2>5 DEF Known
  <2> QED BY <2>4, <2>6
<1> QED BY <1>1, <1>2, <1>4, <1>5, AccessEffect

\* The batch case: a repeated block is found as its previous access left it.
LEMMA BatchFound ==
  ASSUME FaultsInv, Known, NEW n \in 0 .. MaxBatch, NEW ids \in [1 .. n -> Id],
         NEW updates \in [1 .. n -> Update], access_batch_served(ids, updates)
  PROVE  FoundAsLeft /\ Known'
<1> DEFINE A == After(ids, updates)
<1>1. n \in Nat /\ Len(ids) = n BY BatchAssumption, ListLen
<1>2. Contents \in [Id -> Content] BY FaultsInvIs
<1>3. request' = [k \in 1 .. n |-> <<ids[k], updates[k]>>] BY BatchEffect
<1>4. mem' = IF reply'.result = "ok" THEN Learn(request', reply'.out) ELSE MayHold(ids, updates)
  BY DEF access_batch_served
<1>5. ASSUME NEW j \in 1 .. n PROVE request'[j][1] = ids[j] /\ request'[j][2] = updates[j]
  BY <1>3
<1>6. ASSUME NEW id \in Id, NEW k \in 0 .. n
      PROVE  A[k][id] = IF Uses(ids, id, k) = {} THEN Contents[id]
                        ELSE Apply(updates[Last(Uses(ids, id, k))],
                                   A[Last(Uses(ids, id, k)) - 1][id])
  BY <1>1, <1>2, AfterLastUse
<1> HIDE DEF A
<1>7. CASE reply' = Ok(Answers(ids, updates, n)) /\ Contents' = A[n]
  <2>1. reply'.result = "ok" /\ reply'.out = Answers(ids, updates, n) BY <1>7 DEF Ok
  <2>2. DOMAIN reply'.out = 1 .. n BY <2>1 DEF Answers
  <2>3. ASSUME NEW j \in 1 .. n PROVE reply'.out[j] = A[j - 1][ids[j]]
    BY <2>1 DEF Answers, A
  <2>4. ASSUME NEW j \in 1 .. n
        PROVE  LET before == {i \in 1 .. j - 1 : request'[i][1] = request'[j][1]}
               IN IF before = {} THEN reply'.out[j] \in mem[request'[j][1]]
                  ELSE reply'.out[j] = Apply(request'[Last(before)][2], reply'.out[Last(before)])
    <3> DEFINE B == {i \in 1 .. j - 1 : request'[i][1] = request'[j][1]}
    <3>1. ids[j] \in Id /\ j - 1 \in 0 .. n OBVIOUS
    <3>2. B = Uses(ids, ids[j], j - 1)
      <4>1. \A i \in 1 .. j - 1 : i \in 1 .. n OBVIOUS
      <4>2. \A i \in 1 .. j - 1 : request'[i][1] = request'[j][1] <=> ids[i] = ids[j]
        BY <1>5, <4>1
      <4> QED BY <4>2 DEF Uses
    <3> HIDE DEF B
    <3>3. CASE B = {}
      <4>1. A[j - 1][ids[j]] = Contents[ids[j]] BY <1>6, <3>1, <3>2, <3>3
      <4>2. reply'.out[j] \in mem[request'[j][1]] BY <1>5, <2>3, <3>1, <4>1 DEF Known
      <4> QED BY <3>3, <4>2 DEF B
    <3>4. CASE B # {}
      <4> DEFINE l == Last(B)
      <4>1. l \in 1 .. j - 1 /\ ids[l] = ids[j] BY <1>1, <3>1, <3>2, <3>4, LastUse
      <4>2. l \in 1 .. n BY <4>1
      <4>3. A[j - 1][ids[j]] = Apply(updates[l], A[l - 1][ids[j]])
        BY <1>6, <3>1, <3>2, <3>4
      <4> HIDE DEF l
      <4>4. reply'.out[j] = Apply(request'[l][2], reply'.out[l])
        BY <1>5, <2>3, <4>1, <4>2, <4>3
      <4> QED BY <3>4, <4>4 DEF B, l
    <3> QED BY <3>3, <3>4
  <2>5. FoundAsLeft
    <3>1. reply'.result # "BlockNotFound" BY <2>1
    <3> QED BY <2>2, <2>4, <3>1 DEF FoundAsLeft
  <2>6. ASSUME NEW id \in Id PROVE Contents'[id] \in mem'[id]
    <3> DEFINE U == Uses(ids, id, n)
    <3>1. n \in 0 .. n BY <1>1
    <3>2. PICK calls, out : calls = request' /\ out = reply'.out OBVIOUS
    <3>3. mem'[id] = Learn(calls, out)[id] BY <1>4, <2>1, <3>2
    <3>4. U = {j \in DOMAIN out : calls[j][1] = id} BY <1>5, <2>2, <3>2 DEF Uses
    <3>5. A[n][id] = IF U = {} THEN Contents[id] ELSE Apply(updates[Last(U)], A[Last(U) - 1][id])
      BY <1>6, <3>1
    <3>6. U # {} => Last(U) \in 1 .. n /\ ids[Last(U)] = id BY <1>1, <3>1, LastUse
    <3> HIDE DEF U
    <3>7. mem'[id] = IF U = {} THEN mem[id] ELSE {Apply(calls[Last(U)][2], out[Last(U)])}
      <4> DEFINE V == {j \in DOMAIN out : calls[j][1] = id}
      <4>1. V = {} => Learn(calls, out)[id] = mem[id] BY LearnNothing
      <4>2. V # {} => Learn(calls, out)[id] = {Apply(calls[Last(V)][2], out[Last(V)])}
        BY LearnLast
      <4> HIDE DEF V
      <4>3. U = V BY <3>4 DEF V
      <4> QED BY <3>3, <4>1, <4>2, <4>3
    <3>8. CASE U = {} BY <1>7, <3>5, <3>7, <3>8 DEF Known
    <3>9. CASE U # {}
      <4>1. calls[Last(U)][2] = updates[Last(U)] /\ out[Last(U)] = A[Last(U) - 1][id]
        BY <1>5, <2>3, <3>2, <3>6, <3>9
      <4> QED BY <1>7, <3>5, <3>7, <3>9, <4>1
    <3> QED BY <3>8, <3>9
  <2>7. Known' BY <2>6 DEF Known
  <2> QED BY <2>5, <2>7
<1>8. CASE reply' = Err("StashOverflow") /\ Contents' = Contents
  <2>1. reply'.out = <<>> /\ reply'.result = "StashOverflow" BY <1>8 DEF Err
  <2>2. mem' = MayHold(ids, updates) BY <1>4, <2>1
  <2>3. ASSUME NEW id \in Id PROVE Contents'[id] \in mem'[id]
    <3>1. Contents[id] \in mem[id] BY DEF Known
    <3>2. Contents[id] \in MayHold(ids, updates)[id] BY <1>1, <3>1, MayHoldIs
    <3> QED BY <1>8, <2>2, <3>2
  <2>4. Known' BY <2>3 DEF Known
  <2> QED BY <2>1, <2>4, NothingFound
<1> QED BY <1>7, <1>8, BatchEffect DEF A

\* Every call is answered from what the caller may know.
LEMMA FoundStep ==
  ASSUME FaultsInv, ~DrainMetaFaults, Known, FaultsNext
  PROVE  FoundAsLeft /\ Known'
<1>1. BlockInvariant BY FaultsInvIs
<1>2. ASSUME reply' \in {Ok(<<>>), Err("Storage")} PROVE FoundAsLeft
  <2>1. reply'.out = <<>> /\ reply'.result # "BlockNotFound" BY <1>2 DEF Ok, Err
  <2> QED BY <2>1, NothingFound
<1>3. ASSUME Contents' = Contents, mem' = mem PROVE Known' BY <1>3 DEF Known
<1>4. ASSUME UNCHANGED <<meta, payload, stash>> PROVE Contents' = Contents
  BY <1>1, <1>4, ContentsKept
<1>5. CASE dummy_served
  <2>1. UNCHANGED <<meta, payload, stash>> /\ mem' = mem /\ reply' = Ok(<<>>)
    BY <1>5 DEF dummy_served, dummy_access
  <2> QED BY <1>2, <1>3, <1>4, <2>1
<1>6. ASSUME NEW count \in 0 .. MaxBatch, dummy_batch_served(count) PROVE FoundAsLeft /\ Known'
  <2>1. UNCHANGED <<meta, payload, stash>> /\ mem' = mem /\ reply' = Ok(<<>>)
    BY <1>6 DEF dummy_batch_served, dummy_access_batch
  <2> QED BY <1>2, <1>3, <1>4, <2>1
<1>7. ASSUME NEW budget \in 1 .. MaxBudget, drain_served(budget) PROVE FoundAsLeft /\ Known'
  <2>1. drain_evictions(budget) /\ mem' = mem BY <1>7 DEF drain_served
  <2>2. budget \in 0 .. MaxBudget BY CircuitAssumption
  <2>3. reply' = Ok(<<>>) /\ Contents' = Contents BY <1>1, <2>1, <2>2, DrainEffect
  <2> QED BY <1>2, <1>3, <2>1, <2>3
<1>8. CASE read_refused
  <2>1. UNCHANGED <<meta, payload, stash>> /\ mem' = mem /\ reply' = Err("Storage")
    BY <1>8 DEF read_refused
  <2> QED BY <1>2, <1>3, <1>4, <2>1
<1>9. ASSUME NEW id \in Id, access_write_fails(id) PROVE FoundAsLeft /\ Known'
  <2>1. Contents' = Contents BY <1>9, AccessFailKeeps
  <2>2. mem' = mem /\ reply' = Err("Storage") BY <1>9, AccessWriteFails
  <2> QED BY <1>2, <1>3, <2>1, <2>2
<1>10. CASE dummy_write_fails
  <2>1. UNCHANGED <<meta, payload, stash>> /\ mem' = mem /\ reply' = Err("Storage")
    BY <1>10, DummyWriteFails
  <2> QED BY <1>2, <1>3, <1>4, <2>1
<1>11. ASSUME NEW n \in 1 .. MaxBatch, NEW ids \in [1 .. n -> Id],
              NEW updates \in [1 .. n -> Update], access_batch_write_fails(ids, updates)
       PROVE  FoundAsLeft /\ Known'
  <2>1. n \in 0 .. MaxBatch /\ n \in Nat /\ n \in 0 .. n BY BatchAssumption
  <2>2. Contents' = After(ids, updates)[n] BY <1>11, <2>1, BatchFailKeeps
  <2>3. mem' = MayHold(ids, updates) /\ reply' = Err("Storage") BY <1>11, BatchWriteFails
  <2>4. ASSUME NEW id \in Id PROVE Contents'[id] \in mem'[id]
    <3>1. Contents[id] \in mem[id] BY DEF Known
    <3>2. Contents \in [Id -> Content] BY FaultsInvIs
    <3>3. \/ After(ids, updates)[n][id] = Contents[id]
          \/ \E j \in 1 .. n : /\ ids[j] = id
                               /\ After(ids, updates)[n][id] = Apply(updates[j], Contents[id])
      BY <2>1, <3>2, AfterIsUpdate
    <3>4. /\ Contents[id] \in MayHold(ids, updates)[id]
          /\ \A j \in 1 .. n : ids[j] = id =>
               Apply(updates[j], Contents[id]) \in MayHold(ids, updates)[id]
      BY <2>1, <3>1, MayHoldIs
    <3> QED BY <2>2, <2>3, <3>3, <3>4
  <2>5. Known' BY <2>4 DEF Known
  <2> QED BY <1>2, <2>3, <2>5
<1>12. ASSUME NEW budget \in 1 .. MaxBudget, drain_write_fails(budget)
       PROVE  FoundAsLeft /\ Known'
  <2>1. Contents' = Contents BY <1>12, DrainFailKeeps
  <2>2. mem' = mem /\ reply' = Err("Storage") BY <1>12, DrainWriteFails
  <2> QED BY <1>2, <1>3, <2>1, <2>2
<1> QED BY <1>5, <1>6, <1>7, <1>8, <1>9, <1>10, <1>11, <1>12, AccessFound, BatchFound
        DEF FaultsNext

\* After any failed page writes a call that is answered finds in every block what
\* the answers before it left there (or what a failed batch may have left), a
\* repeated block of a batch is found as its previous access left it, and no
\* caller is told that a block is missing: a page that was not written is refused
\* when it is read.  The metadata write of drain_evictions is left out: when it
\* fails, the evicted blocks have left the stash while their payload pages still
\* verify with the old contents, and the run faults_drain shows stale answers.
\* BatchesFit: a batch that overflows the stash half way loses writes without any
\* failed page (run batch_overflow).
THEOREM FailedWritesFailClosed == BatchesFit /\ ~DrainMetaFaults /\ FaultsSpec => FailsClosed
<1> DEFINE Inv == FaultsInv /\ ~DrainMetaFaults
<1>1. FaultsInit => Known BY DEF FaultsInit, Known
<1>2. Inv /\ Known /\ [FaultsNext]_fvars => Known'
  <2>1. CASE FaultsNext BY <2>1, FoundStep
  <2>2. UNCHANGED fvars => Contents' = Contents /\ mem' = mem
    BY DEF fvars, vars, Contents, Working
  <2>3. CASE UNCHANGED fvars BY <2>2, <2>3 DEF Known
  <2> QED BY <2>1, <2>3
<1>3. Inv /\ Known /\ [FaultsNext]_fvars =>
        [/\ reply'.result # "BlockNotFound"
         /\ \A j \in DOMAIN reply'.out :
              LET before == {i \in 1 .. j - 1 : request'[i][1] = request'[j][1]}
              IN IF before = {} THEN reply'.out[j] \in mem[request'[j][1]]
                 ELSE reply'.out[j] = Apply(request'[Last(before)][2],
                                            reply'.out[Last(before)])]_fvars
  BY FoundStep DEF FoundAsLeft
<1>4. ~DrainMetaFaults => []~DrainMetaFaults
  <2>1. ~DrainMetaFaults => (~DrainMetaFaults)' OBVIOUS
  <2> QED BY <2>1, PTL
<1> QED BY <1>1, <1>2, <1>3, <1>4, FaultsInvHolds, PTL DEF FaultsSpec, FailsClosed

-----------------------------------------------------------------------------
(* Batches implement the array with batches.                               *)

\* The two arrays agree on single accesses.
LEMMA ArrayStepIsBatchArrayStep ==
  /\ Array!ArrayNext => BatchArray!BatchArrayNext
  /\ Array!arrayVars = BatchArray!arrayVars
  /\ Array!arrayVars' = BatchArray!arrayVars'
  /\ Array!ArrayInit => BatchArray!ArrayInit
<1>1. ASSUME NEW id \in Id, NEW update \in Array!Update, Array!Access(id, update)
      PROVE  BatchArray!ArrayNext
  <2>1. update \in BatchArray!Update BY DEF Array!Update, BatchArray!Update
  <2>2. BatchArray!Access(id, update)
    BY <1>1 DEF Array!Access, BatchArray!Access, Array!Ok, BatchArray!Ok, Array!Apply,
                BatchArray!Apply
  <2> QED BY <2>1, <2>2 DEF BatchArray!ArrayNext
<1>2. ASSUME Array!Maintain PROVE BatchArray!ArrayNext
  <2>1. BatchArray!Maintain BY <1>2 DEF Array!Maintain, BatchArray!Maintain, Array!Ok, BatchArray!Ok
  <2> QED BY <2>1 DEF BatchArray!ArrayNext
<1>3. ASSUME Array!Refuse PROVE BatchArray!ArrayNext
  <2>1. request' \in Seq(Id \X BatchArray!Update)
    BY <1>3 DEF Array!Refuse, Array!Update, BatchArray!Update
  <2>2. reply' \in {BatchArray!Err("InvalidInput"), BatchArray!Err("StashOverflow")}
    BY <1>3 DEF Array!Refuse, Array!Err, BatchArray!Err
  <2>3. Contents' = Contents BY <1>3 DEF Array!Refuse
  <2>4. BatchArray!Refuse BY <2>1, <2>2, <2>3 DEF BatchArray!Refuse
  <2> QED BY <2>4 DEF BatchArray!ArrayNext
<1>4. Array!ArrayNext => BatchArray!BatchArrayNext
  BY <1>1, <1>2, <1>3 DEF Array!ArrayNext, BatchArray!BatchArrayNext
<1>5. Array!arrayVars = BatchArray!arrayVars BY DEF Array!arrayVars, BatchArray!arrayVars
<1>6. Array!arrayVars' = BatchArray!arrayVars' BY DEF Array!arrayVars, BatchArray!arrayVars
<1>7. Array!ArrayInit => BatchArray!ArrayInit
  BY DEF Array!ArrayInit, BatchArray!ArrayInit, Array!Ok, BatchArray!Ok
<1> QED BY <1>4, <1>5, <1>6, <1>7

\* Every call that goes through is one of the array with batches.
LEMMA BatchArrayStep ==
  ASSUME FaultsInv, [FaultsNext]_fvars, faults' = 0, reply'.result # "Storage"
  PROVE  [BatchArray!BatchArrayNext]_(BatchArray!arrayVars)
<1>1. BlockInvariant /\ faults \in Nat BY FaultsInvIs DEF FaultsInv, FaultTypes
<1>2. CASE Served
  <2>1. [Array!ArrayNext]_(Array!arrayVars) BY <1>1, <1>2, ServedIsNext, ArrayStepHolds
  <2> QED BY <2>1, ArrayStepIsBatchArrayStep
<1>3. ASSUME NEW n \in 0 .. MaxBatch, NEW ids \in [1 .. n -> Id],
             NEW updates \in [1 .. n -> Update], access_batch_served(ids, updates)
      PROVE  BatchArray!BatchArrayNext
  <2>1. n \in Nat /\ Len(ids) = n BY BatchAssumption, ListLen
  <2>2. updates \in [1 .. n -> BatchArray!Update] BY DEF Update, BatchArray!Update
  <2>3. request' = [k \in 1 .. n |-> <<ids[k], updates[k]>>] BY <1>3, BatchEffect
  <2>4. CASE reply' = Ok(Answers(ids, updates, n)) /\ Contents' = After(ids, updates)[n]
    <3>1. reply' = BatchArray!Ok([k \in 1 .. n |->
                                    BatchArray!AfterBatch(ids, updates)[k - 1][ids[k]]])
      BY <2>4 DEF Ok, BatchArray!Ok, Answers, After
    <3>2. Contents' = BatchArray!AfterBatch(ids, updates)[n] BY <2>4 DEF After
    <3>3. BatchArray!AccessBatch(ids, updates)
      BY <2>1, <2>3, <3>1, <3>2 DEF BatchArray!AccessBatch
    <3> QED BY <2>2, <3>3 DEF BatchArray!BatchArrayNext
  <2>5. CASE reply' = Err("StashOverflow") /\ Contents' = Contents
    <3>1. request' \in Seq(Id \X BatchArray!Update)
      <4>1. request' \in [1 .. n -> Id \X BatchArray!Update] BY <2>2, <2>3
      <4>2. PICK q : q = request' OBVIOUS
      <4>3. q \in [1 .. n -> Id \X BatchArray!Update] BY <4>1, <4>2
      <4>4. q \in Seq(Id \X BatchArray!Update) BY <2>1, <4>3, ListLen
      <4> QED BY <4>2, <4>4
    <3>2. reply' = BatchArray!Err("StashOverflow") BY <2>5 DEF Err, BatchArray!Err
    <3>3. BatchArray!Refuse BY <2>5, <3>1, <3>2 DEF BatchArray!Refuse
    <3> QED BY <3>3 DEF BatchArray!ArrayNext, BatchArray!BatchArrayNext
  <2> QED BY <1>3, <2>4, <2>5, BatchEffect
<1>4. ASSUME NEW count \in 0 .. MaxBatch, dummy_batch_served(count)
      PROVE  BatchArray!BatchArrayNext
  <2>1. UNCHANGED <<meta, payload, stash>> /\ request' = <<>> /\ reply' = Ok(<<>>)
    BY <1>4 DEF dummy_batch_served, dummy_access_batch
  <2>2. Contents' = Contents BY <1>1, <2>1, ContentsKept
  <2>3. BatchArray!Maintain BY <2>1, <2>2 DEF BatchArray!Maintain, Ok, BatchArray!Ok
  <2> QED BY <2>3 DEF BatchArray!ArrayNext, BatchArray!BatchArrayNext
<1>5. ASSUME reply' = Err("Storage") PROVE FALSE BY <1>5 DEF Err
<1>6. CASE UNCHANGED fvars
  <2>1. UNCHANGED <<meta, payload, stash>> /\ UNCHANGED <<request, reply>>
    BY <1>6 DEF fvars, vars
  <2>2. Contents' = Contents BY <1>1, <2>1, ContentsKept
  <2> QED BY <2>1, <2>2 DEF BatchArray!arrayVars
<1>7. ~read_refused BY <1>5 DEF read_refused
<1>8. ~dummy_write_fails BY <1>5, DummyWriteFails
<1>9. \A id \in Id : ~access_write_fails(id) BY <1>5, AccessWriteFails
<1>10. ASSUME NEW n \in 1 .. MaxBatch, NEW ids \in [1 .. n -> Id],
              NEW updates \in [1 .. n -> Update], access_batch_write_fails(ids, updates)
       PROVE  FALSE
  BY <1>5, <1>10, BatchWriteFails
<1>11. \A budget \in 1 .. MaxBudget : ~drain_write_fails(budget) BY <1>5, DrainWriteFails
<1> QED BY <1>2, <1>3, <1>4, <1>6, <1>7, <1>8, <1>9, <1>10, <1>11 DEF FaultsNext, Served

\* As long as no write fails and the pages can be read, access, access_batch,
\* dummy_access, dummy_access_batch and drain_evictions implement the array with
\* batches: every answer of a batch is what the accesses before it, in this batch
\* and in earlier calls, left in the block, and a refused call changes nothing.
\* For every tree, bucket size, eviction rate and batch length, whenever a batch
\* cannot overflow the stash half way (BatchesFit).
THEOREM BatchesImplementArray == BatchesFit /\ FaultsSpec => ImplementsBatchArray
<1>1. FaultsInit => BatchArray!ArrayInit
  BY ArrayInitHolds, ArrayStepIsBatchArrayStep DEF FaultsInit
<1>2. FaultsInv /\ [FaultsNext]_fvars =>
        [faults' = 0 /\ reply'.result # "Storage" =>
           [BatchArray!BatchArrayNext]_(BatchArray!arrayVars)]_fvars
  BY BatchArrayStep
<1> QED BY <1>1, <1>2, FaultsInvHolds, PTL DEF FaultsSpec, ImplementsBatchArray

-----------------------------------------------------------------------------
(* A batch is its accesses in sequence.                                    *)

\* The labels after every access of a batch.
LEMMA LabelsAtSteps ==
  ASSUME pos_map \in [Id -> Leaf], NEW n \in Nat, NEW ids \in [1 .. n -> Id],
         NEW new_leaves \in [1 .. n -> Leaf]
  PROVE  \A k \in 1 .. n : \A id \in Id :
           LabelsAt(ids, new_leaves, k)[id] =
             IF id = ids[k] THEN new_leaves[k] ELSE LabelsAt(ids, new_leaves, k - 1)[id]
<1> TAKE k \in 1 .. n
<1> QED BY LabelsAtStep

\* The labels after each of the first two accesses of a batch.
LEMMA TwoLabels ==
  ASSUME pos_map \in [Id -> Leaf], NEW n \in Nat, NEW ids \in [1 .. n -> Id],
         NEW new_leaves \in [1 .. n -> Leaf], 2 <= n
  PROVE  \A id \in Id :
           /\ LabelsAt(ids, new_leaves, 1)[id] =
                IF id = ids[1] THEN new_leaves[1] ELSE LabelsAt(ids, new_leaves, 0)[id]
           /\ LabelsAt(ids, new_leaves, 2)[id] =
                IF id = ids[2] THEN new_leaves[2] ELSE LabelsAt(ids, new_leaves, 1)[id]
<1>1. \A k \in 1 .. n : \A id \in Id :
         LabelsAt(ids, new_leaves, k)[id] =
           IF id = ids[k] THEN new_leaves[k] ELSE LabelsAt(ids, new_leaves, k - 1)[id]
  BY LabelsAtSteps
<1>2. 1 \in 1 .. n /\ 2 \in 1 .. n /\ 1 - 1 = 0 /\ 2 - 1 = 1 OBVIOUS
<1>3. \A id \in Id : LabelsAt(ids, new_leaves, 1)[id] =
         IF id = ids[1] THEN new_leaves[1] ELSE LabelsAt(ids, new_leaves, 1 - 1)[id]
  BY <1>1, <1>2
<1>4. \A id \in Id : LabelsAt(ids, new_leaves, 2)[id] =
         IF id = ids[2] THEN new_leaves[2] ELSE LabelsAt(ids, new_leaves, 2 - 1)[id]
  BY <1>1, <1>2
<1> QED BY <1>2, <1>3, <1>4

\* The labels after each access of a batch of two.
LEMMA LabelsOfTwo ==
  ASSUME pos_map \in [Id -> Leaf], NEW ids \in [1 .. 2 -> Id], NEW new_leaves \in [1 .. 2 -> Leaf]
  PROVE  \A id \in Id :
           /\ LabelsAt(ids, new_leaves, 1)[id] =
                IF id = ids[1] THEN new_leaves[1] ELSE LabelsAt(ids, new_leaves, 0)[id]
           /\ LabelsAt(ids, new_leaves, 2)[id] =
                IF id = ids[2] THEN new_leaves[2] ELSE LabelsAt(ids, new_leaves, 1)[id]
<1> DEFINE Labels(i, l) ==
      \A id \in Id :
        /\ LabelsAt(i, l, 1)[id] = IF id = i[1] THEN l[1] ELSE LabelsAt(i, l, 0)[id]
        /\ LabelsAt(i, l, 2)[id] = IF id = i[2] THEN l[2] ELSE LabelsAt(i, l, 1)[id]
<1>1. ASSUME NEW n \in Nat, 2 <= n, NEW i \in [1 .. n -> Id], NEW l \in [1 .. n -> Leaf]
      PROVE  Labels(i, l)
  BY <1>1, TwoLabels
<1>2. 2 \in Nat /\ 2 <= 2 OBVIOUS
<1> HIDE DEF Labels
<1>3. Labels(ids, new_leaves) BY <1>1, <1>2, Zenon
<1> QED BY <1>3 DEF Labels

\* A successful batch of two accesses.
LEMMA TwoAccesses ==
  ASSUME StateTypes, NEW ids \in [1 .. 2 -> Id], NEW updates \in [1 .. 2 -> Update],
         NEW new_leaves \in [1 .. 2 -> Leaf],
         AccessBatch(ids, updates, new_leaves), reply'.result = "ok"
  PROVE  IsTwoAccesses(ids, updates, new_leaves,
           [reply  |-> reply', w |-> [meta |-> meta', payload |-> payload', stash |-> stash'],
            labels |-> pos_map'])
<1> DEFINE run == BatchRun(ids, updates, new_leaves)
           L == [pos_map EXCEPT ![ids[1]] = new_leaves[1]]
           first == AccessOutcome(Working, pos_map[ids[1]], ids[1], updates[1], new_leaves[1])
           second == AccessOutcome(first.w, L[ids[2]], ids[2], updates[2], new_leaves[2])
           state == [reply |-> reply',
                     w |-> [meta |-> meta', payload |-> payload', stash |-> stash'],
                     labels |-> pos_map']
<1>0. PICK n \in Nat : /\ n = 2 /\ ids \in [1 .. n -> Id] /\ updates \in [1 .. n -> Update]
                       /\ new_leaves \in [1 .. n -> Leaf]
  OBVIOUS
<1>1. Len(ids) = 2 BY ListLen
<1>2. Working \in WorkingSet /\ pos_map \in [Id -> Leaf] BY WorkingType DEF StateTypes
<1>3. /\ ids[1] \in Id /\ ids[2] \in Id /\ updates[1] \in Update /\ updates[2] \in Update
      /\ new_leaves[1] \in Leaf /\ new_leaves[2] \in Leaf
  OBVIOUS
<1>4. /\ LabelsAt(ids, new_leaves, 0) = pos_map
      /\ LabelsAt(ids, new_leaves, 2) = BatchLabels(ids, new_leaves)
      /\ LabelsAt(ids, new_leaves, 1) \in [Id -> Leaf]
      /\ LabelsAt(ids, new_leaves, 2) \in [Id -> Leaf]
      /\ batch_access_leaf(ids, new_leaves, 1) = LabelsAt(ids, new_leaves, 0)[ids[1]]
      /\ batch_access_leaf(ids, new_leaves, 2) = LabelsAt(ids, new_leaves, 1)[ids[2]]
  <2>1. 1 \in 1 .. 2 /\ 2 \in 1 .. 2 /\ 1 \in 0 .. 2 /\ 2 \in 0 .. 2 /\ 1 - 1 = 0 /\ 2 - 1 = 1
    OBVIOUS
  <2>2. LabelsAt(ids, new_leaves, 0) = pos_map BY <1>2, LabelsAtType
  <2>3. LabelsAt(ids, new_leaves, 2) = BatchLabels(ids, new_leaves) BY <1>2, LabelsAtType
  <2>4. \A k \in 0 .. 2 : LabelsAt(ids, new_leaves, k) \in [Id -> Leaf] BY <1>2, LabelsAtType
  <2>5. \A k \in 1 .. 2 : batch_access_leaf(ids, new_leaves, k)
                            = LabelsAt(ids, new_leaves, k - 1)[ids[k]]
    BY <1>2, LabelsAtType
  <2>6. batch_access_leaf(ids, new_leaves, 1) = LabelsAt(ids, new_leaves, 1 - 1)[ids[1]]
    BY <2>1, <2>5
  <2>7. batch_access_leaf(ids, new_leaves, 2) = LabelsAt(ids, new_leaves, 2 - 1)[ids[2]]
    BY <2>1, <2>5
  <2> QED BY <2>1, <2>2, <2>3, <2>4, <2>6, <2>7
<1>5. LabelsAt(ids, new_leaves, 1) = L
  <2> DEFINE M == LabelsAt(ids, new_leaves, 1)
  <2>3. \A id \in Id : M[id] = IF id = ids[1] THEN new_leaves[1] ELSE pos_map[id]
    BY <1>2, <1>4, LabelsOfTwo
  <2>4. M \in [Id -> Leaf] BY <1>4
  <2> HIDE DEF M
  <2>5. M = L BY <1>2, <1>3, <2>3, <2>4
  <2> QED BY <2>5 DEF M
<1>6. BatchLabels(ids, new_leaves) = [L EXCEPT ![ids[2]] = new_leaves[2]]
  <2> DEFINE M == LabelsAt(ids, new_leaves, 2)
  <2>3. \A id \in Id : M[id] = IF id = ids[2] THEN new_leaves[2]
                               ELSE LabelsAt(ids, new_leaves, 1)[id]
    BY <1>2, LabelsOfTwo
  <2>4. M \in [Id -> Leaf] /\ L \in [Id -> Leaf] BY <1>4, <1>5
  <2>5. \A id \in Id : M[id] = IF id = ids[2] THEN new_leaves[2] ELSE L[id]
    BY <1>5, <2>3
  <2> HIDE DEF M, L
  <2>6. M = [L EXCEPT ![ids[2]] = new_leaves[2]] BY <1>3, <2>4, <2>5
  <2> QED BY <1>4, <2>6 DEF M
<1>7. /\ run[0] = [done |-> 0, reply |-> Ok(<<>>), w |-> Working]
      /\ run[1] = OneMoreAccess(run[0], BatchOutcome(run[0], ids, updates, new_leaves, 1), 1)
      /\ run[2] = OneMoreAccess(run[1], BatchOutcome(run[1], ids, updates, new_leaves, 2), 2)
  <2>1. 1 \in 1 .. n /\ 2 \in 1 .. n /\ 1 - 1 = 0 /\ 2 - 1 = 1 BY <1>0
  <2>2. /\ run[0] = [done |-> 0, reply |-> Ok(<<>>), w |-> Working]
        /\ \A k \in 1 .. n : run[k] = OneMoreAccess(run[k - 1],
                               BatchOutcome(run[k - 1], ids, updates, new_leaves, k), k)
    BY <1>0, <1>2, BatchRunDef
  <2> HIDE DEF run
  <2>3. run[1] = OneMoreAccess(run[1 - 1],
                               BatchOutcome(run[1 - 1], ids, updates, new_leaves, 1), 1)
    BY <2>1, <2>2
  <2>4. run[2] = OneMoreAccess(run[2 - 1],
                               BatchOutcome(run[2 - 1], ids, updates, new_leaves, 2), 2)
    BY <2>1, <2>2
  <2> QED BY <2>1, <2>2, <2>3, <2>4
<1>8. /\ reply' = run[2].reply /\ stash' = run[2].w.stash
      /\ run[2].reply.result = "ok" =>
           /\ pos_map' = BatchLabels(ids, new_leaves)
           /\ meta' = run[2].w.meta /\ payload' = run[2].w.payload
  BY <1>1 DEF AccessBatch
<1>9. first.w \in WorkingSet /\ first.reply \in BatchReply
  <2>1. pos_map[ids[1]] \in Leaf BY <1>2, <1>3
  <2> QED BY <1>2, <1>3, <2>1, AccessOutcomeType, ReplyIsBatchReply
<1> HIDE DEF run
<1>10. BatchOutcome(run[0], ids, updates, new_leaves, 1) = first
  <2>1. run[0].w = Working BY <1>7
  <2> QED BY <1>4, <2>1 DEF BatchOutcome
<1>11. second.w \in WorkingSet
  <2>1. L \in [Id -> Leaf] BY <1>4, <1>5
  <2>2. L[ids[2]] \in Leaf BY <1>3, <2>1
  <2> HIDE DEF L, first
  <2> QED BY <1>3, <1>9, <2>2, AccessOutcomeType
<1> HIDE DEF first
<1>12. run[1].reply.result = "ok" /\ first.reply.result = "ok"
  <2>1. run[2].reply.result = "ok" BY <1>8
  <2>2. run[1].reply.result = "ok"
    <3>1. CASE run[1].reply.result # "ok" BY <1>7, <2>1, <3>1 DEF OneMoreAccess
    <3> QED BY <3>1
  <2>3. run[0].reply.result = "ok" BY <1>7 DEF Ok
  <2>4. CASE first.reply.result # "ok"
    <3>1. run[1] = [done |-> run[0].done, reply |-> first.reply, w |-> first.w]
      BY <1>7, <1>10, <2>3, <2>4 DEF OneMoreAccess
    <3> QED BY <2>2, <2>4, <3>1
  <2> QED BY <2>2, <2>4
<1>13. run[1].w = first.w /\ run[1].reply.out = first.reply.out
  <2>1. run[0].reply.result = "ok" /\ run[0].reply.out = <<>> BY <1>7 DEF Ok
  <2>2. run[1] = [done |-> 1, reply |-> Ok(<<>> \o first.reply.out), w |-> first.w]
    BY <1>7, <1>10, <1>12, <2>1 DEF OneMoreAccess
  <2>3. <<>> \o first.reply.out = first.reply.out
    <3>1. first.reply.out \in Seq(Payloads \cup {ZeroPayload}) BY <1>9 DEF BatchReply
    <3> QED BY <3>1, ConcatEmptySeq
  <2>4. run[1].reply = Ok(first.reply.out) BY <2>2, <2>3
  <2> QED BY <2>2, <2>4 DEF Ok
<1>14. BatchOutcome(run[1], ids, updates, new_leaves, 2) = second
  BY <1>4, <1>5, <1>13 DEF BatchOutcome
<1> HIDE DEF second
<1>15. second.reply.result = "ok"
  <2>1. run[2].reply.result = "ok" BY <1>8
  <2>2. CASE second.reply.result # "ok"
    <3>1. run[2] = [done |-> run[1].done, reply |-> second.reply, w |-> second.w]
      BY <1>7, <1>12, <1>14, <2>2 DEF OneMoreAccess
    <3> QED BY <2>1, <2>2, <3>1
  <2> QED BY <2>2
<1>16. run[2] = [done |-> 2, reply |-> Ok(first.reply.out \o second.reply.out), w |-> second.w]
  BY <1>7, <1>12, <1>13, <1>14, <1>15 DEF OneMoreAccess
<1>17. /\ reply' = Ok(first.reply.out \o second.reply.out)
       /\ stash' = second.w.stash /\ meta' = second.w.meta /\ payload' = second.w.payload
       /\ pos_map' = [L EXCEPT ![ids[2]] = new_leaves[2]]
  BY <1>6, <1>8, <1>16
<1>18. [meta |-> meta', payload |-> payload', stash |-> stash'] = second.w
  <2>1. second.w = [meta |-> second.w.meta, payload |-> second.w.payload,
                    stash |-> second.w.stash]
    BY <1>11, WorkingIs
  <2> QED BY <1>17, <2>1
<1>19. state = InSequence(ids, new_leaves, first, second)
  BY <1>12, <1>15, <1>17, <1>18 DEF InSequence
<1> HIDE DEF state
<1>20. second = SecondAccess(ids, updates, new_leaves, first) BY DEF SecondAccess, second
<1>21. \E b \in {SecondAccess(ids, updates, new_leaves, first)} :
         state = InSequence(ids, new_leaves, first, b)
  BY <1>19, <1>20
<1>22. IsTwoAccesses(ids, updates, new_leaves, state)
  BY <1>21 DEF IsTwoAccesses, first
<1> QED BY <1>22 DEF state

\* A batch of two accesses that succeeds leaves the pages, the stash, the labels
\* and the answer that the two accesses leave when made one after the other, also
\* when both are for the same block, and also after failed writes: reading all
\* paths first and replacing all labels at once (access_batch) makes no
\* difference.  No hypothesis on the stash: an overflow is no success.
THEOREM BatchIsItsAccesses == FaultsSpec => SuccessfulBatchIsSequential
<1>1. ASSUME FaultTypes, FaultsNext, Len(request') = 2, reply'.result = "ok"
      PROVE  StepIsTwoAccesses
  <2>1. StateTypes BY <1>1 DEF FaultTypes
  <2>2. ASSUME request' = <<>> PROVE FALSE BY <1>1, <2>2
  <2>3. ASSUME NEW id \in Id, NEW update \in Update, access_served(id, update) PROVE FALSE
    <3>1. request' = <<<<id, update>>>> BY <2>3 DEF access_served, access
    <3> QED BY <1>1, <3>1
  <2>4. ASSUME NEW n \in 0 .. MaxBatch, NEW ids \in [1 .. n -> Id],
               NEW updates \in [1 .. n -> Update], access_batch_served(ids, updates)
        PROVE  StepIsTwoAccesses
    <3>1. n \in Nat /\ Len(ids) = n BY BatchAssumption, ListLen
    <3>2. PICK new_leaves \in [1 .. n -> Leaf] : AccessBatch(ids, updates, new_leaves)
      BY <2>4, <3>1 DEF access_batch_served
    <3>3. request' = [k \in 1 .. n |-> <<ids[k], updates[k]>>]
      BY <3>1, <3>2 DEF AccessBatch
    <3>4. n = 2
      <4>1. PICK q : q = request' OBVIOUS
      <4>2. q \in [1 .. n -> Id \X Update] BY <3>3, <4>1
      <4>3. Len(q) = n BY <3>1, <4>2, ListLen
      <4> QED BY <1>1, <4>1, <4>3
    <3>5. /\ ids = [k \in 1 .. 2 |-> request'[k][1]]
          /\ updates = [k \in 1 .. 2 |-> request'[k][2]]
      BY <3>3, <3>4
    <3>6. /\ ids \in [1 .. 2 -> Id] /\ updates \in [1 .. 2 -> Update]
          /\ new_leaves \in [1 .. 2 -> Leaf]
      BY <3>4
    <3>7. IsTwoAccesses(ids, updates, new_leaves,
            [reply  |-> reply', w |-> [meta |-> meta', payload |-> payload', stash |-> stash'],
             labels |-> pos_map'])
      BY <1>1, <2>1, <3>2, <3>6, TwoAccesses
    <3> QED BY <3>5, <3>6, <3>7 DEF StepIsTwoAccesses
  <2>5. ASSUME NEW n \in 1 .. MaxBatch, NEW ids \in [1 .. n -> Id],
               NEW updates \in [1 .. n -> Update], access_batch_write_fails(ids, updates)
        PROVE  FALSE
    BY <2>2, <2>5, BatchWriteFails
  <2>6. dummy_served => request' = <<>> BY DEF dummy_served, dummy_access
  <2>7. \A count : dummy_batch_served(count) => request' = <<>>
    BY DEF dummy_batch_served, dummy_access_batch
  <2>8. \A budget : drain_served(budget) => request' = <<>>
    BY DEF drain_served, drain_evictions
  <2>9. read_refused => request' = <<>> BY DEF read_refused
  <2>10. \A id \in Id : access_write_fails(id) => request' = <<>> BY AccessWriteFails
  <2>11. dummy_write_fails => request' = <<>> BY DummyWriteFails
  <2>12. \A budget : drain_write_fails(budget) => request' = <<>> BY DrainWriteFails
  <2> QED BY <1>1, <2>2, <2>3, <2>4, <2>5, <2>6, <2>7, <2>8, <2>9, <2>10, <2>11, <2>12
          DEF FaultsNext
<1>2. FaultTypes /\ [FaultsNext]_fvars =>
        [Len(request') = 2 /\ reply'.result = "ok" => StepIsTwoAccesses]_vars
  <2>1. UNCHANGED fvars => UNCHANGED vars BY DEF fvars
  <2> QED BY <1>1, <2>1
<1> QED BY <1>2, FaultTypesHold, PTL DEF FaultsSpec, SuccessfulBatchIsSequential
=============================================================================

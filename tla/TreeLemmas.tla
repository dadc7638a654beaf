----------------------------- MODULE TreeLemmas -----------------------------
(***************************************************************************)
(* Arithmetic of the bucket tree (OramParams) and of the eviction order    *)
(* (CircuitSchedule): shifts, node indices and prefixes of leaf labels.    *)
(***************************************************************************)
EXTENDS CircuitSchedule, InductionLemmas, FiniteSetTheorems

-----------------------------------------------------------------------------
(* Shifts, levels and the eviction order.                                  *)

\* with_leaves only accepts trees of two or more leaves.
LEMMA LeavesType == leaves \in Nat \ {0} /\ leaves >= 2
<1>1. LeafBits \in Nat /\ 1 <= LeafBits /\ 1 \in Nat BY ParamsAssumption
<1>2. Pow2[1] = 2
  <2>1. 0 \in Nat /\ 0 + 1 = 1 OBVIOUS
  <2> QED BY <2>1, Pow2Def
<1> QED BY <1>1, <1>2, Pow2Monotone, Pow2Positive DEF leaves

\* node_index places a bucket of depth d in the pages of level d of the heap
\* array.
LEMMA NodeIndexLevel ==
  ASSUME NEW depth \in Depth, NEW leaf \in Leaf
  PROVE  node_index(depth, leaf) \in Pow2[depth] - 1 .. 2 * Pow2[depth] - 2
<1>1. depth \in Nat /\ LeafBits - depth \in Nat /\ leaf \in Nat
  BY ParamsAssumption DEF Depth, Leaf
<1>2. Pow2[depth] \in Nat \ {0} /\ Pow2[LeafBits - depth] \in Nat \ {0}
  BY <1>1, Pow2Positive
<1>3. leaf \div Pow2[LeafBits - depth] \in Nat BY <1>1, <1>2
<1>4. (leaf \div Pow2[LeafBits - depth]) % Pow2[depth] \in 0 .. Pow2[depth] - 1
  BY <1>2, <1>3
<1>5. node_index(depth, leaf)
        = (Pow2[depth] - 1) + ((leaf \div Pow2[LeafBits - depth]) % Pow2[depth])
  BY DEF node_index, NodeIndex
<1> QED BY <1>2, <1>4, <1>5

\* Every page that path_nodes lists lies inside the store (bucket_count).
LEMMA NodeIndexType ==
  ASSUME NEW depth \in Depth, NEW leaf \in Leaf
  PROVE  node_index(depth, leaf) \in Node
<1>1. depth \in Nat /\ LeafBits \in Nat /\ depth <= LeafBits
  BY ParamsAssumption DEF Depth
<1>2. Pow2[depth] \in Nat \ {0} /\ Pow2[LeafBits] \in Nat \ {0}
  BY <1>1, Pow2Positive
<1>3. Pow2[depth] <= Pow2[LeafBits] BY <1>1, Pow2Monotone
<1> QED BY <1>2, <1>3, NodeIndexLevel DEF Node, bucket_count, leaves

\* The k lowest bits of `low` in reverse order, for every k at once.
BitReversal(low, rev) ==
  /\ rev \in [Nat -> Nat] /\ rev[0] = 0
  /\ \A k \in Nat : /\ (low \div Pow2[k]) % 2 \in 0 .. 1
                    /\ rev[k + 1] = 2 * rev[k] + ((low \div Pow2[k]) % 2)
                    /\ rev[k] \in 0 .. Pow2[k] - 1

\* The loop of reverse_bits_mod shifts out one bit of the index at a time.
LEMMA ReversedBitsAre ==
  ASSUME NEW low \in Leaf
  PROVE  \E rev : BitReversal(low, rev) /\ ReversedBits[low] = rev[LeafBits]
<1> DEFINE bit(k) == (low \div Pow2[k]) % 2
           step == [x \in Nat \X Nat |-> 2 * x[2] + bit(x[1])]
           rev == CHOOSE rev : rev = [k \in Nat |->
                    IF k = 0 THEN 0 ELSE 2 * rev[k - 1] + ((low \div Pow2[k - 1]) % 2)]
<1>0. low \in Nat BY LeavesType DEF Leaf
<1>1. \A k \in Nat : bit(k) \in 0 .. 1
  <2> TAKE k \in Nat
  <2>1. Pow2[k] \in Nat \ {0} BY Pow2Positive
  <2>2. low \div Pow2[k] \in Nat BY <1>0, <2>1
  <2> QED BY <2>2
<1>2. ReversedBits[low] = rev[LeafBits]
  BY DEF ReversedBits
<1>3. step \in Steps(Nat)
  <2> HIDE DEF bit
  <2> QED BY <1>1 DEF Steps
<1>4. PICK f : IteratesFrom(f, Nat, 0, step)
  <2> HIDE DEF step
  <2> QED BY <1>3, Iteration
<1>5. f = [k \in Nat |-> IF k = 0 THEN 0 ELSE 2 * f[k - 1] + ((low \div Pow2[k - 1]) % 2)]
  <2>1. ASSUME NEW k \in Nat, k # 0
        PROVE  step[<<k - 1, f[k - 1]>>] = 2 * f[k - 1] + ((low \div Pow2[k - 1]) % 2)
    <3>1. k - 1 \in Nat BY <2>1
    <3>2. <<k - 1, f[k - 1]>> \in Nat \X Nat BY <1>4, <3>1 DEF IteratesFrom
    <3> QED BY <3>2
  <2> HIDE DEF step
  <2>2. f = [k \in Nat |-> IF k = 0 THEN 0 ELSE step[<<k - 1, f[k - 1]>>]]
    BY <1>4, RecursiveFunction
  <2> QED BY <2>1, <2>2
<1>6. rev = [k \in Nat |-> IF k = 0 THEN 0 ELSE 2 * rev[k - 1] + ((low \div Pow2[k - 1]) % 2)]
  BY <1>5
<1> HIDE DEF rev
<1> DEFINE P == {k \in Nat : rev[k] \in 0 .. Pow2[k] - 1}
<1>7. 0 \in P BY <1>6, Pow2Def
<1>8. ASSUME NEW k \in Nat, k \in P PROVE k + 1 \in P
  <2>1. k + 1 \in Nat /\ k + 1 # 0 /\ (k + 1) - 1 = k OBVIOUS
  <2>2. rev[k + 1] = 2 * rev[k] + bit(k) BY <1>6, <2>1
  <2>3. bit(k) \in 0 .. 1 BY <1>1
  <2>4. Pow2[k + 1] = 2 * Pow2[k] /\ Pow2[k] \in Nat \ {0} BY Pow2Def, Pow2Positive
  <2>5. rev[k] \in 0 .. Pow2[k] - 1 BY <1>8
  <2> HIDE DEF bit
  <2>6. rev[k + 1] \in 0 .. Pow2[k + 1] - 1 BY <2>2, <2>3, <2>4, <2>5
  <2> QED BY <2>1, <2>6
<1>9. \A k \in Nat : k \in P
  <2> HIDE DEF P
  <2> QED BY <1>7, <1>8, SetInduction
<1>10. rev \in [Nat -> Nat]
  <2>1. \A k \in Nat : rev[k] \in Nat
    <3>1. ASSUME NEW k \in Nat PROVE rev[k] \in Nat
      <4>1. rev[k] \in 0 .. Pow2[k] - 1 BY <1>9
      <4>2. Pow2[k] \in Nat BY Pow2Positive
      <4> QED BY <4>1, <4>2
    <3> QED BY <3>1
  <2> QED BY <1>6, <2>1
<1>11. ASSUME NEW k \in Nat PROVE rev[k + 1] = 2 * rev[k] + bit(k)
  <2>1. k + 1 \in Nat /\ k + 1 # 0 /\ (k + 1) - 1 = k OBVIOUS
  <2> QED BY <1>6, <2>1
<1>12. rev[0] = 0 BY <1>6
<1>13. BitReversal(low, rev) BY <1>1, <1>9, <1>10, <1>11, <1>12 DEF BitReversal
<1> QED BY <1>2, <1>13

\* The reversed label is a leaf label again.
LEMMA ReversedBitsType == ASSUME NEW low \in Leaf PROVE ReversedBits[low] \in Leaf
<1>1. PICK rev : BitReversal(low, rev) /\ ReversedBits[low] = rev[LeafBits] BY ReversedBitsAre
<1> QED BY <1>1, ParamsAssumption DEF BitReversal, Leaf, leaves

\* Every path the eviction schedule names (eviction_leaf_at) ends in a leaf.
LEMMA EvictionLeafType ==
  ASSUME NEW i \in Nat PROVE eviction_leaf_at(i) \in Leaf
<1>1. i % leaves \in Leaf BY LeavesType DEF Leaf
<1> QED BY <1>1, ReversedBitsType DEF eviction_leaf_at, reverse_bits_mod

-----------------------------------------------------------------------------
(* Paths that share a bucket.                                              *)

\* The levels of the heap array do not overlap: two calls of node_index agree
\* only at the same depth.
LEMMA LevelsDisjoint ==
  ASSUME NEW d \in Depth, NEW e \in Depth, NEW a \in Leaf, NEW b \in Leaf,
         node_index(d, a) = node_index(e, b)
  PROVE  d = e
<1>1. ASSUME NEW x \in Depth, NEW y \in Depth, NEW u \in Leaf, NEW v \in Leaf, x < y
      PROVE  node_index(x, u) < node_index(y, v)
  <2>1. x \in Nat /\ y \in Nat /\ x + 1 \in Nat /\ x + 1 <= y BY <1>1, ParamsAssumption DEF Depth
  <2>2. Pow2[x + 1] = 2 * Pow2[x] BY <2>1, Pow2Def
  <2>3. Pow2[x + 1] <= Pow2[y] BY <2>1, Pow2Monotone
  <2>4. Pow2[x] \in Nat /\ Pow2[y] \in Nat BY <2>1, Pow2Positive
  <2>5. /\ node_index(x, u) \in Pow2[x] - 1 .. 2 * Pow2[x] - 2
        /\ node_index(y, v) \in Pow2[y] - 1 .. 2 * Pow2[y] - 2
    BY NodeIndexLevel
  <2> QED BY <2>2, <2>3, <2>4, <2>5
<1>2. d \in Int /\ e \in Int BY ParamsAssumption DEF Depth
<1>3. node_index(d, a) \in Int BY NodeIndexType, LeavesType DEF Node, bucket_count
<1>4. ~(d < e) BY <1>1, <1>3
<1>5. ~(e < d) BY <1>1, <1>3
<1> QED BY <1>2, <1>4, <1>5

\* Two labels whose paths share a bucket share every bucket above it.
LEMMA SharedPrefix ==
  ASSUME NEW d \in Depth, NEW e \in Depth, d <= e, NEW a \in Leaf, NEW b \in Leaf,
         node_index(e, a) = node_index(e, b)
  PROVE  node_index(d, a) = node_index(d, b)
<1> DEFINE Top(x, n) == x \div Pow2[LeafBits - n]
<1>1. LeafBits \in Nat /\ a \in Nat /\ b \in Nat
  BY ParamsAssumption, LeavesType DEF Leaf
<1>2. ASSUME NEW n \in Depth, NEW x \in Leaf
      PROVE  /\ Top(x, n) \in Nat
             /\ Top(x, n) < Pow2[n]
             /\ node_index(n, x) = Pow2[n] - 1 + Top(x, n)
  <2>1. n \in Nat /\ LeafBits - n \in Nat /\ x \in Nat BY <1>1, LeavesType DEF Depth, Leaf
  <2>2. Pow2[n] \in Nat \ {0} /\ Pow2[LeafBits - n] \in Nat \ {0} BY <2>1, Pow2Positive
  <2>3. Pow2[LeafBits - n] * Pow2[n] = leaves
    <3> DEFINE P == {k \in Nat : k <= LeafBits => Pow2[LeafBits - k] * Pow2[k] = Pow2[LeafBits]}
    <3>1. 0 \in P
      <4>1. LeafBits - 0 = LeafBits /\ Pow2[LeafBits] \in Nat BY <1>1, Pow2Positive
      <4> QED BY <4>1, Pow2Def
    <3>2. ASSUME NEW k \in Nat, k \in P PROVE k + 1 \in P
      <4>1. SUFFICES ASSUME k + 1 <= LeafBits
                     PROVE  Pow2[LeafBits - (k + 1)] * Pow2[k + 1] = Pow2[LeafBits]
        OBVIOUS
      <4>2. /\ LeafBits - (k + 1) \in Nat
            /\ (LeafBits - (k + 1)) + 1 = LeafBits - k
            /\ k <= LeafBits
        BY <1>1, <4>1
      <4>3. Pow2[LeafBits - k] = 2 * Pow2[LeafBits - (k + 1)] BY <4>2, Pow2Def
      <4>4. Pow2[k + 1] = 2 * Pow2[k] BY Pow2Def
      <4>5. Pow2[LeafBits - k] * Pow2[k] = Pow2[LeafBits] BY <3>2, <4>2
      <4>6. Pow2[LeafBits - (k + 1)] \in Nat /\ Pow2[k] \in Nat BY <4>2, Pow2Positive
      <4> QED BY <4>3, <4>4, <4>5, <4>6
    <3>3. \A k \in Nat : k \in P
      <4> HIDE DEF P
      <4> QED BY <3>1, <3>2, SetInduction
    <3>4. n \in P BY <2>1, <3>3
    <3>5. n <= LeafBits BY DEF Depth
    <3> QED BY <3>4, <3>5 DEF leaves
  <2>4. x < Pow2[LeafBits - n] * Pow2[n] BY <2>1, <2>3, LeavesType DEF Leaf
  <2>5. Top(x, n) \in Nat BY <2>1, <2>2
  <2>6. Top(x, n) < Pow2[n]
    <3> DEFINE m == Pow2[LeafBits - n]
               k == Pow2[n]
    <3>1. m \in Nat \ {0} /\ k \in Nat \ {0} /\ x < m * k BY <2>2, <2>4
    <3> HIDE DEF m, k
    <3>2. x \div m < k BY <2>1, <3>1
    <3> QED BY <3>2 DEF m, k
  <2>7. Top(x, n) % Pow2[n] = Top(x, n) BY <2>2, <2>5, <2>6
  <2>8. node_index(n, x) = (Pow2[n] - 1) + (Top(x, n) % Pow2[n])
    BY DEF node_index, NodeIndex
  <2> QED BY <2>5, <2>6, <2>7, <2>8
<1>3. ASSUME NEW n \in Nat, n + 1 <= LeafBits, NEW x \in Leaf
      PROVE  Top(x, n) = Top(x, n + 1) \div 2
  <2>1. LeafBits - (n + 1) \in Nat /\ (LeafBits - (n + 1)) + 1 = LeafBits - n /\ x \in Nat
    BY <1>1, <1>3, LeavesType DEF Leaf
  <2>2. Pow2[LeafBits - n] = 2 * Pow2[LeafBits - (n + 1)] BY <2>1, Pow2Def
  <2>3. Pow2[LeafBits - (n + 1)] \in Nat \ {0} BY <2>1, Pow2Positive
  <2> QED BY <2>1, <2>2, <2>3, HalvePrefix
<1>4. e \in Nat /\ d \in Nat /\ e <= LeafBits /\ e - d \in Nat
  BY <1>1 DEF Depth
<1>5. Top(a, e) = Top(b, e)
  <2>1. Pow2[e] \in Nat BY <1>4, Pow2Positive
  <2>2. Top(a, e) \in Nat /\ Top(b, e) \in Nat
        /\ node_index(e, a) = Pow2[e] - 1 + Top(a, e)
        /\ node_index(e, b) = Pow2[e] - 1 + Top(b, e)
    BY <1>2
  <2>3. ASSUME NEW p \in Nat, NEW x \in Nat, NEW y \in Nat, p - 1 + x = p - 1 + y
        PROVE  x = y
    BY <2>3
  <2>4. Pow2[e] - 1 + Top(a, e) = Pow2[e] - 1 + Top(b, e) BY <2>2
  <2> HIDE DEF Top
  <2> QED BY <2>1, <2>2, <2>3, <2>4
<1> HIDE DEF Top
<1> DEFINE Q == {k \in Nat : k <= e => Top(a, e - k) = Top(b, e - k)}
<1>6. 0 \in Q
  <2>1. e - 0 = e BY <1>4
  <2> QED BY <1>5, <2>1
<1>7. ASSUME NEW k \in Nat, k \in Q PROVE k + 1 \in Q
  <2>1. SUFFICES ASSUME k + 1 <= e PROVE Top(a, e - (k + 1)) = Top(b, e - (k + 1))
    OBVIOUS
  <2>2. /\ e - (k + 1) \in Nat
        /\ (e - (k + 1)) + 1 = e - k
        /\ (e - (k + 1)) + 1 <= LeafBits
        /\ k <= e
    BY <1>1, <1>4, <2>1
  <2>3. Top(a, e - k) = Top(b, e - k) BY <1>7, <2>2
  <2> QED BY <1>3, <2>2, <2>3
<1>8. \A k \in Nat : k \in Q
  <2> HIDE DEF Q
  <2> QED BY <1>6, <1>7, SetInduction
<1>9. e - (e - d) = d /\ e - d <= e BY <1>4
<1>10. Top(a, d) = Top(b, d) BY <1>4, <1>8, <1>9
<1> QED BY <1>2, <1>10
=============================================================================

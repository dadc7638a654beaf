--------------------- MODULE AuthenticatedStoresProofs ---------------------
(***************************************************************************)
(* Proofs about the authenticated page stores: first the hash tree over     *)
(* data pages (TieredMerkle), then the hashes embedded in bucket pages (Tree *)
(* of AuthenticatedStores), for every number of pages and levels, all lists *)
(* of paths and any number of writes and faults.                            *)
(***************************************************************************)
EXTENDS AuthenticatedStores, InductionLemmas

-----------------------------------------------------------------------------
(* The hash tree: nodes above a page.                                       *)

HashNode == 1 .. 2 * leaf_base - 1

\* The nodes whose hashes cover page p.
Above(p) == {NodeAt(p, k) : k \in 0 .. LeafBits}

\* The hash tree has at least one leaf (leaf_base_for_page_count).
LEMMA BaseType == leaf_base \in Nat \ {0} /\ LeafBits \in Nat
BY MerkleAssumption, Pow2Positive DEF leaf_base

\* Every page has a leaf.
LEMMA PageType == \A p \in Page : p \in Nat /\ p < leaf_base
BY MerkleAssumption, BaseType DEF Page

\* Each node halves the one below (node_idx / 2) and stays in its level of the heap.
LEMMA NodeAtLevel ==
  ASSUME NEW p \in Page
  PROVE  \A k \in 0 .. LeafBits :
           /\ NodeAt(p, k) \in Nat
           /\ Pow2[LeafBits - k] <= NodeAt(p, k)
           /\ NodeAt(p, k) < 2 * Pow2[LeafBits - k]
           /\ k = 0 => NodeAt(p, k) = leaf_base + p
           /\ k > 0 => NodeAt(p, k) = NodeAt(p, k - 1) \div 2
<1> DEFINE In(k) == /\ NodeAt(p, k) \in Nat
                    /\ Pow2[LeafBits - k] <= NodeAt(p, k)
                    /\ NodeAt(p, k) < 2 * Pow2[LeafBits - k]
           G == {k \in Nat : In(k)}
<1>1. leaf_base \in Nat \ {0} /\ LeafBits \in Nat /\ p \in Nat /\ p < leaf_base
  BY BaseType, PageType
<1>2. NodeAt(p, 0) = leaf_base + p
  <2>1. Pow2[0] = 1 BY Pow2Def
  <2> QED BY <1>1, <2>1 DEF NodeAt
<1>3. ASSUME NEW k \in 1 .. LeafBits PROVE NodeAt(p, k) = NodeAt(p, k - 1) \div 2
  <2>1. k - 1 \in Nat /\ (k - 1) + 1 = k BY <1>1
  <2>2. Pow2[k] = 2 * Pow2[k - 1] /\ Pow2[k - 1] \in Nat \ {0} BY <2>1, Pow2Def, Pow2Positive
  <2> QED BY <1>1, <2>2, HalvePrefix DEF NodeAt
<1>4. 0 \in G
  <2>1. LeafBits - 0 = LeafBits BY <1>1
  <2> QED BY <1>1, <1>2, <2>1 DEF leaf_base
<1>5. ASSUME NEW k \in 1 .. LeafBits, k - 1 \in G PROVE k \in G
  <2> DEFINE m == Pow2[LeafBits - k]
             x == NodeAt(p, k - 1)
  <2>1. LeafBits - k \in Nat /\ (LeafBits - k) + 1 = LeafBits - (k - 1) /\ k \in Nat BY <1>1
  <2>2. Pow2[LeafBits - (k - 1)] = 2 * m /\ m \in Nat \ {0} BY <2>1, Pow2Def, Pow2Positive
  <2>3. x \in Nat /\ 2 * m <= x /\ x < 2 * (2 * m) BY <1>5, <2>2
  <2>4. NodeAt(p, k) = x \div 2 BY <1>3
  <2> HIDE DEF m, x
  <2>5. x \div 2 \in Nat /\ m <= x \div 2 /\ x \div 2 < 2 * m BY <2>2, <2>3
  <2> QED BY <2>1, <2>4, <2>5 DEF m
<1>6. \A k \in 0 .. LeafBits : k \in G
  <2> HIDE DEF G
  <2> QED BY <1>1, <1>4, <1>5, BoundedInduction
<1>7. \A k \in 0 .. LeafBits : In(k) BY <1>6
<1>8. ASSUME NEW k \in 0 .. LeafBits, k > 0 PROVE NodeAt(p, k) = NodeAt(p, k - 1) \div 2
  BY <1>1, <1>3, <1>8
<1> QED BY <1>2, <1>7, <1>8

\* A path meets each level once: the nodes above a page are distinct, the leaf is the
\* only one at the bottom and the root is the last.
LEMMA NodeAtDistinct ==
  ASSUME NEW p \in Page, NEW j \in 0 .. LeafBits, NEW k \in 0 .. LeafBits,
         NodeAt(p, j) = NodeAt(p, k)
  PROVE  j = k
<1>1. LeafBits \in Nat BY BaseType
<1>2. ASSUME NEW a \in 0 .. LeafBits, NEW b \in 0 .. LeafBits, a < b
      PROVE  NodeAt(p, b) < NodeAt(p, a)
  <2>1. LeafBits - b \in Nat /\ LeafBits - a \in Nat /\ (LeafBits - b) + 1 <= LeafBits - a
    BY <1>1, <1>2
  <2>2. 2 * Pow2[LeafBits - b] <= Pow2[LeafBits - a]
    <3>1. (LeafBits - b) + 1 \in Nat BY <2>1
    <3>2. Pow2[(LeafBits - b) + 1] <= Pow2[LeafBits - a] BY <2>1, <3>1, Pow2Monotone
    <3> QED BY <2>1, <3>2, Pow2Def
  <2>3. Pow2[LeafBits - b] \in Nat /\ Pow2[LeafBits - a] \in Nat BY <2>1, Pow2Positive
  <2> QED BY <2>2, <2>3, NodeAtLevel
<1>3. NodeAt(p, j) \in Nat BY NodeAtLevel
<1>4. ~(j < k) BY <1>2, <1>3
<1>5. ~(k < j) BY <1>2, <1>3
<1> QED BY <1>1, <1>4, <1>5

\* The path of a page leads through nodes of the tree to the root, inner nodes above the leaf.
LEMMA NodeAtEnds ==
  ASSUME NEW p \in Page
  PROVE  /\ NodeAt(p, LeafBits) = 1
         /\ \A k \in 0 .. LeafBits : NodeAt(p, k) \in HashNode
         /\ \A k \in 1 .. LeafBits : NodeAt(p, k) < leaf_base
<1>1. leaf_base \in Nat \ {0} /\ LeafBits \in Nat BY BaseType
<1>2. NodeAt(p, LeafBits) = 1
  <2>1. LeafBits \in 0 .. LeafBits /\ LeafBits - LeafBits = 0 /\ Pow2[0] = 1 BY <1>1, Pow2Def
  <2> QED BY <2>1, NodeAtLevel
<1>3. ASSUME NEW k \in 0 .. LeafBits PROVE NodeAt(p, k) \in HashNode
  <2>1. LeafBits - k \in Nat /\ LeafBits - k <= LeafBits BY <1>1
  <2>2. Pow2[LeafBits - k] \in Nat \ {0} /\ Pow2[LeafBits - k] <= leaf_base
    BY <1>1, <2>1, Pow2Positive, Pow2Monotone DEF leaf_base
  <2> QED BY <1>1, <2>2, NodeAtLevel DEF HashNode
<1>4. ASSUME NEW k \in 1 .. LeafBits PROVE NodeAt(p, k) < leaf_base
  <2>1. LeafBits - k \in Nat /\ (LeafBits - k) + 1 <= LeafBits /\ k \in 0 .. LeafBits BY <1>1
  <2>2. (LeafBits - k) + 1 \in Nat BY <2>1
  <2>3. Pow2[(LeafBits - k) + 1] <= leaf_base BY <1>1, <2>1, <2>2, Pow2Monotone DEF leaf_base
  <2>4. Pow2[(LeafBits - k) + 1] = 2 * Pow2[LeafBits - k] BY <2>1, Pow2Def
  <2>5. Pow2[LeafBits - k] \in Nat BY <2>1, Pow2Positive
  <2> QED BY <1>1, <2>1, <2>3, <2>4, <2>5, NodeAtLevel
<1> QED BY <1>2, <1>3, <1>4

\* A node covers what its children cover.
LEMMA AboveIsClosed ==
  ASSUME NEW p \in Page, NEW n \in HashNode, n < leaf_base,
         2 * n \in Above(p) \/ 2 * n + 1 \in Above(p)
  PROVE  n \in Above(p)
<1>1. leaf_base \in Nat \ {0} /\ LeafBits \in Nat /\ n \in Nat /\ n >= 1
  BY BaseType DEF HashNode
<1>2. PICK k \in 0 .. LeafBits : NodeAt(p, k) = 2 * n \/ NodeAt(p, k) = 2 * n + 1 BY DEF Above
<1>3. k < LeafBits BY <1>1, <1>2, NodeAtEnds
<1>4. k + 1 \in 0 .. LeafBits /\ k + 1 > 0 /\ (k + 1) - 1 = k BY <1>1, <1>3
<1>5. NodeAt(p, k + 1) = NodeAt(p, k) \div 2 BY <1>4, NodeAtLevel
<1>6. NodeAt(p, k + 1) = n BY <1>1, <1>2, <1>5
<1> QED BY <1>4, <1>6 DEF Above

\* At the bottom a path has the leaf of its page only.
LEMMA AboveLeaf ==
  ASSUME NEW p \in Page, NEW n \in HashNode, ~(n < leaf_base), n \in Above(p)
  PROVE  n = leaf_base + p
<1>1. leaf_base \in Nat \ {0} /\ LeafBits \in Nat BY BaseType
<1>2. PICK k \in 0 .. LeafBits : n = NodeAt(p, k) BY DEF Above
<1>3. k = 0 BY <1>1, <1>2, NodeAtEnds
<1> QED BY <1>1, <1>2, <1>3, NodeAtLevel

\* The children of a node on the path: the node below and its sibling, which is
\* not on the path.
LEMMA PathChildren ==
  ASSUME NEW p \in Page, NEW k \in 1 .. LeafBits,
         NEW n, n = NodeAt(p, k), NEW c, c = NodeAt(p, k - 1), NEW s, s = sibling_node(c)
  PROVE  /\ n \in HashNode /\ n < leaf_base
         /\ c \in HashNode /\ s \in HashNode
         /\ s \notin Above(p)
         /\ c \div 2 = n
         /\ \/ is_left_child(c) /\ c = 2 * n /\ s = 2 * n + 1
            \/ ~is_left_child(c) /\ c = 2 * n + 1 /\ s = 2 * n
<1>1. leaf_base \in Nat \ {0} /\ LeafBits \in Nat BY BaseType
<1>2. k \in 0 .. LeafBits /\ k - 1 \in 0 .. LeafBits /\ k > 0 BY <1>1
<1>3. n \in HashNode /\ n < leaf_base /\ c \in HashNode BY <1>2, NodeAtEnds
<1>4. c \div 2 = n BY <1>2, NodeAtLevel
<1>5. n \in Nat /\ c \in Nat BY <1>1, <1>3 DEF HashNode
<1>6. \/ is_left_child(c) /\ c = 2 * n /\ s = 2 * n + 1
      \/ ~is_left_child(c) /\ c = 2 * n + 1 /\ s = 2 * n
  BY <1>4, <1>5 DEF sibling_node, is_left_child
<1>7. s \in HashNode BY <1>1, <1>3, <1>5, <1>6 DEF HashNode
<1>8. ASSUME s \in Above(p) PROVE FALSE
  <2>1. PICK j \in 0 .. LeafBits : NodeAt(p, j) = s BY <1>8 DEF Above
  <2>2. n >= 1 BY <1>1, <1>3 DEF HashNode
  <2>3. j < LeafBits BY <1>1, <1>5, <1>6, <2>1, <2>2, NodeAtEnds
  <2>4. j + 1 \in 0 .. LeafBits /\ j + 1 > 0 /\ (j + 1) - 1 = j BY <1>1, <2>3
  <2>5. NodeAt(p, j + 1) = s \div 2 BY <2>1, <2>4, NodeAtLevel
  <2>6. s \div 2 = n BY <1>5, <1>6
  <2>7. j + 1 = k BY <1>2, <2>4, <2>5, <2>6, NodeAtDistinct
  <2>8. j = k - 1 BY <1>1, <2>7
  <2>9. s = c BY <2>1, <2>8
  <2> QED BY <1>5, <1>6, <2>9
<1> QED BY <1>3, <1>4, <1>6, <1>7, <1>8

-----------------------------------------------------------------------------
(* Hashes along a path and in a tree.                                       *)

\* The loops of verify_page_hash and update_page_hash are well defined.
LEMMA HashesAboveIs ==
  ASSUME NEW p, NEW leaf, NEW hashes, hashes = HashesAbove(p, leaf)
  PROVE  /\ hashes = [k \in 0 .. LeafBits |-> hashes[k]]
         /\ hashes[0] = leaf
         /\ \A k \in 1 .. LeafBits :
              hashes[k] = parent_hash(NodeAt(p, k - 1), hashes[k - 1],
                                      read_hash(sibling_node(NodeAt(p, k - 1))))
<1> DEFINE Up(k, x) == parent_hash(NodeAt(p, k - 1), x, read_hash(sibling_node(NodeAt(p, k - 1))))
           At(f, k) == IF k = 0 THEN leaf ELSE Up(k, f[k - 1])
           Has == {n \in Nat : \E f : f = [k \in 0 .. n |-> At(f, k)]}
<1>1. LeafBits \in Nat BY BaseType
<1>2. 0 \in Has
  <2> DEFINE f == [k \in 0 .. 0 |-> leaf]
  <2>1. f = [k \in 0 .. 0 |-> At(f, k)] OBVIOUS
  <2> HIDE DEF f
  <2> QED BY <2>1
<1>3. ASSUME NEW n \in Nat, n \in Has PROVE n + 1 \in Has
  <2>1. PICK g : g = [k \in 0 .. n |-> At(g, k)] BY <1>3
  <2> HIDE DEF Up
  <2> DEFINE h == [k \in 0 .. n + 1 |-> At(g, k)]
  <2>2. ASSUME NEW k \in 0 .. n + 1 PROVE At(g, k) = At(h, k)
    <3>1. CASE k = 0 BY <3>1
    <3>2. CASE k # 0
      <4>1. k - 1 \in 0 .. n /\ k - 1 \in 0 .. n + 1 BY <3>2
      <4>2. g[k - 1] = At(g, k - 1) BY <2>1, <4>1
      <4>3. h[k - 1] = At(g, k - 1) BY <4>1
      <4> HIDE DEF h
      <4> QED BY <3>2, <4>2, <4>3
    <3> QED BY <3>1, <3>2
  <2>3. h = [k \in 0 .. n + 1 |-> At(h, k)]
    <3> HIDE DEF At
    <3>1. h = [k \in 0 .. n + 1 |-> At(g, k)] OBVIOUS
    <3> HIDE DEF h
    <3> QED BY <2>2, <3>1
  <2> HIDE DEF h
  <2> QED BY <2>3
<1>4. \A n \in Nat : n \in Has
  <2> HIDE DEF Has
  <2> QED BY <1>2, <1>3, SetInduction
<1>5. \E f : f = [k \in 0 .. LeafBits |-> At(f, k)]
  <2>1. LeafBits \in Has BY <1>1, <1>4
  <2> HIDE DEF At
  <2> QED BY <2>1
<1>6. hashes = CHOOSE f : f = [k \in 0 .. LeafBits |-> At(f, k)] BY DEF HashesAbove
<1>7. hashes = [k \in 0 .. LeafBits |-> At(hashes, k)]
  <2> HIDE DEF At
  <2> QED BY <1>5, <1>6
<1>8. hashes[0] = leaf BY <1>1, <1>7
<1>9. \A k \in 1 .. LeafBits : hashes[k] = Up(k, hashes[k - 1])
  <2> HIDE DEF Up
  <2> QED BY <1>1, <1>7
<1> QED BY <1>7, <1>8, <1>9

\* A property of all nodes follows from that of their children.
LEMMA LeavesFirst ==
  ASSUME NEW G,
         \A n \in HashNode : (n < leaf_base => 2 * n \in G /\ 2 * n + 1 \in G) => n \in G
  PROVE  HashNode \subseteq G
<1> DEFINE Bad == {k \in Nat : \E n \in HashNode : k = 2 * leaf_base - n /\ n \notin G}
<1>1. leaf_base \in Nat \ {0} /\ \A n \in HashNode : n \in Nat /\ n >= 1 /\ n < 2 * leaf_base
  BY BaseType DEF HashNode
<1>2. ASSUME Bad # {} PROVE FALSE
  <2>1. PICK k \in Bad : \A j \in Bad : k <= j
    <3>1. Bad \subseteq Nat OBVIOUS
    <3> HIDE DEF Bad
    <3> QED BY <1>2, <3>1, LeastNatural
  <2>2. PICK n \in HashNode : k = 2 * leaf_base - n /\ n \notin G BY <2>1
  <2>3. ASSUME NEW c \in {2 * n, 2 * n + 1}, n < leaf_base PROVE c \in G
    <3>1. n \in Nat /\ n >= 1 /\ c \in Nat /\ c > n /\ c < 2 * leaf_base BY <1>1, <2>3
    <3>2. c \in HashNode BY <1>1, <3>1 DEF HashNode
    <3>3. 2 * leaf_base - c \in Nat /\ ~(k <= 2 * leaf_base - c) BY <1>1, <2>2, <3>1
    <3>4. 2 * leaf_base - c \notin Bad BY <2>1, <3>3
    <3> QED BY <3>2, <3>3, <3>4
  <2>4. n < leaf_base => 2 * n \in G /\ 2 * n + 1 \in G BY <2>3
  <2> QED BY <2>2, <2>4
<1>3. ASSUME NEW n \in HashNode PROVE n \in G
  <2>1. 2 * leaf_base - n \in Nat BY <1>1
  <2> QED BY <1>2, <2>1
<1> QED BY <1>3

\* The hash of node n over the contents of the pages, given the hashes below it.
HashOver(contents, hash, n) ==
  IF n < leaf_base THEN hash_node(n, hash[2 * n], hash[2 * n + 1])
  ELSE IF n - leaf_base \in Page THEN hash_leaf(n - leaf_base, contents[n - leaf_base])
  ELSE hash_empty_leaf(n - leaf_base)

\* The hashes node n may have if the pages have contents among `allow`, given those
\* of the nodes below it; any of them may be torn.
HashesOver(allow, hash, n) ==
  {TornHash} \cup
  IF n < leaf_base
  THEN {hash_node(n, h[1], h[2]) : h \in hash[2 * n] \X hash[2 * n + 1]}
  ELSE IF n - leaf_base \in Page
  THEN {hash_leaf(n - leaf_base, v) : v \in allow[n - leaf_base]}
  ELSE {hash_empty_leaf(n - leaf_base)}

Hashes(allow) ==
  CHOOSE hash : hash = [n \in HashNode |-> HashesOver(allow, hash, n)]

\* rebuild_hashes computes the hash of every node, leaves first.
LEMMA RebuiltIs ==
  ASSUME NEW contents, NEW hash, hash = Rebuilt(contents)
  PROVE  hash = [n \in HashNode |-> HashOver(contents, hash, n)]
<1> DEFINE Low(k) == {n \in HashNode : n >= 2 * leaf_base - k}
           Has == {k \in Nat : \E f : f = [n \in Low(k) |-> HashOver(contents, f, n)]}
<1>1. leaf_base \in Nat \ {0} /\ \A n \in HashNode : n \in Nat /\ n >= 1 /\ n < 2 * leaf_base
  BY BaseType DEF HashNode
<1>2. 0 \in Has
  <2>1. Low(0) = {} BY <1>1
  <2> DEFINE f == [n \in Low(0) |-> 0]
  <2>2. f = [n \in Low(0) |-> HashOver(contents, f, n)] BY <2>1
  <2> HIDE DEF f
  <2> QED BY <2>2
<1>3. ASSUME NEW k \in Nat, k \in Has PROVE k + 1 \in Has
  <2>1. PICK g : g = [n \in Low(k) |-> HashOver(contents, g, n)] BY <1>3
  <2> DEFINE h == [n \in Low(k + 1) |-> HashOver(contents, g, n)]
  <2>2. ASSUME NEW n \in Low(k + 1) PROVE h[n] = HashOver(contents, h, n)
    <3>1. h[n] = HashOver(contents, g, n) OBVIOUS
    <3>2. n \in Nat /\ n >= 1 /\ n >= 2 * leaf_base - (k + 1) BY <1>1
    <3>3. ASSUME NEW c \in {2 * n, 2 * n + 1}, n < leaf_base PROVE h[c] = g[c]
      <4>1. c \in HashNode /\ c >= 2 * leaf_base - k /\ c >= 2 * leaf_base - (k + 1)
        BY <1>1, <3>2, <3>3 DEF HashNode
      <4>2. c \in Low(k) /\ c \in Low(k + 1) BY <4>1
      <4> HIDE DEF Low
      <4>3. g[c] = HashOver(contents, g, c) BY <2>1, <4>2
      <4>4. h[c] = HashOver(contents, g, c) BY <4>2
      <4> QED BY <4>3, <4>4
    <3> HIDE DEF h, Low
    <3> QED BY <3>1, <3>3 DEF HashOver
  <2>3. h = [n \in Low(k + 1) |-> HashOver(contents, h, n)]
    <3> HIDE DEF Low
    <3>1. h = [n \in Low(k + 1) |-> h[n]] OBVIOUS
    <3> HIDE DEF h
    <3> QED BY <2>2, <3>1
  <2> HIDE DEF h, Low
  <2> QED BY <2>3
<1>4. \A k \in Nat : k \in Has
  <2> HIDE DEF Has
  <2> QED BY <1>2, <1>3, SetInduction
<1>5. \E f : f = [n \in HashNode |-> HashOver(contents, f, n)]
  <2>1. 2 * leaf_base \in Has
    <3> HIDE DEF Has
    <3> QED BY <1>1, <1>4
  <2>2. PICK f : f = [n \in Low(2 * leaf_base) |-> HashOver(contents, f, n)] BY <2>1
  <2>3. Low(2 * leaf_base) = HashNode BY <1>1
  <2> HIDE DEF Low
  <2> QED BY <2>2, <2>3
<1>6. hash = CHOOSE f : f = [n \in HashNode |-> HashOver(contents, f, n)]
  BY DEF Rebuilt, HashOver, HashNode
<1> QED BY <1>5, <1>6

\* Hashes is well defined: a node depends on its children, which have larger numbers.
LEMMA HashesIs ==
  ASSUME NEW allow
  PROVE  \A n \in HashNode : Hashes(allow)[n] = HashesOver(allow, Hashes(allow), n)
<1> DEFINE Low(k) == {n \in HashNode : n >= 2 * leaf_base - k}
           Has == {k \in Nat : \E f : f = [n \in Low(k) |-> HashesOver(allow, f, n)]}
<1>1. leaf_base \in Nat \ {0} /\ \A n \in HashNode : n \in Nat /\ n >= 1 /\ n < 2 * leaf_base
  BY BaseType DEF HashNode
<1>2. 0 \in Has
  <2>1. Low(0) = {} BY <1>1
  <2> DEFINE f == [n \in Low(0) |-> 0]
  <2>2. f = [n \in Low(0) |-> HashesOver(allow, f, n)] BY <2>1
  <2> HIDE DEF f
  <2> QED BY <2>2
<1>3. ASSUME NEW k \in Nat, k \in Has PROVE k + 1 \in Has
  <2>1. PICK g : g = [n \in Low(k) |-> HashesOver(allow, g, n)] BY <1>3
  <2> DEFINE h == [n \in Low(k + 1) |-> HashesOver(allow, g, n)]
  <2>2. ASSUME NEW n \in Low(k + 1) PROVE h[n] = HashesOver(allow, h, n)
    <3>1. h[n] = HashesOver(allow, g, n) OBVIOUS
    <3>2. n \in Nat /\ n >= 1 /\ n >= 2 * leaf_base - (k + 1) BY <1>1
    <3>3. ASSUME NEW c \in {2 * n, 2 * n + 1}, n < leaf_base PROVE h[c] = g[c]
      <4>1. c \in HashNode /\ c >= 2 * leaf_base - k /\ c >= 2 * leaf_base - (k + 1)
        BY <1>1, <3>2, <3>3 DEF HashNode
      <4>2. c \in Low(k) /\ c \in Low(k + 1) BY <4>1
      <4> HIDE DEF Low
      <4>3. g[c] = HashesOver(allow, g, c) BY <2>1, <4>2
      <4>4. h[c] = HashesOver(allow, g, c) BY <4>2
      <4> QED BY <4>3, <4>4
    <3>4. n < leaf_base => h[2 * n] = g[2 * n] /\ h[2 * n + 1] = g[2 * n + 1] BY <3>3
    <3> HIDE DEF h, Low
    <3> QED BY <3>1, <3>4 DEF HashesOver
  <2>3. h = [n \in Low(k + 1) |-> HashesOver(allow, h, n)]
    <3> HIDE DEF Low
    <3>1. h = [n \in Low(k + 1) |-> h[n]] OBVIOUS
    <3> HIDE DEF h
    <3> QED BY <2>2, <3>1
  <2> HIDE DEF h, Low
  <2> QED BY <2>3
<1>4. \A k \in Nat : k \in Has
  <2> HIDE DEF Has
  <2> QED BY <1>2, <1>3, SetInduction
<1>5. \E f : f = [n \in HashNode |-> HashesOver(allow, f, n)]
  <2>1. 2 * leaf_base \in Has
    <3> HIDE DEF Has
    <3> QED BY <1>1, <1>4
  <2>2. PICK f : f = [n \in Low(2 * leaf_base) |-> HashesOver(allow, f, n)] BY <2>1
  <2>3. Low(2 * leaf_base) = HashNode BY <1>1
  <2> HIDE DEF Low
  <2> QED BY <2>2, <2>3
<1> DEFINE hash == Hashes(allow)
<1>6. hash = [n \in HashNode |-> HashesOver(allow, hash, n)] BY <1>5 DEF Hashes
<1> HIDE DEF hash
<1>7. \A n \in HashNode : hash[n] = HashesOver(allow, hash, n) BY <1>6
<1> QED BY <1>7 DEF hash

\* More contents allow more hashes, in a part of the tree with all that is below it.
LEMMA HashesGrow ==
  ASSUME NEW a, NEW b, NEW G, G \subseteq HashNode,
         \A n \in G : n < leaf_base => 2 * n \in G /\ 2 * n + 1 \in G,
         \A q \in Page : leaf_base + q \in G => a[q] \subseteq b[q]
  PROVE  \A n \in G : Hashes(a)[n] \subseteq Hashes(b)[n]
<1> DEFINE x == Hashes(a)
           y == Hashes(b)
           Fine == {n \in HashNode : n \in G => x[n] \subseteq y[n]}
<1>1. \A n \in HashNode : x[n] = HashesOver(a, x, n) BY HashesIs
<1>2. \A n \in HashNode : y[n] = HashesOver(b, y, n) BY HashesIs
<1>3. leaf_base \in Nat /\ HashNode \subseteq Nat BY BaseType DEF HashNode
<1> HIDE DEF x, y
<1>4. ASSUME NEW n \in HashNode, n < leaf_base => 2 * n \in Fine /\ 2 * n + 1 \in Fine, n \in G
      PROVE  x[n] \subseteq y[n]
  <2>1. x[n] = HashesOver(a, x, n) /\ y[n] = HashesOver(b, y, n) BY <1>1, <1>2
  <2>2. CASE n < leaf_base
    <3>1. x[2 * n] \subseteq y[2 * n] /\ x[2 * n + 1] \subseteq y[2 * n + 1] BY <1>4, <2>2
    <3> QED BY <2>1, <2>2, <3>1 DEF HashesOver
  <2>3. CASE ~(n < leaf_base) /\ n - leaf_base \in Page
    <3>1. leaf_base + (n - leaf_base) = n BY <1>3
    <3>2. a[n - leaf_base] \subseteq b[n - leaf_base] BY <1>4, <2>3, <3>1
    <3> QED BY <2>1, <2>3, <3>2 DEF HashesOver
  <2>4. CASE ~(n < leaf_base) /\ n - leaf_base \notin Page BY <2>1, <2>4 DEF HashesOver
  <2> QED BY <2>2, <2>3, <2>4
<1>5. HashNode \subseteq Fine
  <2>1. \A n \in HashNode : (n < leaf_base => 2 * n \in Fine /\ 2 * n + 1 \in Fine) => n \in Fine
    BY <1>4
  <2> HIDE DEF Fine
  <2> QED BY <2>1, LeavesFirst
<1> QED BY <1>5 DEF x, y

\* The children of an inner node are nodes.
LEMMA ChildNodes ==
  ASSUME NEW n \in HashNode, n < leaf_base
  PROVE  2 * n \in HashNode /\ 2 * n + 1 \in HashNode
BY BaseType DEF HashNode

\* The leaf of a page is a node.
LEMMA LeafNode ==
  ASSUME NEW p \in Page
  PROVE  leaf_base + p \in HashNode /\ leaf_base + p \in Above(p)
<1>1. leaf_base \in Nat \ {0} /\ LeafBits \in Nat /\ p \in Nat /\ p < leaf_base
  BY BaseType, PageType
<1>2. 0 \in 0 .. LeafBits BY <1>1
<1>3. NodeAt(p, 0) = leaf_base + p BY <1>2, NodeAtLevel
<1> QED BY <1>1, <1>2, <1>3 DEF HashNode, Above

\* What a leaf may hold.
LEMMA LeafHashes ==
  ASSUME NEW p \in Page, NEW allow, NEW hash
  PROVE  HashesOver(allow, hash, leaf_base + p) = {TornHash} \cup {hash_leaf(p, v) : v \in allow[p]}
<1> DEFINE n == leaf_base + p
<1>1. n - leaf_base = p /\ ~(n < leaf_base) BY BaseType, PageType
<1>2. n - leaf_base \in Page BY <1>1
<1> HIDE DEF n
<1>3. HashesOver(allow, hash, n) = {TornHash} \cup {hash_leaf(p, v) : v \in allow[p]}
  BY <1>1, <1>2 DEF HashesOver
<1> QED BY <1>3 DEF n

\* Allowing more contents allows more hashes.
LEMMA HashesMonotone ==
  ASSUME NEW a, NEW b, \A q \in Page : a[q] \subseteq b[q]
  PROVE  \A n \in HashNode : Hashes(a)[n] \subseteq Hashes(b)[n]
BY HashesGrow, ChildNodes

\* The contents of a page matter to the nodes above it only.
LEMMA HashesOffPath ==
  ASSUME NEW p \in Page, NEW a, NEW b, \A q \in Page : q # p => a[q] = b[q]
  PROVE  \A n \in HashNode : n \notin Above(p) => Hashes(a)[n] = Hashes(b)[n]
<1> DEFINE G == HashNode \ Above(p)
<1>1. \A n \in G : n < leaf_base => 2 * n \in G /\ 2 * n + 1 \in G BY ChildNodes, AboveIsClosed
<1>2. \A q \in Page : leaf_base + q \in G => q # p BY LeafNode
<1>3. G \subseteq HashNode OBVIOUS
<1>4. ASSUME NEW x, NEW y, \A q \in Page : q # p => x[q] = y[q]
      PROVE  \A n \in G : Hashes(x)[n] \subseteq Hashes(y)[n]
  <2>1. \A q \in Page : leaf_base + q \in G => x[q] \subseteq y[q] BY <1>2, <1>4
  <2> HIDE DEF G
  <2> QED BY <1>1, <1>3, <2>1, HashesGrow
<1>5. \A n \in G : Hashes(a)[n] \subseteq Hashes(b)[n] BY <1>4
<1>6. \A n \in G : Hashes(b)[n] \subseteq Hashes(a)[n] BY <1>4
<1>7. ASSUME NEW n \in HashNode, n \notin Above(p) PROVE Hashes(a)[n] = Hashes(b)[n]
  <2>1. Hashes(a)[n] \subseteq Hashes(b)[n] BY <1>5, <1>7
  <2>2. Hashes(b)[n] \subseteq Hashes(a)[n] BY <1>6, <1>7
  <2> QED BY <2>1, <2>2
<1> QED BY <1>7

\* All hashes of the tree are of contents among `allow`.
Within(stored, allow) == \A n \in HashNode : stored[n] \in Hashes(allow)[n]

\* The hashes above a page, computed from a leaf hash and the siblings of `stored`.
PathHashes(p, leaf, stored, hashes) ==
  /\ hashes[0] = leaf
  /\ \A k \in 1 .. LeafBits :
       hashes[k] = parent_hash(NodeAt(p, k - 1), hashes[k - 1],
                               stored[sibling_node(NodeAt(p, k - 1))])

\* A write folds allowed siblings into the hashes above its page.
LEMMA PathHashesWithin ==
  ASSUME NEW p \in Page, NEW a, NEW b, \A q \in Page : q # p => a[q] = b[q],
         NEW stored, Within(stored, a), NEW v \in b[p],
         NEW hashes, PathHashes(p, hash_leaf(p, v), stored, hashes)
  PROVE  \A k \in 0 .. LeafBits : hashes[k] \in Hashes(b)[NodeAt(p, k)]
<1> DEFINE G == {k \in Nat : hashes[k] \in Hashes(b)[NodeAt(p, k)]}
           y == Hashes(b)
<1>1. LeafBits \in Nat BY BaseType
<1>2. \A n \in HashNode : y[n] = HashesOver(b, y, n) BY HashesIs
<1>3. \A n \in HashNode : n \notin Above(p) => stored[n] \in y[n] BY HashesOffPath DEF Within
<1> HIDE DEF y
<1>4. hashes[0] \in y[NodeAt(p, 0)]
  <2>1. 0 \in 0 .. LeafBits BY <1>1
  <2>2. NodeAt(p, 0) = leaf_base + p BY <2>1, NodeAtLevel
  <2>3. y[leaf_base + p] = HashesOver(b, y, leaf_base + p) BY <1>2, LeafNode
  <2>4. hash_leaf(p, v) \in HashesOver(b, y, leaf_base + p) BY LeafHashes
  <2> QED BY <2>2, <2>3, <2>4 DEF PathHashes
<1>5. ASSUME NEW k \in 1 .. LeafBits, hashes[k - 1] \in y[NodeAt(p, k - 1)]
      PROVE  hashes[k] \in y[NodeAt(p, k)]
  <2> DEFINE n == NodeAt(p, k)
             c == NodeAt(p, k - 1)
             s == sibling_node(c)
  <2>1. /\ n \in HashNode /\ n < leaf_base
        /\ c \in HashNode /\ s \in HashNode
        /\ s \notin Above(p)
        /\ c \div 2 = n
        /\ \/ is_left_child(c) /\ c = 2 * n /\ s = 2 * n + 1
           \/ ~is_left_child(c) /\ c = 2 * n + 1 /\ s = 2 * n
    BY PathChildren
  <2>2. hashes[k] = parent_hash(c, hashes[k - 1], stored[s]) BY DEF PathHashes
  <2>3. hashes[k - 1] \in y[c] /\ stored[s] \in y[s] BY <1>3, <1>5, <2>1
  <2> HIDE DEF n, c, s
  <2>4. ASSUME NEW l \in y[2 * n], NEW r \in y[2 * n + 1]
        PROVE  hash_node(n, l, r) \in y[n]
    <3> DEFINE h == <<l, r>>
    <3>1. h \in y[2 * n] \X y[2 * n + 1] /\ h[1] = l /\ h[2] = r OBVIOUS
    <3>2. y[n] = HashesOver(b, y, n) BY <1>2, <2>1
    <3> HIDE DEF h
    <3> QED BY <2>1, <3>1, <3>2 DEF HashesOver
  <2>5. hashes[k] \in y[n] BY <2>1, <2>2, <2>3, <2>4 DEF parent_hash
  <2> QED BY <2>5 DEF n
<1>6. \A k \in 0 .. LeafBits : k \in G
  <2>1. 0 \in G BY <1>4 DEF y
  <2>2. \A k \in 1 .. LeafBits : k - 1 \in G => k \in G BY <1>1, <1>5 DEF y
  <2> HIDE DEF G
  <2> QED BY <1>1, <2>1, <2>2, BoundedInduction
<1> QED BY <1>6

\* A write that stores the new hashes of some nodes above its page, and may tear one,
\* keeps the tree within the contents allowed after it.
LEMMA WithinAfterWrite ==
  ASSUME NEW p \in Page, NEW a, NEW b, \A q \in Page : q # p => a[q] = b[q],
         NEW stored, Within(stored, a), NEW v \in b[p],
         NEW hashes, PathHashes(p, hash_leaf(p, v), stored, hashes),
         NEW after,
         \A n \in HashNode : n \notin Above(p) => after[n] = stored[n],
         \A k \in 0 .. LeafBits :
           \/ after[NodeAt(p, k)] \in {hashes[k], TornHash}
           \/ a[p] \subseteq b[p] /\ after[NodeAt(p, k)] = stored[NodeAt(p, k)]
  PROVE  Within(after, b)
<1>1. ASSUME NEW n \in HashNode, n \notin Above(p) PROVE after[n] \in Hashes(b)[n]
  BY <1>1, HashesOffPath DEF Within
<1>2. ASSUME NEW k \in 0 .. LeafBits PROVE after[NodeAt(p, k)] \in Hashes(b)[NodeAt(p, k)]
  <2>1. NodeAt(p, k) \in HashNode BY NodeAtEnds
  <2>2. CASE after[NodeAt(p, k)] = hashes[k] BY <2>2, PathHashesWithin
  <2>3. CASE after[NodeAt(p, k)] = TornHash
    <3>1. Hashes(b)[NodeAt(p, k)] = HashesOver(b, Hashes(b), NodeAt(p, k)) BY <2>1, HashesIs
    <3>2. TornHash \in HashesOver(b, Hashes(b), NodeAt(p, k)) BY DEF HashesOver
    <3> QED BY <2>3, <3>1, <3>2
  <2>4. CASE a[p] \subseteq b[p] /\ after[NodeAt(p, k)] = stored[NodeAt(p, k)]
    <3>1. \A q \in Page : a[q] \subseteq b[q] BY <2>4
    <3>2. Hashes(a)[NodeAt(p, k)] \subseteq Hashes(b)[NodeAt(p, k)] BY <2>1, <3>1, HashesMonotone
    <3> QED BY <2>1, <2>4, <3>2 DEF Within
  <2> QED BY <2>2, <2>3, <2>4
<1> QED BY <1>1, <1>2 DEF Within, Above

\* A page whose hashes lead to a hash of the tree has contents the tree allows.
LEMMA AcceptedIsAllowed ==
  ASSUME NEW p \in Page, NEW a, NEW stored, NEW v,
         NEW hashes, PathHashes(p, hash_leaf(p, v), stored, hashes),
         NEW f \in 0 .. LeafBits, hashes[f] \in Hashes(a)[NodeAt(p, f)]
  PROVE  v \in a[p]
<1> DEFINE y == Hashes(a)
           G == {j \in Nat : hashes[f - j] \in y[NodeAt(p, f - j)]}
<1>1. LeafBits \in Nat /\ f \in Nat BY BaseType
<1>2. \A n \in HashNode : y[n] = HashesOver(a, y, n) BY HashesIs
<1>3. hashes[f] \in y[NodeAt(p, f)] OBVIOUS
<1> HIDE DEF y
<1>4. ASSUME NEW k \in 1 .. LeafBits, hashes[k] \in y[NodeAt(p, k)]
      PROVE  hashes[k - 1] \in y[NodeAt(p, k - 1)]
  <2> DEFINE n == NodeAt(p, k)
             c == NodeAt(p, k - 1)
             s == sibling_node(c)
  <2>1. /\ n \in HashNode /\ n < leaf_base
        /\ c \in HashNode /\ s \in HashNode
        /\ s \notin Above(p)
        /\ c \div 2 = n
        /\ \/ is_left_child(c) /\ c = 2 * n /\ s = 2 * n + 1
           \/ ~is_left_child(c) /\ c = 2 * n + 1 /\ s = 2 * n
    BY PathChildren
  <2>2. hashes[k] = parent_hash(c, hashes[k - 1], stored[s]) BY DEF PathHashes
  <2>3. hashes[k] \in HashesOver(a, y, n) BY <1>2, <1>4, <2>1
  <2> HIDE DEF n, c, s
  <2>4. ASSUME NEW l, NEW r, hashes[k] = hash_node(n, l, r)
        PROVE  l \in y[2 * n] /\ r \in y[2 * n + 1]
    <3>1. hash_node(n, l, r) # TornHash BY DEF hash_node, TornHash
    <3>2. hash_node(n, l, r) \in {hash_node(n, h[1], h[2]) : h \in y[2 * n] \X y[2 * n + 1]}
      BY <2>1, <2>3, <2>4, <3>1 DEF HashesOver
    <3>3. PICK h \in y[2 * n] \X y[2 * n + 1] : hash_node(n, l, r) = hash_node(n, h[1], h[2])
      BY <3>2
    <3>4. l = h[1] /\ r = h[2] BY <3>3 DEF hash_node
    <3> QED BY <3>3, <3>4
  <2>5. hashes[k - 1] \in y[c] BY <2>1, <2>2, <2>4 DEF parent_hash
  <2> QED BY <2>5 DEF c
<1>5. 0 \in G BY <1>1, <1>3
<1>6. ASSUME NEW j \in 1 .. f, j - 1 \in G PROVE j \in G
  <2>1. f - (j - 1) \in 1 .. LeafBits /\ (f - (j - 1)) - 1 = f - j /\ j \in Nat BY <1>1
  <2>2. hashes[f - (j - 1)] \in y[NodeAt(p, f - (j - 1))] BY <1>6
  <2>3. hashes[f - j] \in y[NodeAt(p, f - j)] BY <1>4, <2>1, <2>2
  <2> QED BY <2>1, <2>3
<1>7. \A j \in 0 .. f : j \in G
  <2> HIDE DEF G
  <2> QED BY <1>1, <1>5, <1>6, BoundedInduction
<1>8. hashes[0] \in y[NodeAt(p, 0)]
  <2>1. f \in 0 .. f /\ f - f = 0 BY <1>1
  <2>2. f \in G BY <1>7, <2>1
  <2> QED BY <2>1, <2>2
<1>9. hash_leaf(p, v) \in HashesOver(a, y, leaf_base + p)
  <2>1. 0 \in 0 .. LeafBits BY <1>1
  <2>2. NodeAt(p, 0) = leaf_base + p BY <2>1, NodeAtLevel
  <2> QED BY <1>2, <1>8, <2>2, LeafNode DEF PathHashes
<1>10. hash_leaf(p, v) # TornHash BY DEF hash_leaf, TornHash
<1>11. hash_leaf(p, v) \in {hash_leaf(p, u) : u \in a[p]} BY <1>9, <1>10, LeafHashes
<1>12. PICK u \in a[p] : hash_leaf(p, v) = hash_leaf(p, u) BY <1>11
<1> QED BY <1>12 DEF hash_leaf

-----------------------------------------------------------------------------
(* The hashes a store holds, in memory and on disk.                         *)

Stored == [n \in HashNode |-> read_hash(n)]

SavedHashes ==
  [n \in HashNode |-> IF n < trusted_node_limit THEN saved.trusted[n] ELSE saved.disk[n]]

\* trusted_node_limit parts the nodes into trusted ones, the root among them, and
\* ones on disk, of which there are none if every level is trusted.
LEMMA LimitParts ==
  ASSUME trusted_levels \in TrustedLevels
  PROVE  /\ trusted_node_limit \in Nat /\ 1 < trusted_node_limit
         /\ \A n \in HashNode : n < trusted_node_limit => n \in TrustedNode
         /\ \A n \in HashNode : ~(n < trusted_node_limit) => n \in DiskNode
         /\ trusted_levels = LeafBits + 1 => DiskNode = {}
<1>1. leaf_base \in Nat \ {0} /\ LeafBits \in Nat BY BaseType
<1>2. trusted_levels \in Nat /\ 1 <= trusted_levels BY <1>1, MerkleAssumption
<1>3. trusted_node_limit \in Nat /\ 1 < trusted_node_limit
  <2>1. 0 + 1 = 1 /\ 1 \in Nat /\ 0 \in Nat OBVIOUS
  <2>2. Pow2[1] = 2 BY <2>1, Pow2Def
  <2>3. Pow2[1] <= Pow2[trusted_levels] BY <1>2, <2>1, Pow2Monotone
  <2>4. Pow2[trusted_levels] \in Nat BY <1>2, Pow2Positive
  <2> QED BY <2>2, <2>3, <2>4 DEF trusted_node_limit
<1>4. ASSUME NEW n \in HashNode PROVE n \in Nat /\ 1 <= n /\ n <= 2 * leaf_base - 1
  BY <1>1 DEF HashNode
<1>5. ASSUME NEW n \in HashNode, n < trusted_node_limit PROVE n \in TrustedNode
  BY <1>3, <1>4, <1>5 DEF TrustedNode
<1>6. ASSUME NEW n \in HashNode, ~(n < trusted_node_limit) PROVE n \in DiskNode
  BY <1>1, <1>3, <1>4, <1>6 DEF DiskNode
<1>7. ASSUME trusted_levels = LeafBits + 1 PROVE DiskNode = {}
  <2>1. trusted_node_limit = 2 * leaf_base
    BY <1>1, <1>7, Pow2Def DEF trusted_node_limit, leaf_base
  <2> QED BY <1>1, <2>1 DEF DiskNode
<1> QED BY <1>3, <1>5, <1>6, <1>7

\* verify_page_hash meets a trusted node, at the latest the root.
LEMMA FrontierType ==
  ASSUME trusted_levels \in TrustedLevels, NEW p \in Page
  PROVE  Frontier(p) \in 0 .. LeafBits /\ NodeAt(p, Frontier(p)) < trusted_node_limit
<1> DEFINE S == {k \in 0 .. LeafBits : NodeAt(p, k) < trusted_node_limit}
<1>1. LeafBits \in Nat BY BaseType
<1>2. LeafBits \in S
  <2>1. LeafBits \in 0 .. LeafBits BY <1>1
  <2>2. NodeAt(p, LeafBits) = 1 BY NodeAtEnds
  <2> QED BY <2>1, <2>2, LimitParts
<1>3. S \subseteq Nat BY <1>1
<1>4. PICK x \in S : \A y \in S : x <= y
  <2> HIDE DEF S
  <2> QED BY <1>2, <1>3, LeastNatural
<1>5. Min(S) \in S
  <2> HIDE DEF S
  <2> QED BY <1>4 DEF Min
<1> QED BY <1>5 DEF Frontier

\* The hashes above a page are computed from the hashes stored.
LEMMA HashesAboveAre ==
  ASSUME NEW p \in Page, NEW leaf
  PROVE  PathHashes(p, leaf, Stored, HashesAbove(p, leaf))
<1> DEFINE hashes == HashesAbove(p, leaf)
<1>1. hashes[0] = leaf BY HashesAboveIs
<1>2. ASSUME NEW k \in 1 .. LeafBits
      PROVE  hashes[k] = parent_hash(NodeAt(p, k - 1), hashes[k - 1],
                                     Stored[sibling_node(NodeAt(p, k - 1))])
  <2>1. hashes[k] = parent_hash(NodeAt(p, k - 1), hashes[k - 1],
                                read_hash(sibling_node(NodeAt(p, k - 1))))
    BY HashesAboveIs
  <2> HIDE DEF hashes
  <2>2. sibling_node(NodeAt(p, k - 1)) \in HashNode BY PathChildren
  <2>3. Stored[sibling_node(NodeAt(p, k - 1))] = read_hash(sibling_node(NodeAt(p, k - 1)))
    BY <2>2 DEF Stored
  <2> QED BY <2>1, <2>3
<1> HIDE DEF hashes
<1>3. PathHashes(p, leaf, Stored, hashes) BY <1>1, <1>2 DEF PathHashes
<1> QED BY <1>3 DEF hashes

\* The least element of a singleton.
LEMMA LeastOfOne == ASSUME NEW k \in Nat PROVE Min({k}) = k
BY DEF Min

\* StoreHashes writes the n lowest nodes above the page and no others.
LEMMA StoredAfter ==
  ASSUME trusted_levels \in TrustedLevels, trusted_levels' = trusted_levels,
         NEW p \in Page, NEW h, NEW n \in 0 .. LeafBits + 1, StoreHashes(p, h, n)
  PROVE  /\ \A m \in HashNode : m \notin Above(p) => Stored'[m] = Stored[m]
         /\ \A k \in 0 .. LeafBits :
              Stored'[NodeAt(p, k)] = IF k < n THEN h[k] ELSE Stored[NodeAt(p, k)]
<1> DEFINE done(m) == {k \in 0 .. n - 1 : k <= UpdateTop(p) /\ NodeAt(p, k) = m}
<1>1. LeafBits \in Nat /\ n \in Nat BY BaseType
<1>2. trusted_node_limit' = trusted_node_limit BY DEF trusted_node_limit
<1>3. ASSUME NEW m \in HashNode
      PROVE  Stored'[m] = IF done(m) = {} THEN Stored[m] ELSE h[Min(done(m))]
  <2>1. Stored'[m] = IF m < trusted_node_limit THEN trusted'[m] ELSE disk'[m]
    BY <1>2 DEF Stored, read_hash
  <2>2. Stored[m] = IF m < trusted_node_limit THEN trusted[m] ELSE disk[m]
    BY DEF Stored, read_hash
  <2>3. CASE m < trusted_node_limit
    <3>1. m \in TrustedNode BY <2>3, LimitParts
    <3>2. trusted'[m] = IF done(m) = {} THEN trusted[m] ELSE h[Min(done(m))]
      BY <3>1 DEF StoreHashes
    <3> QED BY <2>1, <2>2, <2>3, <3>2
  <2>4. CASE ~(m < trusted_node_limit)
    <3>1. m \in DiskNode BY <2>4, LimitParts
    <3>2. disk'[m] = IF done(m) = {} THEN disk[m] ELSE h[Min(done(m))]
      BY <3>1 DEF StoreHashes
    <3> QED BY <2>1, <2>2, <2>4, <3>2
  <2> QED BY <2>3, <2>4
<1>4. ASSUME NEW m \in HashNode, m \notin Above(p) PROVE Stored'[m] = Stored[m]
  <2>1. done(m) = {} BY <1>1, <1>4 DEF Above, UpdateTop
  <2> HIDE DEF done
  <2> QED BY <1>3, <2>1
<1>5. ASSUME NEW k \in 0 .. LeafBits
      PROVE  Stored'[NodeAt(p, k)] = IF k < n THEN h[k] ELSE Stored[NodeAt(p, k)]
  <2>1. NodeAt(p, k) \in HashNode BY NodeAtEnds
  <2>2. \A j \in done(NodeAt(p, k)) : j = k
    <3> SUFFICES ASSUME NEW j \in done(NodeAt(p, k)) PROVE j = k OBVIOUS
    <3>1. j \in 0 .. LeafBits /\ NodeAt(p, j) = NodeAt(p, k) BY <1>1 DEF UpdateTop
    <3> QED BY <3>1, NodeAtDistinct
  <2>3. CASE k < n
    <3>1. k \in done(NodeAt(p, k)) BY <1>1, <2>3 DEF UpdateTop
    <3>2. done(NodeAt(p, k)) = {k} BY <2>2, <3>1
    <3>3. k \in Nat BY <1>1
    <3> HIDE DEF done
    <3> QED BY <1>3, <2>1, <2>3, <3>2, <3>3, LeastOfOne
  <2>4. CASE ~(k < n)
    <3>1. k \notin done(NodeAt(p, k)) BY <1>1, <2>4
    <3>2. done(NodeAt(p, k)) = {} BY <2>2, <3>1
    <3> HIDE DEF done
    <3> QED BY <1>3, <2>1, <2>4, <3>2
  <2> QED BY <2>3, <2>4
<1> QED BY <1>4, <1>5

-----------------------------------------------------------------------------
(* The inductive invariant of the hash tree.                                *)

AnyContents == [p \in Page |-> Values \cup {Blank}]

\* No page of the set is below node n.
Clear(n, pages) == \A p \in pages : n \notin Above(p)

MerkleTypes ==
  /\ trusted_levels \in TrustedLevels
  /\ faults \in Nat
  /\ since \subseteq Page
  /\ DOMAIN data = Page
  /\ DOMAIN allowed = Page
  /\ \A p \in Page : p \notin since => allowed[p] = saved.allowed[p]
  /\ Within(Stored, AnyContents)
  /\ Within(SavedHashes, AnyContents)

\* Every hash, in memory and on disk, now and at the last save, is one of contents
\* that reads of that moment may return.
SoundHashes == Within(Stored, allowed) /\ Within(SavedHashes, saved.allowed)

\* Every page holds contents that a read may return, or is torn.
SoundPages ==
  \A p \in Page :
    /\ data[p] \in allowed[p] \cup {Torn}
    /\ saved.data[p] \in saved.allowed[p] \cup {Torn}
    /\ p \notin since => data[p] = saved.data[p]

\* A node without pending pages below it has the hash of the hashes or the page
\* below it, now and at the last save; what is without pages written since is
\* as it was then.
LinkedHashes ==
  /\ \A n \in HashNode : Clear(n, pending) => Stored[n] = HashOver(data, Stored, n)
  /\ \A n \in HashNode :
       Clear(n, saved.pending) => SavedHashes[n] = HashOver(saved.data, SavedHashes, n)
  /\ \A n \in DiskNode : Clear(n, since) => disk[n] = saved.disk[n]
  /\ \A p \in Page : p \notin since => data[p] = saved.data[p]

MerkleInv ==
  /\ MerkleTypes
  /\ faults = 0 => LinkedHashes /\ SoundHashes /\ SoundPages
  /\ faults = 1 => SoundHashes \/ SoundPages
  /\ trusted_levels = LeafBits + 1 => SoundHashes

\* A page that verifies has allowed contents if hashes or pages are sound.
LEMMA AcceptsSound ==
  ASSUME MerkleTypes, SoundHashes \/ SoundPages, NEW p \in Page, Accepts(p)
  PROVE  data[p] \in allowed[p]
<1> DEFINE hashes == HashesAbove(p, hash_leaf(p, data[p]))
           f == Frontier(p)
<1>1. PathHashes(p, hash_leaf(p, data[p]), Stored, hashes) BY HashesAboveAre
<1>2. f \in 0 .. LeafBits /\ NodeAt(p, f) < trusted_node_limit BY FrontierType DEF MerkleTypes
<1>3. NodeAt(p, f) \in HashNode BY <1>2, NodeAtEnds
<1>4. hashes[f] = Stored[NodeAt(p, f)]
  BY <1>2, <1>3 DEF Accepts, verify_page_hash, Stored, read_hash
<1>5. PICK v, st, hs, g, a : /\ v = data[p] /\ st = Stored /\ hs = hashes /\ g = f /\ a = allowed
  OBVIOUS
<1>6. ASSUME NEW c, Within(st, c) PROVE v \in c[p]
  <2>1. hs[g] \in Hashes(c)[NodeAt(p, g)] BY <1>3, <1>4, <1>5, <1>6 DEF Within
  <2> HIDE DEF hashes, f
  <2>2. PathHashes(p, hash_leaf(p, v), st, hs) /\ g \in 0 .. LeafBits BY <1>1, <1>2, <1>5
  <2> QED BY <2>1, <2>2, AcceptedIsAllowed
<1> HIDE DEF hashes, f
<1>7. CASE SoundHashes BY <1>5, <1>6, <1>7 DEF SoundHashes
<1>8. CASE SoundPages
  <2>1. v \in AnyContents[p] BY <1>5, <1>6 DEF MerkleTypes
  <2>2. v # Torn BY <2>1, MerkleAssumption DEF AnyContents
  <2> QED BY <1>5, <1>8, <2>2 DEF SoundPages
<1> QED BY <1>7, <1>8

\* With sound hashes or sound pages no read returns an older page.
LEMMA MerkleInvNoStale ==
  ASSUME MerkleInv, faults <= 1 \/ trusted_levels = LeafBits + 1
  PROVE  NoStalePages
<1>1. SoundHashes \/ SoundPages BY DEF MerkleInv, MerkleTypes
<1> QED BY <1>1, AcceptsSound DEF NoStalePages, MerkleInv

\* Where every node is linked, the hashes above a page are those stored.
LEMMA LinkedAccepts ==
  ASSUME trusted_levels \in TrustedLevels,
         \A n \in HashNode : Stored[n] = HashOver(data, Stored, n),
         NEW p \in Page
  PROVE  Accepts(p)
<1> DEFINE hashes == HashesAbove(p, hash_leaf(p, data[p]))
           G == {k \in Nat : hashes[k] = Stored[NodeAt(p, k)]}
<1>1. PathHashes(p, hash_leaf(p, data[p]), Stored, hashes) BY HashesAboveAre
<1>2. LeafBits \in Nat BY BaseType
<1> HIDE DEF hashes
<1>3. 0 \in G
  <2>1. 0 \in 0 .. LeafBits BY <1>2
  <2> DEFINE n == leaf_base + p
  <2>2. NodeAt(p, 0) = n /\ n \in HashNode BY <2>1, NodeAtLevel, LeafNode
  <2>3. n - leaf_base = p /\ ~(n < leaf_base) BY BaseType, PageType
  <2> HIDE DEF n
  <2>4. Stored[n] = hash_leaf(p, data[p]) BY <2>2, <2>3 DEF HashOver
  <2> QED BY <1>1, <2>2, <2>4 DEF PathHashes
<1>4. ASSUME NEW k \in 1 .. LeafBits, k - 1 \in G PROVE k \in G
  <2> DEFINE n == NodeAt(p, k)
             c == NodeAt(p, k - 1)
             s == sibling_node(c)
  <2>1. /\ n \in HashNode /\ n < leaf_base
        /\ c \div 2 = n
        /\ \/ is_left_child(c) /\ c = 2 * n /\ s = 2 * n + 1
           \/ ~is_left_child(c) /\ c = 2 * n + 1 /\ s = 2 * n
    BY PathChildren
  <2>2. hashes[k] = parent_hash(c, hashes[k - 1], Stored[s]) BY <1>1 DEF PathHashes
  <2>3. hashes[k - 1] = Stored[c] BY <1>4
  <2>4. k \in Nat BY <1>2
  <2> HIDE DEF n, c, s
  <2>5. Stored[n] = hash_node(n, Stored[2 * n], Stored[2 * n + 1]) BY <2>1 DEF HashOver
  <2>6. hashes[k] = Stored[n] BY <2>1, <2>2, <2>3, <2>5 DEF parent_hash
  <2> QED BY <2>4, <2>6 DEF n
<1>5. \A k \in 0 .. LeafBits : k \in G
  <2> HIDE DEF G
  <2> QED BY <1>2, <1>3, <1>4, BoundedInduction
<1> DEFINE f == Frontier(p)
<1>6. f \in 0 .. LeafBits /\ NodeAt(p, f) < trusted_node_limit BY FrontierType
<1>7. NodeAt(p, f) \in HashNode BY <1>6, NodeAtEnds
<1>8. hashes[f] = trusted[NodeAt(p, f)] BY <1>5, <1>6, <1>7 DEF Stored, read_hash
<1> QED BY <1>8 DEF hashes, Accepts, verify_page_hash

\* Without pending writes every node is linked, and every read verifies.
LEMMA MerkleInvHeals == MerkleInv => RewritingHeals
<1> SUFFICES ASSUME MerkleInv, pending = {}, faults = 0, NEW p \in Page PROVE Accepts(p)
  BY DEF RewritingHeals
<1>1. \A n \in HashNode : Clear(n, pending) BY DEF Clear
<1>2. \A n \in HashNode : Stored[n] = HashOver(data, Stored, n)
  BY <1>1 DEF MerkleInv, LinkedHashes
<1> QED BY <1>2, LinkedAccepts DEF MerkleInv, MerkleTypes

\* A tree of hashes built over allowed contents is within them.
LEMMA RebuiltWithin ==
  ASSUME NEW contents, NEW a, \A p \in Page : contents[p] \in a[p]
  PROVE  Within(Rebuilt(contents), a)
<1> DEFINE hash == Rebuilt(contents)
           y == Hashes(a)
           Fine == {n \in HashNode : hash[n] \in y[n]}
<1>1. \A n \in HashNode : hash[n] = HashOver(contents, hash, n)
  <2>1. hash = [n \in HashNode |-> HashOver(contents, hash, n)] BY RebuiltIs
  <2> HIDE DEF hash
  <2> QED BY <2>1
<1>2. \A n \in HashNode : y[n] = HashesOver(a, y, n) BY HashesIs
<1> HIDE DEF hash, y
<1>3. ASSUME NEW n \in HashNode, n < leaf_base => 2 * n \in Fine /\ 2 * n + 1 \in Fine
      PROVE  hash[n] \in y[n]
  <2>1. hash[n] = HashOver(contents, hash, n) /\ y[n] = HashesOver(a, y, n) BY <1>1, <1>2
  <2>2. CASE n < leaf_base
    <3> DEFINE h == <<hash[2 * n], hash[2 * n + 1]>>
    <3>1. h \in y[2 * n] \X y[2 * n + 1] /\ h[1] = hash[2 * n] /\ h[2] = hash[2 * n + 1]
      BY <1>3, <2>2
    <3> HIDE DEF h
    <3> QED BY <2>1, <2>2, <3>1 DEF HashOver, HashesOver
  <2>3. CASE ~(n < leaf_base) BY <2>1, <2>3 DEF HashOver, HashesOver
  <2> QED BY <2>2, <2>3
<1>4. HashNode \subseteq Fine
  <2>1. \A n \in HashNode : (n < leaf_base => 2 * n \in Fine /\ 2 * n + 1 \in Fine) => n \in Fine
    BY <1>3
  <2> HIDE DEF Fine
  <2> QED BY <2>1, LeavesFirst
<1> QED BY <1>4 DEF Within, hash, y

\* TieredMerklePageStore::build links every node.
LEMMA MerkleInvInit == Init => MerkleInv
<1> SUFFICES ASSUME Init PROVE MerkleInv OBVIOUS
<1> DEFINE hash == Rebuilt(data)
<1>1. /\ trusted_levels \in TrustedLevels /\ faults = 0
      /\ data = [p \in Page |-> Blank] /\ allowed = [p \in Page |-> {Blank}]
      /\ trusted = [n \in TrustedNode |-> hash[n]] /\ disk = [n \in DiskNode |-> hash[n]]
      /\ pending = {} /\ since = {}
  BY DEF Init
<1>2. /\ saved.data = data /\ saved.disk = disk /\ saved.trusted = trusted
      /\ saved.allowed = allowed /\ saved.pending = {}
  BY <1>1 DEF Init
<1>3. hash = [n \in HashNode |-> HashOver(data, hash, n)] BY RebuiltIs
<1>4. Within(hash, AnyContents) BY <1>1, RebuiltWithin DEF AnyContents
<1>5. Within(hash, allowed) BY <1>1, RebuiltWithin
<1> HIDE DEF hash
<1>6. ASSUME NEW n \in HashNode
      PROVE  hash[n] = IF n < trusted_node_limit THEN trusted[n] ELSE disk[n]
  BY <1>1, LimitParts
<1>7. Stored = hash
  <2>1. Stored = [n \in HashNode |-> hash[n]] BY <1>6 DEF Stored, read_hash
  <2> QED BY <1>3, <2>1
<1>8. SavedHashes = Stored BY <1>2 DEF SavedHashes, Stored, read_hash
<1>9. MerkleTypes BY <1>1, <1>2, <1>4, <1>7, <1>8 DEF MerkleTypes
<1>10. SoundHashes BY <1>2, <1>5, <1>7, <1>8 DEF SoundHashes
<1>11. SoundPages BY <1>1, <1>2 DEF SoundPages
<1>12. \A n \in HashNode : Stored[n] = HashOver(data, Stored, n) BY <1>3, <1>7
<1>13. LinkedHashes BY <1>2, <1>8, <1>12 DEF LinkedHashes
<1> QED BY <1>9, <1>10, <1>11, <1>13 DEF MerkleInv

\* read_page changes neither pages nor hashes.
LEMMA ReadKeepsMerkle ==
  ASSUME MerkleInv,
         UNCHANGED <<trusted_levels, data, disk, trusted, saved, allowed, pending, since, faults>>
  PROVE  MerkleInv'
<1>1. Stored' = Stored BY DEF Stored, read_hash, trusted_node_limit
<1>2. SavedHashes' = SavedHashes BY DEF SavedHashes, trusted_node_limit
<1>3. MerkleTypes' BY <1>1, <1>2 DEF MerkleInv, MerkleTypes
<1>4. SoundHashes => SoundHashes' BY <1>1, <1>2 DEF SoundHashes
<1>5. SoundPages => SoundPages' BY DEF SoundPages
<1>6. DiskNode' = DiskNode BY DEF DiskNode, trusted_node_limit
<1>7. LinkedHashes => LinkedHashes' BY <1>1, <1>2, <1>6 DEF LinkedHashes
<1> QED BY <1>3, <1>4, <1>5, <1>7 DEF MerkleInv

\* A saved state has the soundness of the store it was taken of.
LEMMA SaveKeepsMerkle ==
  ASSUME MerkleInv, save
  PROVE  MerkleInv'
<1>1. /\ UNCHANGED <<trusted_levels, data, disk, trusted, allowed, pending, faults>>
      /\ since' = {}
      /\ saved'.data = data /\ saved'.disk = disk /\ saved'.trusted = trusted
      /\ saved'.allowed = allowed /\ saved'.pending = pending
  BY DEF save
<1>2. Stored' = Stored BY <1>1 DEF Stored, read_hash, trusted_node_limit
<1>3. SavedHashes' = Stored BY <1>1 DEF SavedHashes, Stored, read_hash, trusted_node_limit
<1>4. MerkleTypes' BY <1>1, <1>2, <1>3 DEF MerkleInv, MerkleTypes
<1>5. SoundHashes => SoundHashes' BY <1>1, <1>2, <1>3 DEF SoundHashes
<1>6. SoundPages => SoundPages' BY <1>1 DEF SoundPages
<1>7. LinkedHashes => LinkedHashes' BY <1>1, <1>2, <1>3 DEF LinkedHashes
<1> QED BY <1>1, <1>4, <1>5, <1>6, <1>7 DEF MerkleInv

\* A page that falls back leaves the hashes sound.
LEMMA LostPageKeepsMerkle ==
  ASSUME MerkleInv, NEW p \in Page, stale_data(p)
  PROVE  MerkleInv'
<1>1. /\ UNCHANGED <<trusted_levels, disk, trusted, saved, allowed, since>>
      /\ data' = [data EXCEPT ![p] = saved.data[p]]
      /\ faults' = faults + 1
  BY DEF stale_data
<1>2. Stored' = Stored BY <1>1 DEF Stored, read_hash, trusted_node_limit
<1>3. SavedHashes' = SavedHashes BY <1>1 DEF SavedHashes, trusted_node_limit
<1>4. MerkleTypes' BY <1>1, <1>2, <1>3 DEF MerkleInv, MerkleTypes
<1>5. SoundHashes => SoundHashes' BY <1>1, <1>2, <1>3 DEF SoundHashes
<1>6. faults \in Nat BY DEF MerkleInv, MerkleTypes
<1>7. faults' # 0 /\ (faults' = 1 => faults = 0) BY <1>1, <1>6
<1> QED BY <1>1, <1>4, <1>5, <1>7 DEF MerkleInv

\* Hashes that fall back leave the pages sound.
LEMMA LostHashesKeepMerkle ==
  ASSUME MerkleInv, NEW n \in DiskNode, stale_hashes(n)
  PROVE  MerkleInv'
<1>1. /\ UNCHANGED <<trusted_levels, data, trusted, saved, allowed, since>>
      /\ faults' = faults + 1
      /\ \A m \in DiskNode : disk'[m] \in {disk[m], saved.disk[m]}
  BY DEF stale_hashes
<1>2. trusted_levels \in TrustedLevels BY DEF MerkleInv, MerkleTypes
<1>3. SavedHashes' = SavedHashes BY <1>1 DEF SavedHashes, trusted_node_limit
<1>4. ASSUME NEW m \in HashNode PROVE Stored'[m] \in {Stored[m], SavedHashes[m]}
  <2>1. CASE m < trusted_node_limit
    BY <1>1, <2>1 DEF Stored, read_hash, trusted_node_limit
  <2>2. CASE ~(m < trusted_node_limit)
    <3>1. m \in DiskNode BY <1>2, <2>2, LimitParts
    <3> QED BY <1>1, <2>2, <3>1 DEF Stored, SavedHashes, read_hash, trusted_node_limit
  <2> QED BY <2>1, <2>2
<1>5. Within(Stored', AnyContents) BY <1>4 DEF MerkleInv, MerkleTypes, Within
<1>6. MerkleTypes' BY <1>1, <1>3, <1>5 DEF MerkleInv, MerkleTypes
<1>7. SoundPages => SoundPages' BY <1>1 DEF SoundPages
<1>8. trusted_levels' # LeafBits + 1 BY <1>1, <1>2, LimitParts
<1>9. faults \in Nat BY DEF MerkleInv, MerkleTypes
<1>10. faults' # 0 /\ (faults' = 1 => faults = 0) BY <1>1, <1>9
<1> QED BY <1>6, <1>7, <1>8, <1>10 DEF MerkleInv

\* Reopening: what has no written pages below it is as it was at the save.
LEMMA ReopenKeepsMerkle ==
  ASSUME MerkleInv, from_trusted_state
  PROVE  MerkleInv'
<1>1. /\ UNCHANGED <<trusted_levels, data, disk, saved, since, faults>>
      /\ trusted' = saved.trusted
      /\ pending' = saved.pending \cup since
      /\ allowed' = [p \in Page |-> saved.allowed[p] \cup IF p \in since THEN allowed[p] ELSE {}]
  BY DEF from_trusted_state
<1>2. trusted_levels \in TrustedLevels BY DEF MerkleInv, MerkleTypes
<1>3. SavedHashes' = SavedHashes BY <1>1 DEF SavedHashes, trusted_node_limit
<1>4. ASSUME NEW m \in HashNode
      PROVE  Stored'[m] = IF m < trusted_node_limit THEN SavedHashes[m] ELSE Stored[m]
  BY <1>1 DEF Stored, SavedHashes, read_hash, trusted_node_limit
<1>5. ASSUME NEW p \in Page
      PROVE  /\ allowed[p] \subseteq allowed'[p] /\ saved.allowed[p] \subseteq allowed'[p]
             /\ p \notin since => allowed'[p] = saved.allowed[p]
  BY <1>1 DEF MerkleInv, MerkleTypes
<1>6. Within(Stored', AnyContents) BY <1>4 DEF MerkleInv, MerkleTypes, Within
<1>7. MerkleTypes' BY <1>1, <1>3, <1>5, <1>6 DEF MerkleInv, MerkleTypes
<1>8. ASSUME SoundHashes PROVE SoundHashes'
  <2>1. PICK a, b, c : a = allowed /\ b = saved.allowed /\ c = allowed' OBVIOUS
  <2>2. \A m \in HashNode : Hashes(a)[m] \subseteq Hashes(c)[m] BY <1>5, <2>1, HashesMonotone
  <2>3. \A m \in HashNode : Hashes(b)[m] \subseteq Hashes(c)[m] BY <1>5, <2>1, HashesMonotone
  <2>4. Within(Stored, a) /\ Within(SavedHashes, b) BY <1>8, <2>1 DEF SoundHashes
  <2>5. Within(Stored', c) BY <1>4, <2>2, <2>3, <2>4 DEF Within
  <2> QED BY <1>1, <1>3, <2>1, <2>4, <2>5 DEF SoundHashes
<1>9. SoundPages => SoundPages' BY <1>1, <1>5 DEF SoundPages
<1>10. ASSUME LinkedHashes PROVE LinkedHashes'
  <2>1. ASSUME NEW m \in HashNode, Clear(m, since) PROVE Stored'[m] = SavedHashes[m]
    <3>1. CASE m < trusted_node_limit BY <1>4, <3>1
    <3>2. CASE ~(m < trusted_node_limit)
      <4>1. m \in DiskNode BY <1>2, <3>2, LimitParts
      <4>2. disk[m] = saved.disk[m] BY <1>10, <2>1, <4>1 DEF LinkedHashes
      <4> QED BY <1>4, <3>2, <4>2 DEF Stored, SavedHashes, read_hash
    <3> QED BY <3>1, <3>2
  <2>2. ASSUME NEW m \in HashNode, Clear(m, pending') PROVE Stored'[m] = HashOver(data, Stored', m)
    <3>1. Clear(m, since) /\ Clear(m, saved.pending) BY <1>1, <2>2 DEF Clear
    <3>2. Stored'[m] = HashOver(saved.data, SavedHashes, m)
      BY <1>10, <2>1, <3>1 DEF LinkedHashes
    <3>3. CASE m < leaf_base
      <4>1. ASSUME NEW q \in since PROVE 2 * m \notin Above(q) /\ 2 * m + 1 \notin Above(q)
        <5>1. m \notin Above(q) BY <3>1 DEF Clear
        <5>2. q \in Page BY DEF MerkleInv, MerkleTypes
        <5> QED BY <3>3, <5>1, <5>2, AboveIsClosed
      <4>2. Clear(2 * m, since) /\ Clear(2 * m + 1, since) BY <4>1 DEF Clear
      <4>3. 2 * m \in HashNode /\ 2 * m + 1 \in HashNode BY <3>3, ChildNodes
      <4>4. Stored'[2 * m] = SavedHashes[2 * m] /\ Stored'[2 * m + 1] = SavedHashes[2 * m + 1]
        BY <2>1, <4>2, <4>3
      <4> QED BY <3>2, <3>3, <4>4 DEF HashOver
    <3>4. CASE ~(m < leaf_base) /\ m - leaf_base \in Page
      <4> DEFINE q == m - leaf_base
      <4>1. q \in Page /\ leaf_base + q = m BY <3>4, BaseType DEF HashNode
      <4>2. m \in Above(q) BY <4>1, LeafNode
      <4>3. q \notin since BY <3>1, <4>2 DEF Clear
      <4>4. data[q] = saved.data[q] BY <1>10, <4>1, <4>3 DEF LinkedHashes
      <4> QED BY <3>2, <3>4, <4>4 DEF HashOver
    <3>5. CASE ~(m < leaf_base) /\ m - leaf_base \notin Page BY <3>2, <3>5 DEF HashOver
    <3> QED BY <3>3, <3>4, <3>5
  <2>3. DiskNode' = DiskNode BY <1>1 DEF DiskNode, trusted_node_limit
  <2> QED BY <1>1, <1>3, <1>10, <2>2, <2>3 DEF LinkedHashes
<1> QED BY <1>1, <1>7, <1>8, <1>9, <1>10 DEF MerkleInv

\* What a write may leave: the page old, new or torn, and of the nodes above it some
\* with their new hash, one perhaps torn, and if it failed some with their old one.
Written(p, value, hashes, ok) ==
  /\ \E left \in {data[p], Torn, value} :
       data' = [data EXCEPT ![p] = left] /\ (ok = "ok" => left = value)
  /\ allowed' = [allowed EXCEPT ![p] = IF ok = "ok" THEN {value} ELSE allowed[p] \cup {value}]
  /\ pending' = IF ok = "ok" THEN pending \ {p} ELSE pending \cup {p}
  /\ \A m \in HashNode : m \notin Above(p) => Stored'[m] = Stored[m]
  /\ \A k \in 0 .. LeafBits :
       \/ Stored'[NodeAt(p, k)] = hashes[k]
       \/ ok # "ok" /\ Stored'[NodeAt(p, k)] \in {TornHash, Stored[NodeAt(p, k)]}

\* Every outcome of write_page, complete or stopped anywhere, is of the form Written.
LEMMA WritePageIs ==
  ASSUME MerkleTypes, NEW p \in Page, NEW value \in Values, write_page(p, value)
  PROVE  \E ok \in {"ok", "err"} :
           Written(p, value, HashesAbove(p, hash_leaf(p, value)), ok)
<1> DEFINE hashes == HashesAbove(p, hash_leaf(p, value))
<1>1. trusted_levels \in TrustedLevels /\ trusted_levels' = trusted_levels
  BY DEF MerkleTypes, write_page
<1>2. LeafBits \in Nat BY BaseType
<1>3. hashes = [k \in 0 .. LeafBits |-> hashes[k]] BY HashesAboveIs
<1>4. \/ /\ data' = [data EXCEPT ![p] = value]
         /\ StoreHashes(p, hashes, LeafBits + 1)
         /\ allowed' = [allowed EXCEPT ![p] = {value}]
         /\ pending' = pending \ {p}
      \/ /\ \/ /\ \E left \in {data[p], Torn} : data' = [data EXCEPT ![p] = left]
               /\ UNCHANGED <<disk, trusted>>
            \/ /\ data' = [data EXCEPT ![p] = value]
               /\ \E n \in 0 .. Frontier(p) :
                    \/ StoreHashes(p, hashes, n)
                    \/ n > 0 /\ StoreHashes(p, [hashes EXCEPT ![n - 1] = TornHash], n)
         /\ allowed' = [allowed EXCEPT ![p] = @ \cup {value}]
         /\ pending' = pending \cup {p}
  BY DEF write_page
<1> HIDE DEF hashes
<1>5. CASE /\ data' = [data EXCEPT ![p] = value]
           /\ StoreHashes(p, hashes, LeafBits + 1)
           /\ allowed' = [allowed EXCEPT ![p] = {value}]
           /\ pending' = pending \ {p}
  <2>1. LeafBits + 1 \in 0 .. LeafBits + 1 BY <1>2
  <2>2. \A m \in HashNode : m \notin Above(p) => Stored'[m] = Stored[m]
    BY <1>1, <1>5, <2>1, StoredAfter
  <2>3. ASSUME NEW k \in 0 .. LeafBits PROVE Stored'[NodeAt(p, k)] = hashes[k]
    <3>1. k < LeafBits + 1 BY <1>2
    <3> QED BY <1>1, <1>5, <2>1, <3>1, StoredAfter
  <2>4. Written(p, value, hashes, "ok") BY <1>5, <2>2, <2>3 DEF Written
  <2> QED BY <2>4 DEF hashes
<1>6. CASE /\ allowed' = [allowed EXCEPT ![p] = @ \cup {value}]
           /\ pending' = pending \cup {p}
           /\ \E left \in {data[p], Torn} : data' = [data EXCEPT ![p] = left]
           /\ UNCHANGED <<disk, trusted>>
  <2>1. Stored' = Stored BY <1>1, <1>6 DEF Stored, read_hash, trusted_node_limit
  <2>2. Written(p, value, hashes, "err") BY <1>6, <2>1 DEF Written
  <2> QED BY <2>2 DEF hashes
<1>7. CASE /\ allowed' = [allowed EXCEPT ![p] = @ \cup {value}]
           /\ pending' = pending \cup {p}
           /\ data' = [data EXCEPT ![p] = value]
           /\ \E n \in 0 .. Frontier(p) :
                \/ StoreHashes(p, hashes, n)
                \/ n > 0 /\ StoreHashes(p, [hashes EXCEPT ![n - 1] = TornHash], n)
  <2>1. PICK n \in 0 .. Frontier(p) :
                \/ StoreHashes(p, hashes, n)
                \/ n > 0 /\ StoreHashes(p, [hashes EXCEPT ![n - 1] = TornHash], n)
    BY <1>7
  <2>2. n \in 0 .. LeafBits + 1 BY <1>1, <1>2, FrontierType
  <2>3. PICK h : /\ StoreHashes(p, h, n)
                 /\ \A k \in 0 .. LeafBits : h[k] \in {hashes[k], TornHash}
    <3>1. CASE StoreHashes(p, hashes, n) BY <3>1
    <3>2. CASE StoreHashes(p, [hashes EXCEPT ![n - 1] = TornHash], n)
      <4> DEFINE h == [hashes EXCEPT ![n - 1] = TornHash]
      <4>1. \A k \in 0 .. LeafBits : h[k] \in {hashes[k], TornHash} BY <1>3
      <4> HIDE DEF h
      <4>2. StoreHashes(p, h, n) BY <3>2 DEF h
      <4> QED BY <4>1, <4>2
    <3> QED BY <2>1, <3>1, <3>2
  <2>4. \A m \in HashNode : m \notin Above(p) => Stored'[m] = Stored[m]
    BY <1>1, <2>2, <2>3, StoredAfter
  <2>5. ASSUME NEW k \in 0 .. LeafBits
        PROVE  \/ Stored'[NodeAt(p, k)] = hashes[k]
               \/ Stored'[NodeAt(p, k)] \in {TornHash, Stored[NodeAt(p, k)]}
    <3>1. Stored'[NodeAt(p, k)] = IF k < n THEN h[k] ELSE Stored[NodeAt(p, k)]
      BY <1>1, <2>2, <2>3, StoredAfter
    <3> QED BY <2>3, <3>1
  <2>6. Written(p, value, hashes, "err") BY <1>7, <2>4, <2>5 DEF Written
  <2> QED BY <2>6 DEF hashes
<1> QED BY <1>4, <1>5, <1>6, <1>7

\* write_page, complete or stopped anywhere, keeps the invariant.
LEMMA WriteKeepsMerkle ==
  ASSUME MerkleInv, NEW p \in Page, NEW value \in Values, write_page(p, value)
  PROVE  MerkleInv'
<1>1. /\ UNCHANGED <<trusted_levels, saved, faults>>
      /\ since' = since \cup {p}
  BY DEF write_page
<1>2. MerkleTypes BY DEF MerkleInv
<1>3. PICK ok \in {"ok", "err"} : Written(p, value, HashesAbove(p, hash_leaf(p, value)), ok)
  BY <1>2, WritePageIs
<1>4. PICK hashes : hashes = HashesAbove(p, hash_leaf(p, value)) OBVIOUS
<1>5. Written(p, value, hashes, ok) BY <1>3, <1>4
<1>6. PathHashes(p, hash_leaf(p, value), Stored, hashes) BY <1>4, HashesAboveAre
<1>7. PICK left \in {data[p], Torn, value} :
        data' = [data EXCEPT ![p] = left] /\ (ok = "ok" => left = value)
  BY <1>5 DEF Written
<1>8. /\ DOMAIN data' = Page
      /\ data'[p] = left
      /\ \A q \in Page : q # p => data'[q] = data[q]
  BY <1>2, <1>7 DEF MerkleTypes
<1>9. /\ DOMAIN allowed' = Page
      /\ allowed'[p] = IF ok = "ok" THEN {value} ELSE allowed[p] \cup {value}
      /\ \A q \in Page : q # p => allowed'[q] = allowed[q]
  BY <1>2, <1>5 DEF MerkleTypes, Written
<1>10. SavedHashes' = SavedHashes BY <1>1 DEF SavedHashes, trusted_node_limit
<1>11. PICK st, after, a, b : st = Stored /\ after = Stored' /\ a = allowed /\ b = allowed'
  OBVIOUS
<1>12. PathHashes(p, hash_leaf(p, value), st, hashes) BY <1>6, <1>11
<1>13. /\ \A m \in HashNode : m \notin Above(p) => after[m] = st[m]
       /\ \A k \in 0 .. LeafBits :
            \/ after[NodeAt(p, k)] = hashes[k]
            \/ ok # "ok" /\ after[NodeAt(p, k)] \in {TornHash, st[NodeAt(p, k)]}
  BY <1>5, <1>11 DEF Written
<1>14. Within(after, AnyContents)
  <2>1. Within(st, AnyContents) BY <1>2, <1>11 DEF MerkleTypes
  <2>2. value \in AnyContents[p] BY DEF AnyContents
  <2> QED BY <1>12, <1>13, <2>1, <2>2, WithinAfterWrite
<1>15. MerkleTypes'
  <2>1. \A q \in Page : q \notin since' => allowed'[q] = saved'.allowed[q]
    BY <1>1, <1>2, <1>9 DEF MerkleTypes
  <2> QED BY <1>1, <1>2, <1>8, <1>9, <1>10, <1>11, <1>14, <2>1 DEF MerkleTypes
<1>16. ASSUME SoundHashes PROVE SoundHashes'
  <2>1. Within(st, a) BY <1>11, <1>16 DEF SoundHashes
  <2>2. value \in b[p] /\ (ok # "ok" => a[p] \subseteq b[p]) BY <1>9, <1>11
  <2>3. \A q \in Page : q # p => a[q] = b[q] BY <1>9, <1>11
  <2>4. Within(after, b) BY <1>12, <1>13, <2>1, <2>2, <2>3, WithinAfterWrite
  <2> QED BY <1>1, <1>10, <1>11, <1>16, <2>4 DEF SoundHashes
<1>17. ASSUME SoundPages PROVE SoundPages'
  <2>1. ASSUME NEW q \in Page
        PROVE  data'[q] \in allowed'[q] \cup {Torn} /\ (q \notin since' => data'[q] = saved'.data[q])
    <3>1. CASE q # p BY <1>1, <1>8, <1>9, <1>17, <3>1 DEF SoundPages
    <3>2. CASE q = p
      <4>1. data[p] \in allowed[p] \cup {Torn} BY <1>17 DEF SoundPages
      <4>2. left \in allowed'[p] \cup {Torn} BY <1>7, <1>9, <4>1
      <4> QED BY <1>1, <1>8, <3>2, <4>2
    <3> QED BY <3>1, <3>2
  <2> QED BY <1>1, <1>17, <2>1 DEF SoundPages
<1>18. ASSUME LinkedHashes PROVE LinkedHashes'
  <2>1. ASSUME NEW m \in HashNode, m \notin Above(p), Clear(m, pending)
        PROVE  Stored'[m] = HashOver(data', Stored', m)
    <3>1. Stored[m] = HashOver(data, Stored, m) BY <1>18, <2>1 DEF LinkedHashes
    <3>2. Stored'[m] = Stored[m] BY <1>5, <2>1 DEF Written
    <3>3. CASE m < leaf_base
      <4>1. 2 * m \notin Above(p) /\ 2 * m + 1 \notin Above(p) BY <2>1, <3>3, AboveIsClosed
      <4>2. 2 * m \in HashNode /\ 2 * m + 1 \in HashNode BY <3>3, ChildNodes
      <4>3. Stored'[2 * m] = Stored[2 * m] /\ Stored'[2 * m + 1] = Stored[2 * m + 1]
        BY <1>5, <4>1, <4>2 DEF Written
      <4> QED BY <3>1, <3>2, <3>3, <4>3 DEF HashOver
    <3>4. CASE ~(m < leaf_base) /\ m - leaf_base \in Page
      <4> DEFINE q == m - leaf_base
      <4>1. q \in Page /\ leaf_base + q = m BY <3>4, BaseType DEF HashNode
      <4>2. q # p BY <2>1, <4>1, LeafNode
      <4>3. data'[q] = data[q] BY <1>8, <4>1, <4>2
      <4> QED BY <3>1, <3>2, <3>4, <4>3 DEF HashOver
    <3>5. CASE ~(m < leaf_base) /\ m - leaf_base \notin Page BY <3>1, <3>2, <3>5 DEF HashOver
    <3> QED BY <3>3, <3>4, <3>5
  <2>2. ASSUME NEW m \in HashNode, m \in Above(p), ok = "ok"
        PROVE  Stored'[m] = HashOver(data', Stored', m)
    <3>1. \A k \in 0 .. LeafBits : after[NodeAt(p, k)] = hashes[k] BY <1>13, <2>2
    <3>2. PICK k \in 0 .. LeafBits : m = NodeAt(p, k) BY <2>2 DEF Above
    <3>3. LeafBits \in Nat BY BaseType
    <3>4. CASE k = 0
      <4>1. m = leaf_base + p BY <3>2, <3>4, NodeAtLevel
      <4>2. m - leaf_base = p /\ ~(m < leaf_base) BY <4>1, BaseType, PageType
      <4>3. Stored'[m] = hash_leaf(p, value) BY <1>11, <1>12, <3>1, <3>2, <3>4 DEF PathHashes
      <4>4. data'[p] = value BY <1>7, <1>8, <2>2
      <4> QED BY <4>2, <4>3, <4>4 DEF HashOver
    <3>5. CASE k # 0
      <4> DEFINE c == NodeAt(p, k - 1)
                 s == sibling_node(c)
      <4>0. k \in 1 .. LeafBits /\ k - 1 \in 0 .. LeafBits BY <3>3, <3>5
      <4>1. /\ m < leaf_base
            /\ s \in HashNode /\ s \notin Above(p)
            /\ c \div 2 = m
            /\ \/ is_left_child(c) /\ c = 2 * m /\ s = 2 * m + 1
               \/ ~is_left_child(c) /\ c = 2 * m + 1 /\ s = 2 * m
        BY <3>2, <4>0, PathChildren
      <4>2. hashes[k] = parent_hash(c, hashes[k - 1], st[s]) BY <1>12, <4>0 DEF PathHashes
      <4>3. after[c] = hashes[k - 1] BY <3>1, <4>0
      <4> HIDE DEF c, s
      <4>4. after[s] = st[s] BY <1>13, <4>1
      <4>5. after[m] = hash_node(m, after[2 * m], after[2 * m + 1])
        BY <3>1, <3>2, <4>1, <4>2, <4>3, <4>4 DEF parent_hash
      <4> QED BY <1>11, <4>1, <4>5 DEF HashOver
    <3> QED BY <3>4, <3>5
  <2>3. ASSUME NEW m \in HashNode, Clear(m, pending') PROVE Stored'[m] = HashOver(data', Stored', m)
    <3>1. pending' = IF ok = "ok" THEN pending \ {p} ELSE pending \cup {p} BY <1>5 DEF Written
    <3>2. CASE m \in Above(p)
      <4>1. ok = "ok" BY <2>3, <3>1, <3>2 DEF Clear
      <4> QED BY <2>2, <3>2, <4>1
    <3>3. CASE m \notin Above(p)
      <4>1. Clear(m, pending) BY <2>3, <3>1, <3>3 DEF Clear
      <4> QED BY <2>1, <3>3, <4>1
    <3> QED BY <3>2, <3>3
  <2>4. ASSUME NEW m \in DiskNode, Clear(m, since') PROVE disk'[m] = saved'.disk[m]
    <3>1. Clear(m, since) /\ m \notin Above(p) BY <1>1, <2>4 DEF Clear
    <3>2. disk[m] = saved.disk[m] BY <1>18, <3>1 DEF LinkedHashes
    <3>3. trusted_levels \in TrustedLevels BY <1>2 DEF MerkleTypes
    <3>4. m \in HashNode /\ ~(m < trusted_node_limit)
      BY <3>3, LimitParts, BaseType DEF DiskNode, HashNode
    <3>5. Stored'[m] = Stored[m] BY <1>5, <3>1, <3>4 DEF Written
    <3>6. disk'[m] = disk[m] BY <1>1, <3>4, <3>5 DEF Stored, read_hash, trusted_node_limit
    <3> QED BY <1>1, <3>2, <3>6
  <2>5. ASSUME NEW q \in Page, q \notin since' PROVE data'[q] = saved'.data[q]
    BY <1>1, <1>8, <1>18, <2>5 DEF LinkedHashes
  <2>6. DiskNode' = DiskNode BY <1>1 DEF DiskNode, trusted_node_limit
  <2>7. \A m \in HashNode :
          Clear(m, saved'.pending) => SavedHashes'[m] = HashOver(saved'.data, SavedHashes', m)
    BY <1>1, <1>10, <1>18 DEF LinkedHashes
  <2> QED BY <2>3, <2>4, <2>5, <2>6, <2>7 DEF LinkedHashes
<1> QED BY <1>1, <1>15, <1>16, <1>17, <1>18 DEF MerkleInv

\* Every step of the hash tree keeps the invariant.
LEMMA MerkleInvStep == MerkleInv /\ Next => MerkleInv'
<1> SUFFICES ASSUME MerkleInv, Next PROVE MerkleInv' OBVIOUS
<1>1. CASE save BY <1>1, SaveKeepsMerkle
<1>2. CASE from_trusted_state BY <1>2, ReopenKeepsMerkle
<1>3. ASSUME NEW n \in DiskNode, stale_hashes(n) PROVE MerkleInv' BY <1>3, LostHashesKeepMerkle
<1>4. ASSUME NEW p \in Page, read_page(p) PROVE MerkleInv'
  BY <1>4, ReadKeepsMerkle DEF read_page
<1>5. ASSUME NEW p \in Page, stale_data(p) PROVE MerkleInv' BY <1>5, LostPageKeepsMerkle
<1>6. ASSUME NEW p \in Page, NEW value \in Values, write_page(p, value) PROVE MerkleInv'
  BY <1>6, WriteKeepsMerkle
<1> QED BY <1>1, <1>2, <1>3, <1>4, <1>5, <1>6 DEF Next

WhenMerkle == store = "merkle" => MerkleInv

\* The invariant of the hash tree, in behaviours about it.
LEMMA WhenMerkleHolds == StoresSpec => []WhenMerkle
<1>1. StoresInit => WhenMerkle BY MerkleInvInit DEF StoresInit, WhenMerkle
<1>2. WhenMerkle /\ [merkle_call \/ embedded_call]_allVars => WhenMerkle'
  <2> SUFFICES ASSUME WhenMerkle, [merkle_call \/ embedded_call]_allVars, store' = "merkle"
               PROVE  MerkleInv'
    BY DEF WhenMerkle
  <2>1. CASE merkle_call BY <2>1, MerkleInvStep DEF merkle_call, WhenMerkle
  <2>2. CASE embedded_call BY <2>2 DEF embedded_call
  <2>3. CASE UNCHANGED allVars
    <3>1. store = "merkle" BY <2>3 DEF allVars
    <3>2. UNCHANGED <<trusted_levels, data, disk, trusted, saved, allowed, pending, since, faults>>
      BY <2>3 DEF allVars, vars
    <3> QED BY <3>1, <3>2, ReadKeepsMerkle DEF WhenMerkle
  <2> QED BY <2>1, <2>2, <2>3
<1> QED BY <1>1, <1>2, PTL DEF StoresSpec

\* A page a Merkle store returns is the last one written or one of the versions
\* whose write failed since (verify_page_hash): for every tree, number of
\* trusted levels and layout of hash pages with at most one lost page, and with any
\* number of lost pages if all hashes are in memory.
THEOREM NoRollbackIsAccepted == StoresSpec => []NoStalePage
<1>1. WhenMerkle => NoStalePage BY MerkleInvNoStale DEF WhenMerkle, NoStalePage
<1> QED BY <1>1, WhenMerkleHolds, PTL

\* Writing the pages again whose writes failed, or were made since the trusted state
\* the store was reopened with, makes every page readable (update_page_hash).
THEOREM RewritesHealTheTree == StoresSpec => []Heals
<1>1. WhenMerkle => Heals BY MerkleInvHeals DEF WhenMerkle, Heals
<1> QED BY <1>1, WhenMerkleHolds, PTL

-----------------------------------------------------------------------------
(* The embedded tree.                                                       *)

Buckets == 0 .. BucketPages - 1

IsPage(x) ==
  x = [logical |-> x.logical, left_hash |-> x.left_hash, right_hash |-> x.right_hash]

\* Pages of the embedded tree are numbers.
LEMMA BucketsArePages == Tree!Page = Buckets /\ Buckets \subseteq Nat
BY BucketsAssumption DEF Tree!Page, Buckets

\* A hash determines the page it was computed from.
LEMMA HashInjective ==
  ASSUME NEW p, NEW x, NEW y, IsPage(x), IsPage(y),
         Tree!hash_embedded_page(p, x) = Tree!hash_embedded_page(p, y)
  PROVE  x = y
<1>1. x.logical = y.logical /\ x.left_hash = y.left_hash /\ x.right_hash = y.right_hash
  BY DEF Tree!hash_embedded_page
<1> QED BY <1>1 DEF IsPage

\* The fields of a page.
LEMMA PageFields ==
  ASSUME NEW a, NEW l, NEW r, NEW x, x = [logical |-> a, left_hash |-> l, right_hash |-> r]
  PROVE  IsPage(x) /\ x.logical = a /\ x.left_hash = l /\ x.right_hash = r
BY DEF IsPage

-----------------------------------------------------------------------------
(* Rehashing.                                                               *)

\* The page p of a rehashed tree whose other pages are those of f.
NewPage(on, contents, pages, f, p) ==
  IF p \in on
  THEN [logical    |-> contents[p],
        left_hash  |-> IF 2 * p + 1 \in on THEN Tree!hash_embedded_page(2 * p + 1, f[2 * p + 1])
                       ELSE pages[p].left_hash,
        right_hash |-> IF 2 * p + 2 \in on THEN Tree!hash_embedded_page(2 * p + 2, f[2 * p + 2])
                       ELSE pages[p].right_hash]
  ELSE pages[p]

\* Rehash, which computes children first, is well defined.
LEMMA RehashIs ==
  ASSUME NEW on, NEW contents, NEW pages, DOMAIN pages \subseteq Buckets, on \subseteq DOMAIN pages,
         NEW new, new = Tree!Rehash(on, contents, pages)
  PROVE  new = [p \in DOMAIN pages |-> NewPage(on, contents, pages, new, p)]
<1> DEFINE D == DOMAIN pages
           Low(n) == {q \in D : q >= BucketPages - n}
           Has == {n \in Nat : \E f : f = [p \in Low(n) |-> NewPage(on, contents, pages, f, p)]}
<1>1. BucketPages \in Nat /\ D \subseteq Nat /\ \A q \in D : q < BucketPages
  BY BucketsAssumption DEF Buckets
<1>2. 0 \in Has
  <2>1. Low(0) = {} BY <1>1
  <2> DEFINE f == [p \in Low(0) |-> 0]
  <2>2. f = [p \in Low(0) |-> NewPage(on, contents, pages, f, p)] BY <2>1
  <2> HIDE DEF f
  <2> QED BY <2>2
<1>3. ASSUME NEW n \in Nat, n \in Has PROVE n + 1 \in Has
  <2>1. PICK g : g = [p \in Low(n) |-> NewPage(on, contents, pages, g, p)] BY <1>3
  <2> DEFINE h == [p \in Low(n + 1) |->
                     IF p \in Low(n) THEN g[p] ELSE NewPage(on, contents, pages, g, p)]
  <2>2. ASSUME NEW p \in Low(n + 1) PROVE h[p] = NewPage(on, contents, pages, h, p)
    <3>1. h[p] = NewPage(on, contents, pages, g, p) BY <2>1
    <3>2. p \in D /\ p \in Nat /\ p >= BucketPages - (n + 1) BY <1>1
    <3>3. ASSUME NEW q \in on, q \in {2 * p + 1, 2 * p + 2} PROVE h[q] = g[q]
      <4>1. q \in D /\ q >= BucketPages - n /\ q >= BucketPages - (n + 1) BY <1>1, <3>2, <3>3
      <4>2. q \in Low(n) /\ q \in Low(n + 1) BY <4>1
      <4> HIDE DEF Low
      <4> QED BY <4>2
    <3> HIDE DEF h, Low
    <3> QED BY <3>1, <3>3 DEF NewPage
  <2>3. h = [p \in Low(n + 1) |-> NewPage(on, contents, pages, h, p)]
    <3> HIDE DEF Low
    <3>1. h = [p \in Low(n + 1) |-> h[p]] OBVIOUS
    <3> HIDE DEF h
    <3> QED BY <2>2, <3>1
  <2> HIDE DEF h, Low
  <2> QED BY <2>3
<1>4. \A n \in Nat : n \in Has
  <2> HIDE DEF Has
  <2> QED BY <1>2, <1>3, SetInduction
<1>5. Low(BucketPages) = D BY <1>1
<1>6. \E f : f = [p \in D |-> NewPage(on, contents, pages, f, p)]
  <2>1. BucketPages \in Has BY <1>1, <1>4
  <2>2. PICK f : f = [p \in Low(BucketPages) |-> NewPage(on, contents, pages, f, p)] BY <2>1
  <2> HIDE DEF Low
  <2> QED BY <1>5, <2>2
<1>7. new = CHOOSE f : f = [p \in D |-> NewPage(on, contents, pages, f, p)]
  BY DEF Tree!Rehash, NewPage, Tree!left_child, Tree!right_child
<1> HIDE DEF D
<1>8. new = [p \in D |-> NewPage(on, contents, pages, new, p)] BY <1>6, <1>7
<1> QED BY <1>8 DEF D

\* The pages of a built tree: each has the hashes of its children.
BuiltPage(contents, tree, p) ==
  [logical    |-> contents[p],
   left_hash  |-> IF 2 * p + 1 \in Buckets THEN Tree!hash_embedded_page(2 * p + 1, tree[2 * p + 1])
                  ELSE Tree!ZeroHash,
   right_hash |-> IF 2 * p + 2 \in Buckets THEN Tree!hash_embedded_page(2 * p + 2, tree[2 * p + 2])
                  ELSE Tree!ZeroHash]

\* The built tree: every page holds its contents and the hashes of its children.
LEMMA BuiltIs ==
  ASSUME NEW contents, NEW tree, tree = Tree!Built(contents)
  PROVE  /\ tree = [p \in Buckets |-> BuiltPage(contents, tree, p)]
         /\ \A p \in Buckets : tree[p] = BuiltPage(contents, tree, p) /\ IsPage(tree[p])
<1> DEFINE zero == [p \in Buckets |->
                      [logical |-> Blank, left_hash |-> Tree!ZeroHash, right_hash |-> Tree!ZeroHash]]
<1>1. tree = Tree!Rehash(Buckets, contents, zero) BY BucketsArePages DEF Tree!Built
<1>2. DOMAIN zero = Buckets OBVIOUS
<1>3. \A p \in Buckets : /\ zero[p].left_hash = Tree!ZeroHash
                         /\ zero[p].right_hash = Tree!ZeroHash
  OBVIOUS
<1> HIDE DEF zero
<1>4. tree = [p \in Buckets |-> NewPage(Buckets, contents, zero, tree, p)]
  BY <1>1, <1>2, RehashIs
<1>5. \A p \in Buckets : NewPage(Buckets, contents, zero, tree, p) = BuiltPage(contents, tree, p)
  BY <1>3 DEF NewPage, BuiltPage
<1>6. \A p \in Buckets : tree[p] = BuiltPage(contents, tree, p) BY <1>4, <1>5
<1>7. ASSUME NEW p \in Buckets PROVE IsPage(tree[p])
  <2>1. tree[p] = BuiltPage(contents, tree, p) BY <1>6
  <2> QED BY <2>1, PageFields DEF BuiltPage
<1> QED BY <1>4, <1>5, <1>6, <1>7

\* A set of pages that has the parent of each of its pages.
Closed(on) == \A p \in Buckets : 2 * p + 1 \in on \/ 2 * p + 2 \in on => p \in on

\* The contents after a write of the pages of `on`.
Update(c, on, contents) == [p \in Buckets |-> IF p \in on THEN contents[p] ELSE c[p]]

\* A property of all pages follows from that of their children.
LEMMA ChildrenFirst ==
  ASSUME NEW G,
         \A p \in Buckets :
           (\A q \in {2 * p + 1, 2 * p + 2} : q \in Buckets => q \in G) => p \in G
  PROVE  Buckets \subseteq G
<1> DEFINE Bad == {k \in Nat : \E p \in Buckets : k = BucketPages - 1 - p /\ p \notin G}
<1>0. BucketPages \in Nat \ {0} /\ \A p \in Buckets : p \in Nat /\ p <= BucketPages - 1
  BY BucketsAssumption DEF Buckets
<1>1. ASSUME Bad # {} PROVE FALSE
  <2>1. PICK k \in Bad : \A j \in Bad : k <= j
    <3>1. Bad \subseteq Nat OBVIOUS
    <3> HIDE DEF Bad
    <3> QED BY <1>1, <3>1, LeastNatural
  <2>2. PICK p \in Buckets : k = BucketPages - 1 - p /\ p \notin G BY <2>1
  <2>3. ASSUME NEW q \in {2 * p + 1, 2 * p + 2}, q \in Buckets PROVE q \in G
    <3>1. p \in Nat /\ q \in Nat /\ q > p /\ q <= BucketPages - 1 BY <1>0, <2>3
    <3>2. BucketPages - 1 - q \in Nat /\ ~(k <= BucketPages - 1 - q) BY <1>0, <2>2, <3>1
    <3>3. BucketPages - 1 - q \notin Bad BY <2>1, <3>2
    <3> QED BY <2>3, <3>2, <3>3
  <2> QED BY <2>2, <2>3
<1>2. ASSUME NEW p \in Buckets PROVE p \in G
  <2>1. BucketPages - 1 - p \in Nat BY <1>0
  <2> QED BY <1>1, <2>1
<1> QED BY <1>2

\* A page keeps its place in the tree while nothing at or below it is written.
LEMMA OthersStay ==
  ASSUME NEW c, NEW on, Closed(on), NEW contents
  PROVE  \A p \in Buckets : p \notin on => Tree!Built(Update(c, on, contents))[p] = Tree!Built(c)[p]
<1> DEFINE old == Tree!Built(c)
           tree == Tree!Built(Update(c, on, contents))
           G == {p \in Buckets : p \notin on => tree[p] = old[p]}
<1>1. \A p \in Buckets : old[p] = BuiltPage(c, old, p) BY BuiltIs
<1>2. \A p \in Buckets : tree[p] = BuiltPage(Update(c, on, contents), tree, p) BY BuiltIs
<1> HIDE DEF old, tree
<1>3. ASSUME NEW p \in Buckets, p \notin on,
             \A q \in {2 * p + 1, 2 * p + 2} : q \in Buckets => q \in G
      PROVE  tree[p] = old[p]
  <2>1. 2 * p + 1 \notin on /\ 2 * p + 2 \notin on BY <1>3 DEF Closed
  <2>2. 2 * p + 1 \in Buckets => tree[2 * p + 1] = old[2 * p + 1] BY <1>3, <2>1
  <2>3. 2 * p + 2 \in Buckets => tree[2 * p + 2] = old[2 * p + 2] BY <1>3, <2>1
  <2>4. Update(c, on, contents)[p] = c[p] BY <1>3 DEF Update
  <2> QED BY <1>1, <1>2, <2>2, <2>3, <2>4 DEF BuiltPage
<1>4. Buckets \subseteq G
  <2>1. \A p \in Buckets :
          (\A q \in {2 * p + 1, 2 * p + 2} : q \in Buckets => q \in G) => p \in G
    BY <1>3
  <2> HIDE DEF G
  <2> QED BY <2>1, ChildrenFirst
<1> QED BY <1>4 DEF old, tree

\* Rehashing pages of a built tree gives the pages of the tree built with the new
\* contents, if parents are rehashed with their children.
LEMMA RehashIsBuilt ==
  ASSUME NEW c, NEW on, Closed(on), NEW contents,
         NEW pages, DOMAIN pages \subseteq Buckets, on \subseteq DOMAIN pages,
         \A p \in DOMAIN pages : pages[p] = Tree!Built(c)[p]
  PROVE  \A p \in DOMAIN pages :
           Tree!Rehash(on, contents, pages)[p] = Tree!Built(Update(c, on, contents))[p]
<1> DEFINE old == Tree!Built(c)
           tree == Tree!Built(Update(c, on, contents))
           new == Tree!Rehash(on, contents, pages)
           D == DOMAIN pages
           G == {p \in Buckets : p \in D => new[p] = tree[p]}
<1>1. new = [p \in D |-> NewPage(on, contents, pages, new, p)] BY RehashIs
<1>2. \A p \in Buckets : old[p] = BuiltPage(c, old, p) BY BuiltIs
<1>3. \A p \in Buckets : tree[p] = BuiltPage(Update(c, on, contents), tree, p) BY BuiltIs
<1>4. \A p \in D : pages[p] = old[p] OBVIOUS
<1>5. \A p \in Buckets : p \notin on => tree[p] = old[p] BY OthersStay
<1>6. on \subseteq D /\ D \subseteq Buckets OBVIOUS
<1> HIDE DEF old, tree, new, D
<1>7. ASSUME NEW p \in Buckets, p \in D,
             \A q \in {2 * p + 1, 2 * p + 2} : q \in Buckets => q \in G
      PROVE  new[p] = tree[p]
  <2>1. new[p] = NewPage(on, contents, pages, new, p) BY <1>1, <1>7
  <2>2. CASE p \notin on BY <1>4, <1>5, <1>7, <2>1, <2>2 DEF NewPage
  <2>3. CASE p \in on
    <3>1. new[p] = [logical    |-> contents[p],
                    left_hash  |-> IF 2 * p + 1 \in on
                                   THEN Tree!hash_embedded_page(2 * p + 1, new[2 * p + 1])
                                   ELSE old[p].left_hash,
                    right_hash |-> IF 2 * p + 2 \in on
                                   THEN Tree!hash_embedded_page(2 * p + 2, new[2 * p + 2])
                                   ELSE old[p].right_hash]
      BY <1>4, <1>7, <2>1, <2>3 DEF NewPage
    <3>2. Update(c, on, contents)[p] = contents[p] BY <2>3 DEF Update
    <3>3. ASSUME NEW q \in {2 * p + 1, 2 * p + 2}, q \in on PROVE new[q] = tree[q] /\ q \in Buckets
      BY <1>6, <1>7, <3>3
    <3>4. ASSUME NEW q \in {2 * p + 1, 2 * p + 2}, q \notin on, q \in Buckets
          PROVE  tree[q] = old[q]
      BY <1>5, <3>4
    <3>5. tree[p] = BuiltPage(Update(c, on, contents), tree, p) BY <1>3
    <3>6. old[p] = BuiltPage(c, old, p) BY <1>2
    <3>7. /\ old[p].left_hash = IF 2 * p + 1 \in Buckets
                                THEN Tree!hash_embedded_page(2 * p + 1, old[2 * p + 1])
                                ELSE Tree!ZeroHash
          /\ old[p].right_hash = IF 2 * p + 2 \in Buckets
                                 THEN Tree!hash_embedded_page(2 * p + 2, old[2 * p + 2])
                                 ELSE Tree!ZeroHash
      BY <3>6, PageFields DEF BuiltPage
    <3> QED BY <3>1, <3>2, <3>3, <3>4, <3>5, <3>7 DEF BuiltPage
  <2> QED BY <2>2, <2>3
<1>8. Buckets \subseteq G
  <2>1. \A p \in Buckets :
          (\A q \in {2 * p + 1, 2 * p + 2} : q \in Buckets => q \in G) => p \in G
    BY <1>7
  <2> HIDE DEF G
  <2> QED BY <2>1, ChildrenFirst
<1>9. \A p \in D : new[p] = tree[p] BY <1>6, <1>8
<1> QED BY <1>9 DEF tree, new, D

-----------------------------------------------------------------------------
(* Paths.                                                                   *)

\* A valid path starts at the root, consists of pages and is closed.
LEMMA PathIsClosed ==
  ASSUME NEW path \in Seq(Nat), Tree!validate_path(path)
  PROVE  /\ 0 \in Tree!ToSet(path)
         /\ Tree!ToSet(path) \subseteq Buckets
         /\ Closed(Tree!ToSet(path))
<1>1. path # <<>> /\ path[1] = 0 /\ \A k \in DOMAIN path : path[k] \in Buckets
  BY BucketsArePages DEF Tree!validate_path
<1>2. \A k \in 2 .. Len(path) : path[k] \in {2 * path[k - 1] + 1, 2 * path[k - 1] + 2}
  BY DEF Tree!validate_path, Tree!left_child, Tree!right_child
<1>3. DOMAIN path = 1 .. Len(path) /\ Len(path) \in Nat /\ 1 \in DOMAIN path
  <2>1. Len(path) # 0 BY <1>1
  <2> QED BY <2>1
<1>4. Tree!ToSet(path) = {path[k] : k \in DOMAIN path} BY DEF Tree!ToSet
<1>5. ASSUME NEW p \in Buckets, NEW q \in {2 * p + 1, 2 * p + 2}, q \in Tree!ToSet(path)
      PROVE  p \in Tree!ToSet(path)
  <2>1. PICK k \in DOMAIN path : path[k] = q BY <1>4, <1>5
  <2>2. p \in Nat /\ q # 0 BY BucketsArePages
  <2>3. k \in 2 .. Len(path) BY <1>1, <1>3, <2>1, <2>2
  <2>4. k - 1 \in DOMAIN path /\ path[k - 1] \in Nat BY <1>3, <2>3
  <2>5. path[k - 1] = p BY <1>2, <2>1, <2>2, <2>3, <2>4
  <2> QED BY <1>4, <2>4, <2>5
<1>6. Closed(Tree!ToSet(path)) BY <1>5 DEF Closed
<1> QED BY <1>1, <1>3, <1>4, <1>6

\* The hash a built page has of its child is the one of the child.
LEMMA BuiltChild ==
  ASSUME NEW c, NEW p \in Buckets, NEW q \in Buckets, q \in {2 * p + 1, 2 * p + 2}
  PROVE  Tree!child_hash(p, Tree!Built(c)[p], q) = Tree!hash_embedded_page(q, Tree!Built(c)[q])
<1> DEFINE tree == Tree!Built(c)
<1>1. tree[p] = BuiltPage(c, tree, p) BY BuiltIs
<1> HIDE DEF tree
<1>2. /\ tree[p].left_hash = IF 2 * p + 1 \in Buckets
                             THEN Tree!hash_embedded_page(2 * p + 1, tree[2 * p + 1])
                             ELSE Tree!ZeroHash
      /\ tree[p].right_hash = IF 2 * p + 2 \in Buckets
                              THEN Tree!hash_embedded_page(2 * p + 2, tree[2 * p + 2])
                              ELSE Tree!ZeroHash
  BY <1>1, PageFields DEF BuiltPage
<1>3. p \in Nat BY BucketsArePages
<1>4. Tree!child_hash(p, tree[p], q) = Tree!hash_embedded_page(q, tree[q])
  <2>1. CASE q = 2 * p + 1 BY <1>2, <2>1 DEF Tree!child_hash, Tree!left_child
  <2>2. CASE q = 2 * p + 2
    <3>1. q # 2 * p + 1 BY <1>3, <2>2
    <3> QED BY <1>2, <2>2, <3>1 DEF Tree!child_hash, Tree!left_child
  <2> QED BY <2>1, <2>2
<1> QED BY <1>4 DEF tree

\* Pages of a path pass the check of the root of a tree exactly if they are the
\* pages of that tree.
LEMMA PathVerifies ==
  ASSUME NEW path \in Seq(Nat), Tree!validate_path(path), NEW c, NEW pages,
         \A p \in Buckets : IsPage(pages[p]),
         NEW root, root = Tree!hash_embedded_page(0, Tree!Built(c)[0])
  PROVE  Tree!verify_path_from_pages(path, pages, root)
           <=> \A p \in Tree!ToSet(path) : pages[p] = Tree!Built(c)[p]
<1> DEFINE tree == Tree!Built(c)
           n == Len(path)
<1>1. path[1] = 0 /\ \A k \in 1 .. n : path[k] \in Buckets
  BY BucketsArePages DEF Tree!validate_path
<1>2. \A k \in 2 .. n : path[k] \in {2 * path[k - 1] + 1, 2 * path[k - 1] + 2}
  BY DEF Tree!validate_path, Tree!left_child, Tree!right_child
<1>3. n \in Nat /\ DOMAIN path = 1 .. n /\ \A k \in 2 .. n : k - 1 \in 1 .. n OBVIOUS
<1>4. Tree!ToSet(path) = {path[k] : k \in 1 .. n} BY <1>3 DEF Tree!ToSet
<1>5. ASSUME NEW k \in 2 .. n
      PROVE  Tree!child_hash(path[k - 1], tree[path[k - 1]], path[k])
               = Tree!hash_embedded_page(path[k], tree[path[k]])
  <2>1. k \in 1 .. n /\ k - 1 \in 1 .. n BY <1>3
  <2>2. path[k] \in Buckets /\ path[k - 1] \in Buckets BY <1>1, <2>1
  <2>3. path[k] \in {2 * path[k - 1] + 1, 2 * path[k - 1] + 2} BY <1>2
  <2> QED BY <2>2, <2>3, BuiltChild
<1>6. \A k \in 1 .. n : IsPage(tree[path[k]]) /\ IsPage(pages[path[k]]) BY <1>1, BuiltIs
<1>7. root = Tree!hash_embedded_page(0, tree[0]) OBVIOUS
<1>8. Tree!verify_path_from_pages(path, pages, root) <=>
        \A k \in 1 .. n :
          Tree!hash_embedded_page(path[k], pages[path[k]]) =
            IF k = 1 THEN root
            ELSE Tree!child_hash(path[k - 1], pages[path[k - 1]], path[k])
  BY <1>3 DEF Tree!verify_path_from_pages
<1> HIDE DEF tree, n
<1>9. ASSUME \A k \in 1 .. n : pages[path[k]] = tree[path[k]]
      PROVE  Tree!verify_path_from_pages(path, pages, root)
  <2> SUFFICES ASSUME NEW k \in 1 .. n
               PROVE  Tree!hash_embedded_page(path[k], pages[path[k]]) =
                        IF k = 1 THEN root
                        ELSE Tree!child_hash(path[k - 1], pages[path[k - 1]], path[k])
    BY <1>8
  <2>1. CASE k = 1 BY <1>1, <1>7, <1>9, <2>1
  <2>2. CASE k # 1
    <3>1. k \in 2 .. n BY <1>3, <2>2
    <3> QED BY <1>3, <1>5, <1>9, <2>2, <3>1
  <2> QED BY <2>1, <2>2
<1>10. ASSUME Tree!verify_path_from_pages(path, pages, root), NEW j \in 1 .. n
       PROVE  pages[path[j]] = tree[path[j]]
  <2> DEFINE Same == {k \in Nat : k \in 1 .. n => pages[path[k]] = tree[path[k]]}
  <2>1. 0 \in Same OBVIOUS
  <2>2. ASSUME NEW k \in 1 .. n, k - 1 \in Same PROVE k \in Same
    <3>1. Tree!hash_embedded_page(path[k], pages[path[k]])
            = Tree!hash_embedded_page(path[k], tree[path[k]])
      <4>1. CASE k = 1 BY <1>1, <1>7, <1>8, <1>10, <4>1
      <4>2. CASE k # 1
        <5>1. k \in 2 .. n /\ k - 1 \in 1 .. n BY <1>3, <4>2
        <5>2. pages[path[k - 1]] = tree[path[k - 1]] BY <2>2, <5>1
        <5> QED BY <1>5, <1>8, <1>10, <4>2, <5>1, <5>2
      <4> QED BY <4>1, <4>2
    <3>2. pages[path[k]] = tree[path[k]] BY <1>6, <3>1, HashInjective
    <3> QED BY <1>3, <3>2
  <2>3. \A k \in 0 .. n : k \in Same
    <3> HIDE DEF Same
    <3> QED BY <1>3, <2>1, <2>2, BoundedInduction
  <2>4. j \in Same BY <1>3, <2>3
  <2> QED BY <2>4
<1>11. (\A p \in Tree!ToSet(path) : pages[p] = tree[p])
         <=> \A k \in 1 .. n : pages[path[k]] = tree[path[k]]
  BY <1>4
<1> QED BY <1>9, <1>10, <1>11 DEF tree

-----------------------------------------------------------------------------
(* The loop over the paths of a write.                                      *)

\* What the loop has computed once it has rewritten the pages of `dirty`: pages
\* and root are those of the tree built with the new contents.
Rewriting(c, D, contents, dirty) ==
  [pages |-> [p \in D |-> Tree!Built(Update(c, dirty, contents))[p]],
   root  |-> Tree!hash_embedded_page(0, Tree!Built(Update(c, dirty, contents))[0]),
   dirty |-> dirty,
   ok    |-> TRUE]

\* The same after an invalid path.
Stopped(acc) == [pages |-> acc.pages, root |-> acc.root, dirty |-> acc.dirty, ok |-> FALSE]

\* Fields of the overlay, whether the loop goes on or stopped.
LEMMA RewritingFields ==
  ASSUME NEW c, NEW D, NEW contents, NEW dirty,
         NEW acc, acc \in {Rewriting(c, D, contents, dirty), Stopped(Rewriting(c, D, contents, dirty))}
  PROVE  /\ acc.pages = [p \in D |-> Tree!Built(Update(c, dirty, contents))[p]]
         /\ acc.root = Tree!hash_embedded_page(0, Tree!Built(Update(c, dirty, contents))[0])
         /\ acc.dirty = dirty
<1>1. CASE acc = Rewriting(c, D, contents, dirty) BY <1>1 DEF Rewriting, Stopped
<1>2. CASE acc = Stopped(Rewriting(c, D, contents, dirty))
  <2>1. acc = [pages |-> [p \in D |-> Tree!Built(Update(c, dirty, contents))[p]],
               root  |-> Tree!hash_embedded_page(0, Tree!Built(Update(c, dirty, contents))[0]),
               dirty |-> dirty,
               ok    |-> FALSE]
    BY <1>2 DEF Rewriting, Stopped
  <2> QED BY <2>1
<1> QED BY <1>1, <1>2

\* Stopping keeps everything but the flag.
LEMMA StoppedFields ==
  ASSUME NEW R, NEW acc \in {R, Stopped(R)}
  PROVE  /\ acc.ok => acc = R
         /\ Stopped(acc) = Stopped(R)
<1>1. CASE acc = R BY <1>1
<1>2. CASE acc = Stopped(R) BY <1>2 DEF Stopped
<1> QED BY <1>1, <1>2

\* Two writes of the same contents are one.
LEMMA UpdateTwice ==
  ASSUME NEW c, NEW on, NEW more, NEW contents
  PROVE  Update(Update(c, on, contents), more, contents) = Update(c, on \cup more, contents)
BY DEF Update

\* A write of nothing.
LEMMA UpdateNone ==
  ASSUME NEW c, NEW contents
  PROVE  \A p \in Buckets : Tree!Built(Update(c, {}, contents))[p] = Tree!Built(c)[p]
<1>1. Closed({}) BY DEF Closed
<1>2. \A p \in Buckets : p \notin {} OBVIOUS
<1> QED BY <1>1, <1>2, OthersStay

\* One path of the loop.
LEMMA OnePath ==
  ASSUME NEW c, NEW D, D \subseteq Buckets, NEW contents, NEW dirty, dirty \subseteq D,
         NEW path \in Seq(Nat), Tree!validate_path(path), Tree!ToSet(path) \subseteq D,
         NEW original
  PROVE  Tree!PathStep(original, Rewriting(c, D, contents, dirty), path, contents)
           = Rewriting(c, D, contents, dirty \cup Tree!ToSet(path))
<1> DEFINE acc == Rewriting(c, D, contents, dirty)
           on == Tree!ToSet(path)
           c1 == Update(c, dirty, contents)
           c2 == Update(c, dirty \cup on, contents)
           new == Tree!Rehash(on, contents, acc.pages)
<1>1. acc.pages = [p \in D |-> Tree!Built(c1)[p]] /\ acc.dirty = dirty BY RewritingFields
<1>2. 0 \in on /\ on \subseteq Buckets /\ Closed(on) BY PathIsClosed
<1>3. on \subseteq D OBVIOUS
<1>4. Update(c1, on, contents) = c2 BY UpdateTwice
<1>5. Tree!PathStep(original, acc, path, contents)
        = [pages |-> new, root |-> Tree!hash_embedded_page(0, new[0]),
           dirty |-> acc.dirty \cup on, ok |-> TRUE]
  BY DEF Tree!PathStep
<1>6. Rewriting(c, D, contents, dirty \cup on)
        = [pages |-> [p \in D |-> Tree!Built(c2)[p]],
           root |-> Tree!hash_embedded_page(0, Tree!Built(c2)[0]),
           dirty |-> dirty \cup on, ok |-> TRUE]
  BY DEF Rewriting
<1> HIDE DEF acc, on, c1, c2
<1>7. DOMAIN acc.pages = D /\ \A p \in D : acc.pages[p] = Tree!Built(c1)[p] BY <1>1
<1>8. \A p \in D : new[p] = Tree!Built(c2)[p]
  BY <1>2, <1>3, <1>4, <1>7, RehashIsBuilt
<1>9. new = [p \in D |-> NewPage(on, contents, acc.pages, new, p)] BY <1>3, <1>7, RehashIs
<1> HIDE DEF new
<1>10. new = [p \in D |-> new[p]] BY <1>9
<1>11. new = [p \in D |-> Tree!Built(c2)[p]] BY <1>8, <1>10
<1>12. new[0] = Tree!Built(c2)[0] BY <1>2, <1>3, <1>8
<1>13. Tree!PathStep(original, acc, path, contents) = Rewriting(c, D, contents, dirty \cup on)
  BY <1>1, <1>5, <1>6, <1>11, <1>12
<1> QED BY <1>13 DEF acc, on

\* A call without paths.
LEMMA EmptyLoop ==
  ASSUME NEW contents, NEW pages
  PROVE  Tree!RewritePaths(<<>>, contents, pages)
           = [pages |-> pages, root |-> root_hash, dirty |-> {}, ok |-> TRUE]
<1> DEFINE start == [pages |-> pages, root |-> root_hash, dirty |-> {}, ok |-> TRUE]
           Next1(f, n) == IF f[n - 1].ok /\ Tree!validate_path(<<>>[n])
                          THEN Tree!PathStep(pages, f[n - 1], <<>>[n], contents)
                          ELSE [pages |-> f[n - 1].pages, root |-> f[n - 1].root,
                                dirty |-> f[n - 1].dirty, ok |-> FALSE]
           after == CHOOSE f : f = [n \in 0 .. 0 |-> IF n = 0 THEN start ELSE Next1(f, n)]
<1>1. Tree!RewritePaths(<<>>, contents, pages) = after[0] BY DEF Tree!RewritePaths
<1> HIDE DEF start, Next1
<1>2. \A f : [n \in 0 .. 0 |-> IF n = 0 THEN start ELSE Next1(f, n)] = [n \in 0 .. 0 |-> start]
  OBVIOUS
<1>3. after = [n \in 0 .. 0 |-> start] BY <1>2
<1> QED BY <1>1, <1>3 DEF start

\* The pages that a list of paths names, and the lists of paths.
LEMMA PathsOf ==
  ASSUME NEW paths \in Seq(Seq(Nat)), NEW i \in 1 .. Len(paths)
  PROVE  paths[i] \in Seq(Nat) /\ Tree!ToSet(paths[i]) \subseteq Tree!PagesOf(paths)
BY DEF Tree!PagesOf

\* The whole loop, from pages of the tree the root stands for: it ends with pages
\* and root of the tree that has the new contents in the pages it calls dirty.
LEMMA LoopRewrites ==
  ASSUME NEW paths \in Seq(Seq(Nat)), NEW contents, NEW c,
         NEW D, D \subseteq Buckets, Tree!PagesOf(paths) \subseteq D,
         NEW pages, pages = [p \in D |-> Tree!Built(c)[p]],
         root_hash = Tree!hash_embedded_page(0, Tree!Built(c)[0])
  PROVE  \E dirty \in SUBSET D :
           Tree!RewritePaths(paths, contents, pages)
             \in {Rewriting(c, D, contents, dirty), Stopped(Rewriting(c, D, contents, dirty))}
<1> DEFINE S == {Rewriting(c, D, contents, dirty) : dirty \in SUBSET D}
                  \cup {Stopped(Rewriting(c, D, contents, dirty)) : dirty \in SUBSET D}
           Step(k, acc) == IF acc.ok /\ Tree!validate_path(paths[k])
                           THEN Tree!PathStep(pages, acc, paths[k], contents) ELSE Stopped(acc)
           step == [x \in Nat \X S |-> IF x[1] + 1 \in 1 .. Len(paths) THEN Step(x[1] + 1, x[2])
                                       ELSE x[2]]
           start == [pages |-> pages, root |-> root_hash, dirty |-> {}, ok |-> TRUE]
<1>1. start \in S
  <2>1. \A p \in Buckets : Tree!Built(Update(c, {}, contents))[p] = Tree!Built(c)[p] BY UpdateNone
  <2>2. pages = [p \in D |-> Tree!Built(Update(c, {}, contents))[p]] BY <2>1
  <2>3. 0 \in Buckets BY BucketsAssumption DEF Buckets
  <2>4. root_hash = Tree!hash_embedded_page(0, Tree!Built(Update(c, {}, contents))[0])
    BY <2>1, <2>3
  <2>5. start = Rewriting(c, D, contents, {}) BY <2>2, <2>4 DEF Rewriting
  <2> HIDE DEF start
  <2> QED BY <2>5
<1>2. ASSUME NEW k \in 1 .. Len(paths), NEW acc \in S PROVE Step(k, acc) \in S
  <2>1. PICK dirty \in SUBSET D :
          acc \in {Rewriting(c, D, contents, dirty), Stopped(Rewriting(c, D, contents, dirty))}
    BY <1>2
  <2>2. /\ acc.ok => acc = Rewriting(c, D, contents, dirty)
        /\ Stopped(acc) = Stopped(Rewriting(c, D, contents, dirty))
    BY <2>1, StoppedFields
  <2>3. paths[k] \in Seq(Nat) /\ Tree!ToSet(paths[k]) \subseteq D BY PathsOf
  <2>4. CASE acc.ok /\ Tree!validate_path(paths[k])
    <3>1. acc = Rewriting(c, D, contents, dirty) BY <2>2, <2>4
    <3>2. Tree!PathStep(pages, Rewriting(c, D, contents, dirty), paths[k], contents)
            = Rewriting(c, D, contents, dirty \cup Tree!ToSet(paths[k]))
      BY <2>3, <2>4, OnePath
    <3>3. Step(k, acc) = Rewriting(c, D, contents, dirty \cup Tree!ToSet(paths[k]))
      BY <2>4, <3>1, <3>2
    <3>4. dirty \cup Tree!ToSet(paths[k]) \in SUBSET D BY <2>3
    <3> HIDE DEF Step
    <3> QED BY <3>3, <3>4
  <2>5. CASE ~(acc.ok /\ Tree!validate_path(paths[k]))
    <3>1. Step(k, acc) = Stopped(Rewriting(c, D, contents, dirty)) BY <2>2, <2>5
    <3> HIDE DEF Step
    <3> QED BY <3>1
  <2> QED BY <2>4, <2>5
<1>3. Len(paths) \in Nat OBVIOUS
<1> HIDE DEF S, Step, start
<1>4. step \in Steps(S) BY <1>2 DEF Steps
<1> DEFINE n == Len(paths)
           body(f) == [k \in 0 .. n |-> IF k = 0 THEN start ELSE Step(k, f[k - 1])]
<1>5. PICK f : LoopOf(f, S, start, step, n)
  <2> HIDE DEF step
  <2> QED BY <1>1, <1>3, <1>4, Loop
<1>6. ASSUME NEW k \in 1 .. n, NEW x \in S PROVE step[<<k - 1, x>>] = Step(k, x)
  <2>1. k - 1 \in Nat /\ (k - 1) + 1 = k BY <1>3
  <2> QED BY <2>1
<1>7. f = body(f)
  <2>1. f = [k \in 0 .. n |-> IF k = 0 THEN start ELSE step[<<k - 1, f[k - 1]>>]]
        /\ \A k \in 0 .. n : f[k] \in S
    BY <1>5 DEF LoopOf
  <2>2. ASSUME NEW k \in 1 .. n PROVE step[<<k - 1, f[k - 1]>>] = Step(k, f[k - 1])
    <3>1. k - 1 \in 0 .. n BY <1>3
    <3> HIDE DEF step
    <3> QED BY <1>6, <2>1, <3>1
  <2> HIDE DEF step
  <2>3. \A k \in 0 .. n : k # 0 => k \in 1 .. n BY <1>3
  <2> QED BY <2>1, <2>2, <2>3
<1>8. \A g : g = body(g) => \A k \in 0 .. n : g[k] \in S
  <2> SUFFICES ASSUME NEW g, g = body(g) PROVE \A k \in 0 .. n : g[k] \in S OBVIOUS
  <2> DEFINE P == {k \in Nat : k \in 0 .. n => g[k] \in S}
  <2>1. 0 \in P
    <3>1. 0 \in 0 .. n => g[0] = start OBVIOUS
    <3> QED BY <1>1, <3>1
  <2>2. ASSUME NEW k \in 1 .. n, k - 1 \in P PROVE k \in P
    <3>1. k \in 0 .. n /\ k - 1 \in 0 .. n /\ k # 0 BY <1>3
    <3>2. g[k] = Step(k, g[k - 1]) BY <3>1
    <3>3. g[k - 1] \in S BY <2>2, <3>1
    <3>4. g[k] \in S BY <1>2, <3>2, <3>3
    <3> QED BY <1>3, <3>4
  <2>3. \A k \in 0 .. n : k \in P
    <3> HIDE DEF P
    <3> QED BY <1>3, <2>1, <2>2, BoundedInduction
  <2> QED BY <2>3
<1> DEFINE after == CHOOSE g : g = body(g)
<1>9. after = body(after)
  <2> HIDE DEF body
  <2> QED BY <1>7
<1>10. after[n] \in S
  <2> HIDE DEF after, body
  <2>1. n \in 0 .. n BY <1>3
  <2> QED BY <1>8, <1>9, <2>1
<1>11. Tree!RewritePaths(paths, contents, pages) = after[n]
  BY DEF Tree!RewritePaths, Step, start, Stopped
<1> HIDE DEF after
<1> QED BY <1>10, <1>11 DEF S

-----------------------------------------------------------------------------
(* The inductive invariant.                                                 *)

RootOf(contents) == Tree!hash_embedded_page(0, Tree!Built(contents)[0])

\* Stored pages are pages, whatever became of them; the trusted root and the
\* saved one are roots of whole trees; a cache belongs to the trusted root and has
\* pages of its tree.
StoredInv ==
  /\ DOMAIN inner = Buckets
  /\ \A p \in Buckets : IsPage(inner[p]) /\ IsPage(saved.pages[p])

RootInv == root_hash = RootOf(committed) /\ saved.root_hash = RootOf(saved.contents)

CacheInv ==
  cache # Tree!None =>
    /\ cache.root_hash = root_hash
    /\ DOMAIN cache.pages \subseteq Buckets
    /\ cache.pages = [p \in DOMAIN cache.pages |-> Tree!Built(committed)[p]]

TreeInv == StoredInv /\ RootInv /\ CacheInv

\* A new store has the root and the pages of the built tree.
LEMMA TreeInvInit == Tree!Init => TreeInv
<1> SUFFICES ASSUME Tree!Init PROVE TreeInv OBVIOUS
<1>1. /\ inner = Tree!Built(committed)
      /\ root_hash = Tree!hash_embedded_page(0, inner[0])
      /\ cache = Tree!None
      /\ saved = [pages |-> inner, root_hash |-> root_hash, contents |-> committed]
  BY DEF Tree!Init
<1>2. DOMAIN inner = Buckets /\ \A p \in Buckets : IsPage(inner[p]) BY <1>1, BuiltIs
<1>3. saved.pages = inner /\ saved.root_hash = root_hash /\ saved.contents = committed BY <1>1
<1>4. StoredInv BY <1>2, <1>3 DEF StoredInv
<1>5. RootInv BY <1>1, <1>3 DEF RootInv, RootOf
<1> QED BY <1>1, <1>4, <1>5 DEF TreeInv, CacheInv

\* A list of paths is read exactly if its pages are those the root vouches for.
LEMMA ReadsCommitted ==
  ASSUME TreeInv, NEW paths \in PathRequests
  PROVE  /\ Tree!VerifiedRead(paths) <=> Tree!Intact(paths)
         /\ Tree!VerifiedRead(paths) =>
              /\ Tree!PagesOf(paths) \subseteq Buckets
              /\ \A p \in Tree!PagesOf(paths) : inner[p] = Tree!Built(committed)[p]
<1>1. paths \in Seq(Seq(Nat)) /\ DOMAIN paths = 1 .. Len(paths) BY BucketsAssumption
<1>2. \A i \in DOMAIN paths : paths[i] \in Seq(Nat) BY <1>1
<1>3. \A p \in Buckets : IsPage(inner[p]) BY DEF TreeInv, StoredInv
<1>4. root_hash = Tree!hash_embedded_page(0, Tree!Built(committed)[0])
  BY DEF TreeInv, RootInv, RootOf
<1>5. ASSUME NEW i \in DOMAIN paths, Tree!validate_path(paths[i])
      PROVE  /\ Tree!verify_path_from_pages(paths[i], inner, root_hash)
                  <=> \A p \in Tree!ToSet(paths[i]) : inner[p] = Tree!Built(committed)[p]
             /\ Tree!ToSet(paths[i]) \subseteq Buckets
  BY <1>2, <1>3, <1>4, <1>5, PathVerifies, PathIsClosed
<1>6. Tree!PagesOf(paths) = UNION {Tree!ToSet(paths[i]) : i \in DOMAIN paths} BY DEF Tree!PagesOf
<1>7. (\A p \in Tree!PagesOf(paths) : inner[p] = Tree!Built(committed)[p])
        <=> \A i \in DOMAIN paths :
              \A p \in Tree!ToSet(paths[i]) : inner[p] = Tree!Built(committed)[p]
  BY <1>6
<1>8. Tree!VerifiedRead(paths) <=> Tree!Intact(paths)
  BY <1>5, <1>7 DEF Tree!VerifiedRead, Tree!Intact, Tree!CommittedPage
<1>9. Tree!VerifiedRead(paths) => Tree!PagesOf(paths) \subseteq Buckets
  BY <1>5, <1>6 DEF Tree!VerifiedRead
<1>10. Tree!VerifiedRead(paths) => \A p \in Tree!PagesOf(paths) : inner[p] = Tree!Built(committed)[p]
  BY <1>8 DEF Tree!Intact, Tree!CommittedPage
<1> QED BY <1>8, <1>9, <1>10

\* read_paths keeps the invariant: what it caches has verified.
LEMMA ReadKeepsTree ==
  ASSUME TreeInv, NEW paths \in PathRequests, Tree!read_paths(paths)
  PROVE  TreeInv'
<1>1. UNCHANGED <<inner, root_hash, saved, committed>> BY DEF Tree!read_paths
<1>2. StoredInv' /\ RootInv' BY <1>1 DEF TreeInv, StoredInv, RootInv
<1>3. CASE UNCHANGED cache BY <1>1, <1>2, <1>3 DEF TreeInv, CacheInv
<1>4. CASE /\ Tree!VerifiedRead(paths)
           /\ cache' = [root_hash |-> root_hash, pages |-> [p \in Tree!PagesOf(paths) |-> inner[p]]]
  <2>1. Tree!PagesOf(paths) \subseteq Buckets
        /\ \A p \in Tree!PagesOf(paths) : inner[p] = Tree!Built(committed)[p]
    BY <1>4, ReadsCommitted
  <2>2. /\ cache'.root_hash = root_hash
        /\ cache'.pages = [p \in Tree!PagesOf(paths) |-> inner[p]]
    BY <1>4
  <2>3. /\ DOMAIN cache'.pages = Tree!PagesOf(paths)
        /\ cache'.pages = [p \in Tree!PagesOf(paths) |-> Tree!Built(committed)[p]]
    BY <2>1, <2>2
  <2>4. CacheInv' BY <1>1, <2>1, <2>2, <2>3 DEF CacheInv
  <2> QED BY <1>2, <2>4 DEF TreeInv
<1> QED BY <1>3, <1>4 DEF Tree!read_paths

\* A write works on pages of the tree the root stands for.
LEMMA WorkingPagesAre ==
  ASSUME TreeInv, NEW paths \in PathRequests, Tree!MayRewrite(paths),
         NEW pages, pages = Tree!WorkingPages(paths)
  PROVE  /\ DOMAIN pages \subseteq Buckets
         /\ Tree!PagesOf(paths) \subseteq DOMAIN pages
         /\ pages = [p \in DOMAIN pages |-> Tree!Built(committed)[p]]
<1>1. CASE Tree!CacheUsable(paths)
  <2>1. pages = cache.pages BY <1>1 DEF Tree!WorkingPages
  <2> QED BY <1>1, <2>1 DEF Tree!CacheUsable, Tree!cache_covers_paths, TreeInv, CacheInv
<1>2. CASE ~Tree!CacheUsable(paths)
  <2>1. pages = [p \in Tree!PagesOf(paths) |-> inner[p]] BY <1>2 DEF Tree!WorkingPages
  <2>2. Tree!VerifiedRead(paths) BY <1>2 DEF Tree!MayRewrite
  <2>3. Tree!PagesOf(paths) \subseteq Buckets
        /\ \A p \in Tree!PagesOf(paths) : inner[p] = Tree!Built(committed)[p]
    BY <2>2, ReadsCommitted
  <2>4. pages = [p \in Tree!PagesOf(paths) |-> Tree!Built(committed)[p]] BY <2>1, <2>3
  <2> QED BY <2>3, <2>4
<1> QED BY <1>1, <1>2

\* The root moves with the pages of the loop; some of them reach the store.
LEMMA WriteKeepsTree ==
  ASSUME TreeInv, NEW paths \in PathRequests, NEW contents, Tree!write_paths(paths, contents)
  PROVE  TreeInv'
<1>0. saved' = saved /\ cache' = IF paths = <<>> THEN cache ELSE Tree!None
  BY DEF Tree!write_paths, Tree!CacheAfterWrite
<1>1. CASE UNCHANGED <<inner, root_hash, committed>>
  <2>1. StoredInv' /\ RootInv' BY <1>0, <1>1 DEF TreeInv, StoredInv, RootInv
  <2>2. CacheInv' BY <1>0, <1>1 DEF TreeInv, CacheInv
  <2> QED BY <2>1, <2>2 DEF TreeInv
<1>2. CASE Tree!MayRewrite(paths)
           /\ \E result \in {Tree!RewritePaths(paths, contents, Tree!WorkingPages(paths))} :
                /\ root_hash' = result.root
                /\ committed' = [p \in Tree!Page |-> IF p \in result.dirty THEN contents[p]
                                                     ELSE committed[p]]
                /\ \/ result.ok /\ Tree!StoreDirty(result)
                   \/ ~result.ok /\ reply' = Tree!Failed /\ inner' = inner
  <2> DEFINE pages == Tree!WorkingPages(paths)
             D == DOMAIN pages
             result == Tree!RewritePaths(paths, contents, pages)
  <2>1. /\ D \subseteq Buckets
        /\ Tree!PagesOf(paths) \subseteq D
        /\ pages = [p \in D |-> Tree!Built(committed)[p]]
    BY <1>2, WorkingPagesAre
  <2>2. paths \in Seq(Seq(Nat)) BY BucketsAssumption
  <2>3. root_hash = Tree!hash_embedded_page(0, Tree!Built(committed)[0])
    BY DEF TreeInv, RootInv, RootOf
  <2>4. /\ root_hash' = result.root
        /\ committed' = [p \in Tree!Page |-> IF p \in result.dirty THEN contents[p]
                                             ELSE committed[p]]
        /\ Tree!StoreDirty(result) \/ inner' = inner
    BY <1>2
  <2>5. PICK dirty \in SUBSET D :
          result \in {Rewriting(committed, D, contents, dirty),
                      Stopped(Rewriting(committed, D, contents, dirty))}
    <3> HIDE DEF D, pages
    <3> QED BY <2>1, <2>2, <2>3, LoopRewrites
  <2> DEFINE c == Update(committed, dirty, contents)
  <2> HIDE DEF result, D, pages
  <2>6. /\ result.pages = [p \in D |-> Tree!Built(c)[p]]
        /\ result.root = RootOf(c)
        /\ result.dirty = dirty
    BY <2>5, RewritingFields DEF RootOf
  <2>7. committed' = c BY <2>4, <2>6, BucketsArePages DEF Update
  <2>8. RootInv'
    <3>1. root_hash' = RootOf(c) BY <2>4, <2>6
    <3>2. saved.root_hash = RootOf(saved.contents) BY DEF TreeInv, RootInv
    <3> HIDE DEF c
    <3> QED BY <1>0, <2>7, <3>1, <3>2 DEF RootInv, RootOf
  <2>9. DOMAIN inner' = Buckets /\ \A p \in Buckets : IsPage(inner'[p])
    <3>1. DOMAIN inner = Buckets /\ \A p \in Buckets : IsPage(inner[p]) BY DEF TreeInv, StoredInv
    <3>2. CASE inner' = inner BY <3>1, <3>2
    <3>3. CASE Tree!StoreDirty(result)
      <4>1. PICK end \in 0 .. BucketPages :
              inner' = [p \in Buckets |->
                IF p \in result.dirty /\ p < end THEN result.pages[p] ELSE inner[p]]
        BY <3>3, BucketsArePages DEF Tree!StoreDirty
      <4>2. \A p \in Buckets : IsPage(Tree!Built(c)[p]) BY BuiltIs
      <4>3. ASSUME NEW p \in Buckets, p \in result.dirty PROVE IsPage(result.pages[p])
        <5>1. p \in D BY <2>6, <4>3
        <5>2. result.pages[p] = Tree!Built(c)[p] BY <2>6, <5>1
        <5> HIDE DEF c
        <5> QED BY <4>2, <5>2
      <4>4. ASSUME NEW p \in Buckets PROVE IsPage(inner'[p])
        <5>1. (inner'[p] = result.pages[p] /\ p \in result.dirty) \/ inner'[p] = inner[p] BY <4>1
        <5> HIDE DEF c
        <5> QED BY <3>1, <4>3, <5>1
      <4> QED BY <4>1, <4>4
    <3> QED BY <2>4, <3>2, <3>3
  <2>10. StoredInv' BY <1>0, <2>9 DEF TreeInv, StoredInv
  <2>11. CacheInv'
    <3>1. CASE paths # <<>> BY <1>0, <3>1 DEF CacheInv
    <3>2. CASE paths = <<>>
      <4>1. result = [pages |-> pages, root |-> root_hash, dirty |-> {}, ok |-> TRUE]
        BY <3>2, EmptyLoop DEF result
      <4>2. dirty = {} /\ root_hash' = root_hash BY <2>4, <2>6, <4>1
      <4>3. \A p \in Buckets : Tree!Built(c)[p] = Tree!Built(committed)[p] BY <4>2, UpdateNone
      <4> HIDE DEF c
      <4>4. cache' = cache BY <1>0, <3>2
      <4>5. CASE cache # Tree!None
        <5>1. /\ cache.root_hash = root_hash
              /\ DOMAIN cache.pages \subseteq Buckets
              /\ cache.pages = [p \in DOMAIN cache.pages |-> Tree!Built(committed)[p]]
          BY <4>5 DEF TreeInv, CacheInv
        <5>2. cache.pages = [p \in DOMAIN cache.pages |-> Tree!Built(c)[p]] BY <4>3, <5>1
        <5> QED BY <2>7, <4>2, <4>4, <5>1, <5>2 DEF CacheInv
      <4>6. CASE cache = Tree!None BY <4>4, <4>6 DEF CacheInv
      <4> QED BY <4>5, <4>6
    <3> QED BY <3>1, <3>2
  <2> QED BY <2>8, <2>10, <2>11 DEF TreeInv
<1> QED BY <1>1, <1>2 DEF Tree!write_paths

\* Every step of the embedded tree keeps the invariant.
LEMMA TreeInvStep == TreeInv /\ Tree!Next => TreeInv'
<1> SUFFICES ASSUME TreeInv, Tree!Next PROVE TreeInv' OBVIOUS
<1>1. CASE Tree!save
  <2>1. /\ saved' = [pages |-> inner, root_hash |-> root_hash, contents |-> committed]
        /\ UNCHANGED <<inner, root_hash, cache, committed>>
    BY <1>1 DEF Tree!save
  <2>2. saved'.pages = inner /\ saved'.root_hash = root_hash /\ saved'.contents = committed BY <2>1
  <2>3. StoredInv' BY <2>1, <2>2 DEF TreeInv, StoredInv
  <2>4. RootInv' BY <2>1, <2>2 DEF TreeInv, RootInv
  <2>5. CacheInv' BY <2>1 DEF TreeInv, CacheInv
  <2> QED BY <2>3, <2>4, <2>5 DEF TreeInv
<1>2. CASE Tree!from_state
  <2>1. /\ root_hash' = saved.root_hash /\ committed' = saved.contents /\ cache' = Tree!None
        /\ UNCHANGED <<inner, saved>>
    BY <1>2 DEF Tree!from_state
  <2>2. StoredInv' BY <2>1 DEF TreeInv, StoredInv
  <2>3. RootInv' BY <2>1 DEF TreeInv, RootInv
  <2>4. CacheInv' BY <2>1 DEF CacheInv
  <2> QED BY <2>2, <2>3, <2>4 DEF TreeInv
<1>3. CASE \E p \in Tree!Page : Tree!page_fault(p)
  <2>1. PICK p \in Buckets : Tree!page_fault(p) BY <1>3, BucketsArePages
  <2>2. UNCHANGED <<root_hash, cache, saved, committed>> BY <2>1 DEF Tree!page_fault
  <2>3. PICK version \in {saved.pages[p]} \cup {inner[q] : q \in Buckets \ {p}} :
          inner' = [inner EXCEPT ![p] = version]
    BY <2>1, BucketsArePages DEF Tree!page_fault
  <2>4. IsPage(version) BY <2>3 DEF TreeInv, StoredInv
  <2>5. StoredInv' BY <2>2, <2>3, <2>4 DEF TreeInv, StoredInv
  <2>6. RootInv' BY <2>2 DEF TreeInv, RootInv
  <2>7. CacheInv' BY <2>2 DEF TreeInv, CacheInv
  <2> QED BY <2>5, <2>6, <2>7 DEF TreeInv
<1>4. ASSUME NEW paths \in PathRequests, Tree!read_paths(paths) PROVE TreeInv'
  BY <1>4, ReadKeepsTree
<1>5. ASSUME NEW paths \in PathRequests, NEW contents, Tree!write_paths(paths, contents) PROVE TreeInv'
  BY <1>5, WriteKeepsTree
<1> QED BY <1>1, <1>2, <1>3, <1>4, <1>5 DEF Tree!Next

WhenEmbedded == store = "embedded" => TreeInv

\* The invariant of the embedded tree, in behaviours about it.
LEMMA WhenEmbeddedHolds == StoresSpec => []WhenEmbedded
<1>1. StoresInit => WhenEmbedded BY TreeInvInit DEF StoresInit, WhenEmbedded
<1>2. WhenEmbedded /\ [merkle_call \/ embedded_call]_allVars => WhenEmbedded'
  <2> SUFFICES ASSUME WhenEmbedded, [merkle_call \/ embedded_call]_allVars, store' = "embedded"
               PROVE  TreeInv'
    BY DEF WhenEmbedded
  <2>1. CASE merkle_call BY <2>1 DEF merkle_call
  <2>2. CASE embedded_call
    <3>1. TreeInv /\ Tree!Next BY <2>2 DEF embedded_call, WhenEmbedded
    <3> QED BY <3>1, TreeInvStep
  <2>3. CASE UNCHANGED allVars
    <3>1. TreeInv BY <2>3 DEF allVars, WhenEmbedded
    <3>2. UNCHANGED <<inner, root_hash, cache, saved, committed>>
      BY <2>3 DEF allVars, vars, bucketVars
    <3> QED BY <3>1, <3>2 DEF TreeInv, StoredInv, RootInv, CacheInv
  <2> QED BY <2>1, <2>2, <2>3
<1> QED BY <1>1, <1>2, PTL DEF StoresSpec

\* For every number of bucket pages and every list of paths: whatever writes of
\* overlapping paths, failed writes, faults and reopenings there were, the trusted
\* root of the embedded tree is that of a whole tree with the contents of the
\* writes (write_paths, from_state of src/src/embedded_tree.rs).
THEOREM RootStandsForAllWrites == StoresSpec => []RootCovers
<1>1. WhenEmbedded => RootCovers
  BY DEF WhenEmbedded, RootCovers, TreeInv, RootInv, RootOf, Tree!RootCoversAllWrites,
         Tree!CommittedPage
<1> QED BY <1>1, WhenEmbeddedHolds, PTL

\* The verified_batch_cache that a write uses instead of reading again holds pages
\* of the tree its root stands for.
THEOREM CachedPagesAreOfTheRoot == StoresSpec => []CacheIsCommitted
<1>1. WhenEmbedded => CacheIsCommitted
  <2> SUFFICES ASSUME TreeInv, cache # Tree!None, NEW p \in DOMAIN cache.pages
               PROVE  cache.pages[p] = Tree!CommittedPage(p)
    BY DEF WhenEmbedded, CacheIsCommitted, Tree!CachedPagesAreCommitted
  <2>1. cache.pages = [q \in DOMAIN cache.pages |-> Tree!Built(committed)[q]]
    BY DEF TreeInv, CacheInv
  <2> QED BY <2>1 DEF Tree!CommittedPage
<1> QED BY <1>1, WhenEmbeddedHolds, PTL

\* read_paths succeeds exactly if every page of its paths is the one the root
\* vouches for, for any number of old, misplaced and half-written pages.
THEOREM PathsReadExactly == StoresSpec => ReadsExactly
<1>1. WhenEmbedded /\ [merkle_call \/ embedded_call]_allVars
        => [store = "embedded" => Tree!ReadStep]_allVars
  <2> SUFFICES ASSUME TreeInv, NEW paths \in PathRequests, Tree!read_paths(paths)
               PROVE  reply'.result = "ok" <=> Tree!Intact(paths)
    BY DEF WhenEmbedded, Tree!ReadStep
  <2>1. Tree!VerifiedRead(paths) <=> Tree!Intact(paths) BY ReadsCommitted
  <2>2. CASE Tree!VerifiedRead(paths)
    <3>1. reply'.result = "ok" BY <2>2 DEF Tree!read_paths
    <3> QED BY <2>1, <2>2, <3>1
  <2>3. CASE ~Tree!VerifiedRead(paths)
    <3>1. reply'.result = "err" BY <2>3 DEF Tree!read_paths, Tree!Failed
    <3> QED BY <2>1, <2>3, <3>1
  <2> QED BY <2>2, <2>3
<1> QED BY <1>1, WhenEmbeddedHolds, PTL DEF StoresSpec, ReadsExactly
=============================================================================

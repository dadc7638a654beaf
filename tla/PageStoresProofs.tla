--------------------------- MODULE PageStoresProofs ---------------------------
(***************************************************************************)
(* Theorems about the stack of page stores (PageStores), for every number   *)
(* of pages, size of the cache, list of pages and list of paths, with and   *)
(* without encryption: the cache and the file agree on the pages it does    *)
(* not owe, and the stack is the array of pages of DurablePages.            *)
(***************************************************************************)
EXTENDS PageStores, InductionLemmas, FiniteSetTheorems, SequenceTheorems

-----------------------------------------------------------------------------
(* Sorting.                                                                *)

\* R orders the members of S strictly and totally.
StrictOrder(R, S) ==
  /\ \A x \in S : <<x, x>> \notin R
  /\ \A x, y, z \in S : <<x, y>> \in R /\ <<y, z>> \in R => <<x, z>> \in R
  /\ \A x, y \in S : x = y \/ <<x, y>> \in R \/ <<y, x>> \in R

\* f lists n members of S in the order R.
Sorts(f, n, S, R) ==
  f \in [1 .. n -> S] /\ \A j, k \in 1 .. n : j < k => <<f[j], f[k]>> \in R

\* A finite set can be listed in any strict order.
LEMMA SortExists ==
  ASSUME NEW S, IsFiniteSet(S), NEW R, StrictOrder(R, S)
  PROVE  \E f : Sorts(f, Cardinality(S), S, R)
<1> DEFINE n == Cardinality(S)
           Before(x) == {y \in S : <<y, x>> \in R}
           rank == [x \in S |-> Cardinality(Before(x)) + 1]
<1>1. n \in Nat BY FS_CardinalityType
<1>2. ASSUME NEW x \in S PROVE IsFiniteSet(Before(x)) /\ Cardinality(Before(x)) \in Nat
  <2>1. Before(x) \in SUBSET S OBVIOUS
  <2>2. IsFiniteSet(Before(x))
    <3> HIDE DEF Before
    <3> QED BY <2>1, FS_Subset
  <2> HIDE DEF Before
  <2> QED BY <2>2, FS_CardinalityType
<1>3. ASSUME NEW x \in S PROVE rank[x] \in 1 .. n
  <2>1. Before(x) \in SUBSET S /\ Before(x) # S BY DEF StrictOrder
  <2> HIDE DEF Before
  <2>2. Cardinality(Before(x)) <= n /\ Cardinality(Before(x)) # n BY <2>1, FS_Subset
  <2>3. Cardinality(Before(x)) \in Nat BY <1>2
  <2> QED BY <1>1, <2>2, <2>3
<1>4. ASSUME NEW x \in S, NEW y \in S, <<x, y>> \in R PROVE rank[x] < rank[y]
  <2>1. Before(x) \in SUBSET Before(y) BY <1>4 DEF StrictOrder
  <2>2. Before(x) # Before(y) BY <1>4 DEF StrictOrder
  <2>3. IsFiniteSet(Before(y)) /\ Cardinality(Before(x)) \in Nat /\ Cardinality(Before(y)) \in Nat
    BY <1>2
  <2> HIDE DEF Before
  <2>4. Cardinality(Before(x)) <= Cardinality(Before(y)) /\ Cardinality(Before(x)) # Cardinality(Before(y))
    BY <2>1, <2>2, <2>3, FS_Subset
  <2> QED BY <2>3, <2>4
<1>5. rank \in [S -> 1 .. n] BY <1>3
<1> HIDE DEF rank
<1>6. ASSUME NEW x \in S, NEW y \in S, rank[x] = rank[y] PROVE x = y
  <2>1. rank[x] \in Nat BY <1>3
  <2>2. CASE <<x, y>> \in R BY <1>4, <1>6, <2>1, <2>2
  <2>3. CASE <<y, x>> \in R BY <1>4, <1>6, <2>1, <2>3
  <2> QED BY <2>2, <2>3 DEF StrictOrder
<1>7. rank \in Injection(S, 1 .. n) BY <1>5, <1>6 DEF Injection, IsInjective
<1>8. IsFiniteSet(1 .. n) /\ Cardinality(1 .. n) = n BY <1>1, FS_Interval
<1>9. rank \in Surjection(S, 1 .. n)
  <2>1. Cardinality(S) = Cardinality(1 .. n) BY <1>8
  <2> HIDE DEF n
  <2> QED BY <1>7, <1>8, <2>1, FS_Injection
<1>10. \A k \in 1 .. n : \E x \in S : rank[x] = k BY <1>9 DEF Surjection
<1> DEFINE f == [k \in 1 .. n |-> CHOOSE x \in S : rank[x] = k]
<1>11. \A k \in 1 .. n : f[k] \in S /\ rank[f[k]] = k BY <1>10
<1>12. f \in [1 .. n -> S] BY <1>11
<1> HIDE DEF f
<1>13. ASSUME NEW j \in 1 .. n, NEW k \in 1 .. n, j < k PROVE <<f[j], f[k]>> \in R
  <2>1. f[j] \in S /\ f[k] \in S /\ rank[f[j]] = j /\ rank[f[k]] = k BY <1>11
  <2>2. f[j] # f[k] BY <1>13, <2>1
  <2>3. ~(<<f[k], f[j]>> \in R)
    <3>1. ASSUME <<f[k], f[j]>> \in R PROVE FALSE
      <4>1. rank[f[k]] < rank[f[j]] BY <1>4, <2>1, <3>1
      <4> QED BY <1>13, <2>1, <4>1
    <3> QED BY <3>1
  <2> QED BY <2>1, <2>2, <2>3 DEF StrictOrder
<1> QED BY <1>12, <1>13 DEF Sorts

\* A sorted list of as many members as the set has names each of them once.
LEMMA SortIsBijection ==
  ASSUME NEW S, IsFiniteSet(S), NEW R, StrictOrder(R, S), NEW f, Sorts(f, Cardinality(S), S, R)
  PROVE  /\ \A j, k \in 1 .. Cardinality(S) : f[j] = f[k] => j = k
         /\ \A x \in S : \E k \in 1 .. Cardinality(S) : f[k] = x
<1> DEFINE n == Cardinality(S)
<1>1. n \in Nat BY FS_CardinalityType
<1>2. ASSUME NEW j \in 1 .. n, NEW k \in 1 .. n, f[j] = f[k] PROVE j = k
  <2>1. f[j] \in S /\ f[k] \in S BY DEF Sorts
  <2>2. ~(j < k) BY <1>2, <2>1 DEF Sorts, StrictOrder
  <2>3. ~(k < j) BY <1>2, <2>1 DEF Sorts, StrictOrder
  <2> QED BY <1>1, <2>2, <2>3
<1>3. f \in Injection(1 .. n, S) BY <1>2 DEF Sorts, Injection, IsInjective
<1>4. Cardinality(1 .. n) = n BY <1>1, FS_Interval
<1>5. f \in Surjection(1 .. n, S)
  <2> HIDE DEF n
  <2>1. Cardinality(1 .. n) = Cardinality(S) BY <1>4 DEF n
  <2> QED BY <1>3, <2>1, FS_Injection
<1> QED BY <1>2, <1>5 DEF Surjection

\* Ascending lists a finite set of numbers.
LEMMA AscendingIs ==
  ASSUME NEW S, IsFiniteSet(S), S \subseteq Int
  PROVE  LET n == Cardinality(S)
             f == Ascending(S)
         IN /\ n \in Nat
            /\ f \in [1 .. n -> S]
            /\ \A j, k \in 1 .. n : j < k => f[j] < f[k]
            /\ \A j, k \in 1 .. n : f[j] = f[k] => j = k
            /\ \A x \in S : \E k \in 1 .. n : f[k] = x
<1> DEFINE n == Cardinality(S)
           R == {x \in S \X S : x[1] < x[2]}
           f == Ascending(S)
<1>1. n \in Nat BY FS_CardinalityType
<1>2. \A x, y \in S : <<x, y>> \in R <=> x < y OBVIOUS
<1> HIDE DEF R
<1>3. StrictOrder(R, S) BY <1>2 DEF StrictOrder
<1>4. PICK g : Sorts(g, n, S, R) BY <1>3, SortExists
<1>5. g \in [1 .. n -> S] /\ DOMAIN g = 1 .. n /\ \A j, k \in DOMAIN g : j < k => g[j] < g[k]
  BY <1>2, <1>4 DEF Sorts
<1>6. f \in [1 .. n -> S] /\ \A j, k \in DOMAIN f : j < k => f[j] < f[k]
  BY <1>5 DEF Ascending
<1> HIDE DEF f
<1>7. Sorts(f, n, S, R) BY <1>2, <1>6 DEF Sorts
<1>8. /\ \A j, k \in 1 .. n : f[j] = f[k] => j = k
      /\ \A x \in S : \E k \in 1 .. n : f[k] = x
  BY <1>3, <1>7, SortIsBijection
<1>9. \A j, k \in 1 .. n : j < k => f[j] < f[k] BY <1>6
<1> QED BY <1>1, <1>6, <1>8, <1>9 DEF f

\* A list of n members is a sequence of length n.
LEMMA ListLen ==
  ASSUME NEW n \in Nat, NEW S, NEW f \in [1 .. n -> S]
  PROVE  f \in Seq(S) /\ Len(f) = n
<1>1. f \in Seq(S) OBVIOUS
<1>2. DOMAIN f = 1 .. n /\ DOMAIN f = 1 .. Len(f) BY <1>1
<1>3. Len(f) \in Nat BY <1>1
<1> QED BY <1>1, <1>2, <1>3

\* The greatest member of a bounded set of numbers.
LEMMA MaxIs ==
  ASSUME NEW n \in Nat, NEW S, S \subseteq 0 .. n, S # {}
  PROVE  Max(S) \in S /\ \A x \in S : x <= Max(S)
<1>1. PICK m \in S : \A x \in S : x <= m BY GreatestNatural
<1>2. \A x \in S : m >= x BY <1>1
<1>3. Max(S) \in S /\ \A x \in S : Max(S) >= x BY <1>2 DEF Max
<1>4. \A x \in S : x \in Int OBVIOUS
<1> QED BY <1>3, <1>4

\* The least member of a set of numbers.
LEMMA MinIs ==
  ASSUME NEW S, S \subseteq Nat, S # {}
  PROVE  Min(S) \in S /\ \A x \in S : Min(S) <= x
<1>1. PICK m \in S : \A x \in S : m <= x BY LeastNatural
<1>2. Min(S) \in S /\ \A x \in S : Min(S) =< x BY <1>1 DEF Min
<1> QED BY <1>2

-----------------------------------------------------------------------------
(* Bulk calls on the file.                                                 *)

\* page_order lists every position of a call once, by page and then by position.
LEMMA PageOrderIs ==
  ASSUME NEW n \in Nat, NEW indices \in [1 .. n -> Nat]
  PROVE  LET f == page_order(indices)
         IN /\ f \in [1 .. n -> 1 .. n]
            /\ \A j, k \in 1 .. n : f[j] = f[k] => j = k
            /\ \A x \in 1 .. n : \E k \in 1 .. n : f[k] = x
            /\ \A j, k \in 1 .. n : j < k => indices[f[j]] <= indices[f[k]]
<1> DEFINE S == 1 .. n
           R == {x \in S \X S : \/ indices[x[1]] < indices[x[2]]
                                \/ indices[x[1]] = indices[x[2]] /\ x[1] < x[2]}
           f == page_order(indices)
<1>1. IsFiniteSet(S) /\ Cardinality(S) = n BY FS_Interval
<1>2. \A x, y \in S : <<x, y>> \in R <=> \/ indices[x] < indices[y]
                                         \/ indices[x] = indices[y] /\ x < y
  OBVIOUS
<1>3. \A x \in S : x \in Nat /\ indices[x] \in Nat OBVIOUS
<1>4. DOMAIN indices = S OBVIOUS
<1> HIDE DEF R, S
<1>5. StrictOrder(R, S)
  <2>1. \A x \in S : <<x, x>> \notin R BY <1>2, <1>3
  <2>2. ASSUME NEW x \in S, NEW y \in S, NEW z \in S, <<x, y>> \in R, <<y, z>> \in R
        PROVE  <<x, z>> \in R
    <3>1. /\ x \in Nat /\ y \in Nat /\ z \in Nat
          /\ indices[x] \in Nat /\ indices[y] \in Nat /\ indices[z] \in Nat
      BY <1>3
    <3>2. indices[x] < indices[y] \/ (indices[x] = indices[y] /\ x < y) BY <1>2, <2>2
    <3>3. indices[y] < indices[z] \/ (indices[y] = indices[z] /\ y < z) BY <1>2, <2>2
    <3>4. indices[x] < indices[z] \/ (indices[x] = indices[z] /\ x < z) BY <3>1, <3>2, <3>3
    <3> QED BY <1>2, <3>4
  <2>3. ASSUME NEW x \in S, NEW y \in S PROVE x = y \/ <<x, y>> \in R \/ <<y, x>> \in R
    <3>1. x \in Nat /\ y \in Nat /\ indices[x] \in Nat /\ indices[y] \in Nat BY <1>3
    <3>2. \/ x = y \/ indices[x] < indices[y] \/ (indices[x] = indices[y] /\ x < y)
          \/ indices[y] < indices[x] \/ (indices[y] = indices[x] /\ y < x)
      BY <3>1
    <3> QED BY <1>2, <3>2
  <2> QED BY <2>1, <2>2, <2>3 DEF StrictOrder
<1>6. PICK g : Sorts(g, n, S, R) BY <1>1, <1>5, SortExists
<1>7. g \in [S -> S] /\ \A j, k \in S :
        j < k => \/ indices[g[j]] < indices[g[k]]
                 \/ indices[g[j]] = indices[g[k]] /\ g[j] < g[k]
  <2>1. g \in [S -> S] /\ \A j, k \in S : j < k => <<g[j], g[k]>> \in R BY <1>6 DEF Sorts, S
  <2> QED BY <1>2, <2>1
<1>8. f \in [S -> S] /\ \A j, k \in S :
        j < k => \/ indices[f[j]] < indices[f[k]]
                 \/ indices[f[j]] = indices[f[k]] /\ f[j] < f[k]
  <2> DEFINE Order(o) == \A j, k \in DOMAIN indices :
               j < k => \/ indices[o[j]] < indices[o[k]]
                        \/ indices[o[j]] = indices[o[k]] /\ o[j] < o[k]
  <2>1. f = CHOOSE o \in [DOMAIN indices -> DOMAIN indices] : Order(o) BY DEF page_order
  <2>2. g \in [DOMAIN indices -> DOMAIN indices] /\ Order(g) BY <1>4, <1>7
  <2> HIDE DEF Order, f
  <2>3. f \in [DOMAIN indices -> DOMAIN indices] /\ Order(f) BY <2>1, <2>2
  <2> QED BY <1>4, <2>3 DEF Order
<1> HIDE DEF f
<1>9. Sorts(f, n, S, R)
  <2>1. \A j, k \in S : j < k => <<f[j], f[k]>> \in R BY <1>2, <1>8
  <2> QED BY <1>8, <2>1 DEF Sorts, S
<1>10. /\ \A j, k \in 1 .. n : f[j] = f[k] => j = k
       /\ \A x \in S : \E k \in 1 .. n : f[k] = x
  BY <1>1, <1>5, <1>9, SortIsBijection
<1>11. \A j, k \in S : j < k => indices[f[j]] <= indices[f[k]] BY <1>3, <1>8
<1> QED BY <1>8, <1>10, <1>11 DEF f, S

\* The pages of a run are consecutive.
LEMMA RunIsConsecutive ==
  ASSUME NEW n \in Nat, NEW indices \in [1 .. n -> Nat], NEW order \in [1 .. n -> 1 .. n],
         NEW k \in 1 .. n
  PROVE  /\ RunStart(indices, order, k) \in 1 .. k
         /\ \A j \in RunStart(indices, order, k) .. k :
              indices[order[j]] = indices[order[RunStart(indices, order, k)]]
                                    + (j - RunStart(indices, order, k))
<1> DEFINE T == {j \in 1 .. k : j = 1 \/ indices[order[j]] # indices[order[j - 1]] + 1}
           r == RunStart(indices, order, k)
<1>1. T \subseteq 0 .. n /\ 1 \in T
  <2>1. 1 .. k \subseteq 0 .. n /\ 1 \in 1 .. k OBVIOUS
  <2>2. T \subseteq 1 .. k OBVIOUS
  <2> QED BY <2>1, <2>2
<1>2. r = Max(T) BY DEF RunStart
<1>3. r \in T /\ \A x \in T : x <= r
  <2> HIDE DEF T, r
  <2> QED BY <1>1, <1>2, MaxIs
<1>4. r \in 1 .. k BY <1>3
<1> HIDE DEF r
<1>5. \A j \in r + 1 .. k : indices[order[j]] = indices[order[j - 1]] + 1
  <2> TAKE j \in r + 1 .. k
  <2>1. j \in 1 .. k /\ j # 1 /\ ~(j <= r) BY <1>4
  <2>2. j \notin T BY <1>3, <2>1
  <2> QED BY <2>1, <2>2
<1> HIDE DEF T
<1> DEFINE P == {d \in Nat : r + d <= k => indices[order[r + d]] = indices[order[r]] + d}
<1>6. 0 \in P
  <2>1. r + 0 = r /\ r \in 1 .. n BY <1>4
  <2>2. indices[order[r]] \in Nat BY <2>1
  <2> QED BY <2>1, <2>2
<1>7. ASSUME NEW d \in Nat, d \in P PROVE d + 1 \in P
  <2>1. CASE r + (d + 1) <= k
    <3>1. r + (d + 1) \in r + 1 .. k /\ (r + (d + 1)) - 1 = r + d /\ r + d <= k BY <1>4, <2>1
    <3>2. indices[order[r + (d + 1)]] = indices[order[r + d]] + 1 BY <1>5, <3>1
    <3>3. indices[order[r + d]] = indices[order[r]] + d BY <1>7, <3>1
    <3>4. indices[order[r]] \in Nat BY <1>4
    <3>5. indices[order[r + (d + 1)]] = indices[order[r]] + (d + 1)
      <4> HIDE DEF P
      <4>1. PICK first \in Nat : first = indices[order[r]] BY <3>4
      <4>2. (first + d) + 1 = first + (d + 1) OBVIOUS
      <4> QED BY <3>2, <3>3, <4>1, <4>2
    <3>6. d + 1 \in Nat OBVIOUS
    <3> QED BY <3>5, <3>6
  <2>2. CASE ~(r + (d + 1) <= k) BY <2>2
  <2> QED BY <2>1, <2>2
<1>8. \A d \in Nat : d \in P
  <2> HIDE DEF P
  <2> QED BY <1>6, <1>7, SetInduction
<1>9. ASSUME NEW j \in r .. k PROVE indices[order[j]] = indices[order[r]] + (j - r)
  <2>1. j - r \in Nat /\ r + (j - r) = j /\ j <= k BY <1>4
  <2>2. j - r \in P BY <1>8, <2>1
  <2> QED BY <2>1, <2>2
<1> QED BY <1>4, <1>9 DEF r

\* Runs are read in one go and scattered: every answer is the page asked for.
LEMMA ReadPagesFile ==
  ASSUME NEW n \in Nat, NEW indices \in [1 .. n -> Nat], NEW pos \in 1 .. n
  PROVE  read_pages_file(indices)[pos] = file[indices[pos]]
<1> DEFINE order == page_order(indices)
           place == CHOOSE k \in DOMAIN order : order[k] = pos
           r == RunStart(indices, order, place)
<1>1. /\ order \in [1 .. n -> 1 .. n] /\ DOMAIN order = 1 .. n
      /\ \A x \in 1 .. n : \E k \in 1 .. n : order[k] = x
  BY PageOrderIs
<1>2. read_pages_file(indices)[pos] = file[indices[order[r]] + (place - r)]
  BY DEF read_pages_file
<1> HIDE DEF order
<1>3. place \in 1 .. n /\ order[place] = pos BY <1>1
<1> HIDE DEF place
<1>4. r \in 1 .. place /\ \A j \in r .. place : indices[order[j]] = indices[order[r]] + (j - r)
  BY <1>1, <1>3, RunIsConsecutive
<1> HIDE DEF r
<1>5. place \in r .. place BY <1>3, <1>4
<1>6. indices[order[place]] = indices[order[r]] + (place - r) BY <1>4, <1>5
<1> QED BY <1>2, <1>3, <1>6

-----------------------------------------------------------------------------
(* Several paths in one list.                                              *)

\* flat[i] is the first i lists in one.
Joins(flat, paths, n, S) ==
  /\ flat \in [0 .. n -> Seq(S)]
  /\ flat[0] = <<>>
  /\ \A i \in 1 .. n : flat[i] = flat[i - 1] \o paths[i]

\* flat lists the results of FlattenSeq for the first lists.
Flattens(flat, paths, n, S) ==
  /\ Joins(flat, paths, n, S)
  /\ \A i \in 0 .. n : FlattenSeq(SubSeq(paths, 1, i)) = flat[i]

\* FlattenSeq joins the lists from left to right.
LEMMA FlattenIs ==
  ASSUME NEW S, NEW n \in Nat, NEW paths \in [1 .. n -> Seq(S)]
  PROVE  \E flat : Flattens(flat, paths, n, S)
<1> DEFINE step == [x \in Nat \X Seq(S) |-> IF x[1] + 1 <= n THEN x[2] \o paths[x[1] + 1] ELSE x[2]]
<1>1. step \in Steps(Seq(S))
  <2>1. ASSUME NEW x \in Nat \X Seq(S)
        PROVE  (IF x[1] + 1 <= n THEN x[2] \o paths[x[1] + 1] ELSE x[2]) \in Seq(S)
    <3>1. x[1] \in Nat /\ x[2] \in Seq(S) OBVIOUS
    <3>2. CASE x[1] + 1 <= n
      <4>1. x[1] + 1 \in 1 .. n BY <3>1, <3>2
      <4>2. paths[x[1] + 1] \in Seq(S) BY <4>1
      <4> QED BY <3>1, <3>2, <4>2
    <3> QED BY <3>1, <3>2
  <2> QED BY <2>1 DEF Steps
<1>2. <<>> \in Seq(S) OBVIOUS
<1>3. PICK flat : LoopOf(flat, Seq(S), <<>>, step, n)
  <2> HIDE DEF step
  <2> QED BY <1>1, <1>2, Loop
<1>4. flat \in [0 .. n -> Seq(S)] /\ flat[0] = <<>>
  <2> HIDE DEF step
  <2>1. flat = [k \in 0 .. n |-> IF k = 0 THEN <<>> ELSE step[<<k - 1, flat[k - 1]>>]]
    BY <1>3 DEF LoopOf
  <2>2. DOMAIN flat = 0 .. n BY <2>1
  <2>3. \A k \in 0 .. n : flat[k] \in Seq(S) BY <1>3 DEF LoopOf
  <2>4. 0 \in 0 .. n OBVIOUS
  <2>5. flat = [k \in 0 .. n |-> flat[k]] BY <2>1
  <2> QED BY <2>1, <2>3, <2>4, <2>5
<1>5. ASSUME NEW i \in 1 .. n PROVE flat[i] = flat[i - 1] \o paths[i]
  <2>1. i \in 0 .. n /\ i # 0 /\ i - 1 \in 0 .. n /\ i - 1 \in Nat /\ (i - 1) + 1 = i /\ i <= n
    OBVIOUS
  <2>2. flat[i] = step[<<i - 1, flat[i - 1]>>]
    <3> HIDE DEF step
    <3> QED BY <1>3, <2>1 DEF LoopOf
  <2>3. flat[i - 1] \in Seq(S) BY <1>4, <2>1
  <2>4. <<i - 1, flat[i - 1]>> \in Nat \X Seq(S) BY <2>1, <2>3
  <2> QED BY <2>1, <2>2, <2>4
<1> HIDE DEF step
<1>6. ASSUME NEW i \in 0 .. n PROVE FlattenSeq(SubSeq(paths, 1, i)) = flat[i]
  <2> DEFINE q == SubSeq(paths, 1, i)
  <2>1. paths \in Seq(Seq(S)) /\ Len(paths) = n BY ListLen
  <2>2. q \in Seq(Seq(S)) /\ Len(q) = i /\ \A j \in 1 .. i : q[j] = paths[j]
    BY <2>1, SubSeqProperties
  <2>3. CASE i = 0
    <3>1. q = <<>> BY <2>2, <2>3, EmptySeq
    <3>2. FlattenSeq(q) = q BY <2>2, <2>3 DEF FlattenSeq
    <3> QED BY <1>4, <2>3, <3>1, <3>2
  <2>4. CASE i # 0
    <3> HIDE DEF q
    <3> DEFINE g == [j \in 1 .. Len(q) |-> flat[j]]
    <3>1. g = [j \in 1 .. Len(q) |-> IF j = 1 THEN q[j] ELSE g[j - 1] \o q[j]]
      <4>1. ASSUME NEW j \in 1 .. Len(q) PROVE flat[j] = IF j = 1 THEN q[j] ELSE g[j - 1] \o q[j]
        <5>1. j \in 1 .. n /\ j \in 1 .. i BY <2>2
        <5>2. flat[j] = flat[j - 1] \o q[j] /\ q[j] \in Seq(S) BY <1>5, <2>2, <5>1
        <5>3. CASE j = 1
          <6>1. flat[j - 1] = <<>> BY <1>4, <5>3
          <6> QED BY <5>2, <5>3, <6>1, ConcatEmptySeq
        <5>4. CASE j # 1
          <6>1. j - 1 \in 1 .. Len(q) BY <2>2, <5>1, <5>4
          <6> QED BY <5>2, <5>4, <6>1
        <5> QED BY <5>3, <5>4
      <4> QED BY <4>1
    <3> DEFINE h == CHOOSE h : h = [j \in 1 .. Len(q) |-> IF j = 1 THEN q[j] ELSE h[j - 1] \o q[j]]
    <3>2. h = [j \in 1 .. Len(q) |-> IF j = 1 THEN q[j] ELSE h[j - 1] \o q[j]]
      <4> HIDE DEF g
      <4> QED BY <3>1
    <3>3. FlattenSeq(q) = h[Len(q)]
      <4>1. Len(q) # 0 BY <2>2, <2>4
      <4> QED BY <4>1 DEF FlattenSeq
    <3> HIDE DEF h
    <3> DEFINE P == {j \in Nat : j \in 1 .. i => h[j] = flat[j]}
    <3>4. 0 \in P OBVIOUS
    <3>5. ASSUME NEW j \in Nat, j \in P PROVE j + 1 \in P
      <4>1. ASSUME j + 1 \in 1 .. i PROVE h[j + 1] = flat[j + 1]
        <5>1. j + 1 \in 1 .. Len(q) /\ (j + 1) - 1 = j BY <2>2, <4>1
        <5>2. h[j + 1] = IF j + 1 = 1 THEN q[j + 1] ELSE h[j] \o q[j + 1] BY <3>2, <5>1
        <5>3. g[j + 1] = IF j + 1 = 1 THEN q[j + 1] ELSE g[j] \o q[j + 1]
          <6> HIDE DEF g
          <6> QED BY <3>1, <5>1
        <5>4. g[j + 1] = flat[j + 1] BY <5>1
        <5>5. CASE j = 0 BY <5>2, <5>3, <5>4, <5>5
        <5>6. CASE j # 0
          <6>1. j \in 1 .. i /\ j \in 1 .. Len(q) /\ j + 1 # 1 BY <2>2, <4>1, <5>6
          <6>2. h[j] = flat[j] BY <3>5, <6>1
          <6>3. g[j] = flat[j] BY <6>1
          <6> QED BY <5>2, <5>3, <5>4, <6>1, <6>2, <6>3
        <5> QED BY <5>5, <5>6
      <4>2. j + 1 \in Nat OBVIOUS
      <4> QED BY <4>1, <4>2
    <3>6. \A j \in Nat : j \in P
      <4> HIDE DEF P
      <4> QED BY <3>4, <3>5, SetInduction
    <3>7. i \in P /\ i \in 1 .. i BY <2>4, <3>6
    <3> QED BY <2>2, <3>3, <3>7 DEF q
  <2> QED BY <2>3, <2>4
<1> QED BY <1>4, <1>5, <1>6 DEF Joins, Flattens

\* Where the members of a list are found in the joined list.
LEMMA JoinedAt ==
  ASSUME NEW S, NEW n \in Nat, NEW paths \in [1 .. n -> Seq(S)], NEW flat, Joins(flat, paths, n, S),
         NEW i \in 1 .. n, NEW k \in 1 .. Len(paths[i])
  PROVE  /\ Len(flat[i - 1]) + k \in 1 .. Len(flat[n])
         /\ flat[n][Len(flat[i - 1]) + k] = paths[i][k]
<1> DEFINE at == Len(flat[i - 1]) + k
           P == {j \in Nat : j >= i => at \in 1 .. Len(flat[j]) /\ flat[j][at] = paths[i][k]}
<1>1. \A j \in 0 .. n : flat[j] \in Seq(S) /\ Len(flat[j]) \in Nat
  <2> TAKE j \in 0 .. n
  <2>1. flat[j] \in Seq(S) BY DEF Joins
  <2> QED BY <2>1, LenProperties
<1>2. i - 1 \in 0 .. n /\ i \in 0 .. n OBVIOUS
<1>3. paths[i] \in Seq(S) /\ Len(paths[i]) \in Nat OBVIOUS
<1>4. at \in Nat /\ at >= 1 BY <1>1, <1>2, <1>3
<1>5. 0 \in P OBVIOUS
<1>6. ASSUME NEW j \in 1 .. n, j - 1 \in P PROVE j \in P
  <2>1. j - 1 \in 0 .. n /\ j \in 0 .. n /\ j \in Nat /\ j - 1 \in Nat OBVIOUS
  <2>2. paths[j] \in Seq(S) /\ Len(paths[j]) \in Nat OBVIOUS
  <2>3. flat[j - 1] \in Seq(S) /\ Len(flat[j - 1]) \in Nat BY <1>1, <2>1
  <2>4. flat[j] = flat[j - 1] \o paths[j] BY DEF Joins
  <2>5. /\ Len(flat[j]) = Len(flat[j - 1]) + Len(paths[j])
        /\ \A m \in 1 .. Len(flat[j - 1]) + Len(paths[j]) :
             flat[j][m] = IF m <= Len(flat[j - 1]) THEN flat[j - 1][m]
                          ELSE paths[j][m - Len(flat[j - 1])]
    BY <2>2, <2>3, <2>4, ConcatProperties
  <2>6. CASE j = i
    <3>1. at \in 1 .. Len(flat[j - 1]) + Len(paths[j]) BY <1>3, <1>4, <2>3, <2>6
    <3>2. ~(at <= Len(flat[j - 1])) /\ at - Len(flat[j - 1]) = k BY <1>3, <2>3, <2>6
    <3>3. flat[j][at] = paths[j][k] BY <2>5, <3>1, <3>2
    <3> QED BY <2>1, <2>5, <2>6, <3>1, <3>3
  <2>7. CASE j > i
    <3>1. at \in 1 .. Len(flat[j - 1]) /\ flat[j - 1][at] = paths[i][k]
      <4>1. j - 1 >= i BY <2>7
      <4> QED BY <1>6, <4>1
    <3>2. at \in 1 .. Len(flat[j - 1]) + Len(paths[j]) /\ at <= Len(flat[j - 1])
      BY <1>4, <2>2, <2>3, <3>1
    <3>3. flat[j][at] = paths[i][k] BY <2>5, <3>1, <3>2
    <3> QED BY <2>1, <2>5, <3>2, <3>3
  <2>8. CASE j < i BY <2>1, <2>8
  <2> QED BY <2>6, <2>7, <2>8
<1>7. \A j \in 0 .. n : j \in P
  <2> HIDE DEF P
  <2> QED BY <1>5, <1>6, BoundedInduction
<1>8. n \in P /\ n >= i BY <1>7
<1> QED BY <1>8

\* Joining lists of pages and then taking their contents, or the other way round.
LEMMA JoinedContents ==
  ASSUME NEW S, NEW T, NEW n \in Nat, NEW paths \in [1 .. n -> Seq(S)], NEW contents \in [S -> T],
         NEW flat, Joins(flat, paths, n, S),
         NEW all, Joins(all, [i \in 1 .. n |-> [k \in DOMAIN paths[i] |-> contents[paths[i][k]]]], n, T)
  PROVE  all[n] = [k \in DOMAIN flat[n] |-> contents[flat[n][k]]]
<1> DEFINE Q(i) == [k \in DOMAIN paths[i] |-> contents[paths[i][k]]]
           P == {j \in Nat : j <= n => /\ Len(all[j]) = Len(flat[j])
                                      /\ \A k \in 1 .. Len(flat[j]) : all[j][k] = contents[flat[j][k]]}
<1>1. \A j \in 0 .. n : flat[j] \in Seq(S) /\ all[j] \in Seq(T) BY DEF Joins
<1>2. 0 \in P BY DEF Joins
<1>3. ASSUME NEW j \in 1 .. n, j - 1 \in P PROVE j \in P
  <2>1. j - 1 \in 0 .. n /\ j \in 0 .. n /\ j \in Nat /\ j - 1 \in Nat /\ j - 1 <= n OBVIOUS
  <2>2. paths[j] \in Seq(S) OBVIOUS
  <2>3. Q(j) \in Seq(T) /\ Len(Q(j)) = Len(paths[j])
        /\ \A k \in 1 .. Len(paths[j]) : Q(j)[k] = contents[paths[j][k]]
    <3>1. Len(paths[j]) \in Nat /\ DOMAIN paths[j] = 1 .. Len(paths[j])
          /\ \A k \in DOMAIN paths[j] : paths[j][k] \in S
      BY <2>2
    <3>2. Q(j) \in [1 .. Len(paths[j]) -> T] BY <3>1
    <3>3. \A k \in 1 .. Len(paths[j]) : Q(j)[k] = contents[paths[j][k]] BY <3>1
    <3> HIDE DEF Q
    <3> QED BY <3>1, <3>2, <3>3, ListLen
  <2>4. flat[j] = flat[j - 1] \o paths[j] BY DEF Joins
  <2>5. all[j] = all[j - 1] \o Q(j) BY DEF Joins
  <2> HIDE DEF Q
  <2>6. flat[j - 1] \in Seq(S) /\ all[j - 1] \in Seq(T) BY <1>1, <2>1
  <2>7. /\ Len(flat[j]) = Len(flat[j - 1]) + Len(paths[j])
        /\ \A m \in 1 .. Len(flat[j - 1]) + Len(paths[j]) :
             flat[j][m] = IF m <= Len(flat[j - 1]) THEN flat[j - 1][m]
                          ELSE paths[j][m - Len(flat[j - 1])]
    BY <2>2, <2>4, <2>6, ConcatProperties
  <2>8. /\ Len(all[j]) = Len(all[j - 1]) + Len(Q(j))
        /\ \A m \in 1 .. Len(all[j - 1]) + Len(Q(j)) :
             all[j][m] = IF m <= Len(all[j - 1]) THEN all[j - 1][m]
                          ELSE Q(j)[m - Len(all[j - 1])]
    <3>1. PICK t \in Seq(T) : t = Q(j) BY <2>3
    <3>2. all[j] = all[j - 1] \o t BY <2>5, <3>1
    <3>3. /\ Len(all[j]) = Len(all[j - 1]) + Len(t)
          /\ \A m \in 1 .. Len(all[j - 1]) + Len(t) :
               all[j][m] = IF m <= Len(all[j - 1]) THEN all[j - 1][m]
                           ELSE t[m - Len(all[j - 1])]
      BY <2>6, <3>2, ConcatProperties
    <3> QED BY <3>1, <3>3
  <2>9. /\ Len(all[j - 1]) = Len(flat[j - 1])
        /\ \A k \in 1 .. Len(flat[j - 1]) : all[j - 1][k] = contents[flat[j - 1][k]]
    BY <1>3, <2>1
  <2>10. Len(flat[j - 1]) \in Nat /\ Len(paths[j]) \in Nat BY <2>2, <2>6
  <2>11. ASSUME NEW m \in 1 .. Len(flat[j]) PROVE all[j][m] = contents[flat[j][m]]
    <3>1. m \in 1 .. Len(flat[j - 1]) + Len(paths[j]) BY <2>7
    <3>2. CASE m <= Len(flat[j - 1])
      <4>1. m \in 1 .. Len(flat[j - 1]) BY <2>10, <3>1, <3>2
      <4>2. flat[j][m] = flat[j - 1][m] BY <2>7, <3>1, <3>2
      <4>3. all[j][m] = all[j - 1][m] BY <2>3, <2>8, <2>9, <3>1, <3>2
      <4> QED BY <2>9, <4>1, <4>2, <4>3
    <3>3. CASE ~(m <= Len(flat[j - 1]))
      <4>1. m - Len(flat[j - 1]) \in 1 .. Len(paths[j]) BY <2>10, <3>1, <3>3
      <4>2. flat[j][m] = paths[j][m - Len(flat[j - 1])] BY <2>7, <3>1, <3>3
      <4>3. all[j][m] = Q(j)[m - Len(flat[j - 1])] BY <2>3, <2>8, <2>9, <3>1, <3>3
      <4> QED BY <2>3, <4>1, <4>2, <4>3
    <3> QED BY <3>2, <3>3
  <2>12. Len(all[j]) = Len(flat[j]) BY <2>3, <2>7, <2>8, <2>9
  <2> QED BY <2>1, <2>11, <2>12
<1>4. \A j \in 0 .. n : j \in P
  <2> HIDE DEF P
  <2> QED BY <1>2, <1>3, BoundedInduction
<1>5. /\ Len(all[n]) = Len(flat[n])
      /\ \A k \in 1 .. Len(flat[n]) : all[n][k] = contents[flat[n][k]]
  <2>1. n \in P BY <1>4
  <2> QED BY <2>1
<1>6. n \in 0 .. n OBVIOUS
<1>7. flat[n] \in Seq(S) /\ all[n] \in Seq(T) BY <1>1, <1>6
<1> HIDE DEF P
<1>8. DOMAIN flat[n] = 1 .. Len(flat[n]) /\ DOMAIN all[n] = 1 .. Len(flat[n])
  BY <1>5, <1>7, LenProperties
<1>9. all[n] = [k \in DOMAIN all[n] |-> all[n][k]] BY <1>7, LenProperties
<1> QED BY <1>5, <1>8, <1>9

-----------------------------------------------------------------------------
(* Reads.                                                                  *)

\* inner lists, in order, the m positions of a call that go below the cache.
Inner(inner, m, indices, n) ==
  /\ m \in Nat
  /\ inner \in [1 .. m -> 1 .. n]
  /\ \A j, k \in 1 .. m : j < k => inner[j] < inner[k]
  /\ \A j, k \in 1 .. m : inner[j] = inner[k] => j = k
  /\ \A k \in 1 .. m : indices[inner[k]] \notin CachedPage
  /\ \A x \in 1 .. n : indices[x] \notin CachedPage => \E k \in 1 .. m : inner[k] = x

\* The front cache passes on the positions that are not its own, in order.
LEMMA InnerIs ==
  ASSUME NEW n \in Nat, NEW indices \in [1 .. n -> Nat]
  PROVE  \E m : Inner(InnerPositions(indices), m, indices, n)
<1> DEFINE S == {k \in DOMAIN indices : indices[k] \notin CachedPage}
           m == Cardinality(S)
<1>1. DOMAIN indices = 1 .. n OBVIOUS
<1>2. S \in SUBSET (1 .. n) /\ S \subseteq Int BY <1>1
<1>3. IsFiniteSet(S)
  <2>1. IsFiniteSet(1 .. n) BY FS_Interval
  <2> HIDE DEF S
  <2> QED BY <1>2, <2>1, FS_Subset
<1>4. InnerPositions(indices) = Ascending(S) BY DEF InnerPositions
<1>5. /\ m \in Nat /\ Ascending(S) \in [1 .. m -> S]
      /\ \A j, k \in 1 .. m : j < k => Ascending(S)[j] < Ascending(S)[k]
      /\ \A j, k \in 1 .. m : Ascending(S)[j] = Ascending(S)[k] => j = k
      /\ \A x \in S : \E k \in 1 .. m : Ascending(S)[k] = x
  <2> HIDE DEF S
  <2> QED BY <1>2, <1>3, AscendingIs
<1> DEFINE f == Ascending(S)
<1> HIDE DEF f, m
<1>6. Inner(f, m, indices, n)
  <2>1. f \in [1 .. m -> 1 .. n] BY <1>2, <1>5 DEF f
  <2>2. \A k \in 1 .. m : indices[f[k]] \notin CachedPage BY <1>5 DEF f
  <2>3. \A x \in 1 .. n : indices[x] \notin CachedPage => \E k \in 1 .. m : f[k] = x
    BY <1>1, <1>5 DEF f
  <2>4. m \in Nat /\ \A j, k \in 1 .. m : j < k => f[j] < f[k] BY <1>5 DEF f
  <2>5. \A j, k \in 1 .. m : f[j] = f[k] => j = k BY <1>5 DEF f
  <2> QED BY <2>1, <2>2, <2>3, <2>4, <2>5 DEF Inner
<1> QED BY <1>4, <1>6 DEF f

\* What a page of the image shows its caller, and what may remain of it.
Seen(p, m, nx, c, f) ==
  IF p \in CachedPage /\ (m = "open" \/ (m = "building" /\ p < nx)) THEN c[p]
  ELSE decrypt_page(p, f[p])

Remains(p, m, nx, c, d, u) ==
  {decrypt_page(p, raw) : raw \in u[p]}
    \cup IF (p \in CachedPage /\ (m = "open" \/ (m = "building" /\ p < nx))) /\ p \in d
         THEN {c[p], Garbled} ELSE {}

\* The refinement mapping, page by page, before and after a call.
LEMMA MappingNow ==
  /\ CallerSees = [p \in Page |-> Seen(p, mode, next, cached, file)]
  /\ MayRemain = [p \in Page |-> Remains(p, mode, next, cached, dirty, unsynced)]
  BY DEF CallerSees, MayRemain, Seen, Remains, InCache

\* A call does not change the stack.
LEMMA MappingNext ==
  ASSUME stack' = stack
  PROVE  /\ Page' = Page /\ CachedPage' = CachedPage /\ Raw' = Raw
         /\ CallerSees' = [p \in Page |-> Seen(p, mode', next', cached', file')]
         /\ MayRemain' = [p \in Page |-> Remains(p, mode', next', cached', dirty', unsynced')]
<1>1. Page' = Page /\ CachedPage' = CachedPage BY DEF Page, CachedPage
<1>2. Raw' = Raw BY DEF Raw, Page
<1>3. CallerSees' = [p \in Page |-> Seen(p, mode', next', cached', file')]
  BY DEF CallerSees, Seen, InCache, Page, CachedPage, decrypt_page, Encrypted
<1>4. MayRemain' = [p \in Page |-> Remains(p, mode', next', cached', dirty', unsynced')]
  BY DEF MayRemain, Remains, InCache, Page, CachedPage, decrypt_page, Encrypted
<1> QED BY <1>1, <1>2, <1>3, <1>4

\* The pages of the image and the cached ones among them.
LEMMA PageTypes ==
  ASSUME stack \in Stacks
  PROVE  /\ Page \subseteq Nat /\ CachedPage \subseteq Page /\ 0 \in Page
         /\ stack.pages \in Nat \ {0} /\ stack.cached \in 0 .. stack.pages
         /\ Encrypted \in BOOLEAN
<1>1. stack.pages \in Nat \ {0} /\ stack.cached \in 0 .. stack.pages /\ stack.encrypted \in BOOLEAN
  BY StackAssumption
<1> QED BY <1>1 DEF Page, CachedPage, Encrypted

\* What a raw page of the file decrypts to.
LEMMA DecryptType ==
  ASSUME NEW p, NEW raw \in Raw
  PROVE  decrypt_page(p, raw) \in Contents
  BY DEF decrypt_page, Raw, Contents

\* What the caller sees is a page's contents.
LEMMA SeenType ==
  ASSUME StackTypeOK, NEW p \in Page
  PROVE  Seen(p, mode, next, cached, file) \in Contents
<1>1. file[p] \in Raw BY DEF StackTypeOK
<1>2. decrypt_page(p, file[p]) \in Contents BY <1>1, DecryptType
<1>3. p \in CachedPage => cached[p] \in Contents BY DEF StackTypeOK
<1> QED BY <1>2, <1>3 DEF Seen

\* A bulk read of an open stack answers with what the caller sees of every page,
\* in the caller's order, or fails.
LEMMA ReadResultIs ==
  ASSUME StackTypeOK, stack \in Stacks, mode = "open", NEW n \in Nat, NEW indices \in [1 .. n -> Nat]
  PROVE  \/ ReadResult(indices) = [result |-> "err", out |-> <<>>]
         \/ /\ \A k \in 1 .. n : /\ indices[k] \in Page
                                 /\ Encrypted => CallerSees[indices[k]] # Garbled
            /\ ReadResult(indices) = [result |-> "ok",
                                      out |-> [k \in 1 .. n |-> CallerSees[indices[k]]]]
<1> DEFINE inner == InnerPositions(indices)
           raws  == read_pages_file(Pick(indices, inner))
           pages == [pos \in DOMAIN indices |->
                      IF indices[pos] \in CachedPage THEN cached[indices[pos]]
                      ELSE decrypt_page(indices[pos],
                             raws[CHOOSE k \in DOMAIN inner : inner[k] = pos])]
<1>1. ReadResult(indices) =
        IF \E k \in DOMAIN indices : indices[k] \notin Page THEN [result |-> "err", out |-> <<>>]
        ELSE IF \E k \in DOMAIN pages : Rejected(pages[k]) THEN [result |-> "err", out |-> <<>>]
        ELSE [result |-> "ok", out |-> pages]
  BY DEF ReadResult
<1>2. DOMAIN indices = 1 .. n /\ DOMAIN pages = 1 .. n OBVIOUS
<1> SUFFICES ASSUME \A k \in 1 .. n : indices[k] \in Page
             PROVE  \A k \in 1 .. n : pages[k] = CallerSees[indices[k]]
  <2>1. ASSUME \A k \in 1 .. n : indices[k] \in Page /\ pages[k] = CallerSees[indices[k]]
        PROVE  pages = [k \in 1 .. n |-> CallerSees[indices[k]]]
    <3>1. pages = [k \in 1 .. n |-> pages[k]] BY <1>2
    <3> HIDE DEF pages
    <3> QED BY <2>1, <3>1
  <2> HIDE DEF pages
  <2> QED BY <1>1, <1>2, <2>1 DEF Rejected
<1>3. PICK m : Inner(inner, m, indices, n) BY InnerIs
<1> HIDE DEF inner
<1>4. ASSUME NEW k \in 1 .. m PROVE raws[k] = file[indices[inner[k]]]
  <2>1. Pick(indices, inner) \in [1 .. m -> Nat] /\ Pick(indices, inner)[k] = indices[inner[k]]
    BY <1>3 DEF Inner, Pick
  <2>2. m \in Nat BY <1>3 DEF Inner
  <2> QED BY <2>1, <2>2, ReadPagesFile
<1> HIDE DEF raws
<1>5. ASSUME NEW pos \in 1 .. n, indices[pos] \notin CachedPage
      PROVE  raws[CHOOSE k \in DOMAIN inner : inner[k] = pos] = file[indices[pos]]
  <2>1. PICK k \in 1 .. m : inner[k] = pos BY <1>3, <1>5 DEF Inner
  <2>2. DOMAIN inner = 1 .. m BY <1>3 DEF Inner
  <2> DEFINE c == CHOOSE k1 \in DOMAIN inner : inner[k1] = pos
  <2>3. c \in 1 .. m /\ inner[c] = pos BY <2>1, <2>2
  <2> HIDE DEF c
  <2>4. raws[c] = file[indices[inner[c]]] BY <1>4, <2>3
  <2> QED BY <2>3, <2>4 DEF c
<1> SUFFICES ASSUME NEW pos \in 1 .. n PROVE pages[pos] = CallerSees[indices[pos]]
  OBVIOUS
<1>6. CallerSees[indices[pos]] = Seen(indices[pos], mode, next, cached, file) BY MappingNow
<1>7. CASE indices[pos] \in CachedPage BY <1>2, <1>6, <1>7 DEF Seen
<1>8. CASE indices[pos] \notin CachedPage
  <2>1. pages[pos] = decrypt_page(indices[pos], file[indices[pos]]) BY <1>2, <1>5, <1>8
  <2> HIDE DEF pages
  <2> QED BY <1>6, <1>8, <2>1 DEF Seen
<1> QED BY <1>7, <1>8

\* Calls that leave the stores alone leave what the caller sees.
LEMMA MappingKept ==
  ASSUME stack' = stack, UNCHANGED <<file, unsynced, cached, dirty, mode, next>>
  PROVE  CallerSees' = CallerSees /\ MayRemain' = MayRemain
  BY MappingNow, MappingNext

\* The pages of the array are those of the image.
LEMMA PromisePages == Promise!Page = Page /\ DOMAIN CallerSees = Page /\ DOMAIN MayRemain = Page
  BY MappingNow DEF Promise!Page

\* Bulk reads keep the promise of Read.
LEMMA ReadStep ==
  ASSUME StackTypeOK, stack \in Stacks, stack' = stack,
         NEW indices \in stack.requests, read_pages(indices)
  PROVE  Promise!Read(indices) /\ mode = "open"
<1>1. mode = "open" /\ CallerSees' = CallerSees /\ MayRemain' = MayRemain
  BY MappingKept DEF read_pages
<1>2. indices \in Seq(Nat) BY StackAssumption
<1>3. PICK n \in Nat : n = Len(indices) BY <1>2
<1>4. indices \in [1 .. n -> Nat] /\ DOMAIN indices = 1 .. n BY <1>2, <1>3, LenProperties
<1>5. reply' = ReadResult(indices) \/ reply' = [result |-> "err", out |-> <<>>]
  BY DEF read_pages, IoError
<1>6. CASE reply' = [result |-> "err", out |-> <<>>]
  BY <1>1, <1>6 DEF Promise!Read, Promise!Failed
<1>7. CASE /\ \A k \in 1 .. n : /\ indices[k] \in Page
                                /\ Encrypted => CallerSees[indices[k]] # Garbled
           /\ reply' = [result |-> "ok", out |-> [k \in 1 .. n |-> CallerSees[indices[k]]]]
  <2>1. ASSUME NEW k \in 1 .. n PROVE Promise!Readable(CallerSees[indices[k]])
    <3>1. indices[k] \in Page BY <1>7
    <3>2. CallerSees[indices[k]] \in Contents BY <3>1, MappingNow, SeenType
    <3> QED BY <1>7, <3>2 DEF Promise!Readable, Contents, Encrypted
  <2>2. reply' = Promise!ReadOk([k \in DOMAIN indices |-> CallerSees[indices[k]]])
    BY <1>4, <1>7 DEF Promise!ReadOk
  <2> QED BY <1>1, <1>4, <1>7, <2>1, <2>2, PromisePages DEF Promise!Read
<1> QED BY <1>1, <1>4, <1>5, <1>6, <1>7, ReadResultIs

\* Bulk path reads keep the promise of ReadPaths.
LEMMA ReadPathsStep ==
  ASSUME StackTypeOK, stack \in Stacks, stack' = stack,
         NEW paths \in stack.paths, read_paths_pages(paths)
  PROVE  Promise!ReadPaths(paths) /\ mode = "open"
<1>1. mode = "open" /\ CallerSees' = CallerSees /\ MayRemain' = MayRemain
  BY MappingKept DEF read_paths_pages
<1>2. paths \in Seq(Seq(Page)) BY StackAssumption DEF Page
<1>3. PICK m \in Nat : m = Len(paths) BY <1>2
<1>4. paths \in [1 .. m -> Seq(Page)] /\ DOMAIN paths = 1 .. m BY <1>2, <1>3, LenProperties
<1>5. PICK flat : Flattens(flat, paths, m, Page)
  <2>1. PICK S : S = Page OBVIOUS
  <2>2. paths \in [1 .. m -> Seq(S)] BY <1>4, <2>1
  <2>3. \E flat : Flattens(flat, paths, m, S) BY <2>2, FlattenIs
  <2> QED BY <2>1, <2>3
<1> DEFINE indices == flat[m]
           n == Len(indices)
<1>6. FlattenSeq(paths) = indices
  <2>1. SubSeq(paths, 1, m) = paths BY <1>2, <1>3, SubSeqFull
  <2>2. m \in 0 .. m OBVIOUS
  <2> QED BY <1>5, <2>1, <2>2 DEF Flattens
<1>7. indices \in Seq(Page)
  <2>1. m \in 0 .. m OBVIOUS
  <2> QED BY <1>5, <2>1 DEF Flattens, Joins
<1>8. n \in Nat /\ indices \in [1 .. n -> Page] /\ indices \in [1 .. n -> Nat]
  BY <1>7, LenProperties, PageTypes
<1> DEFINE err == [result |-> "err", out |-> <<>>]
           cut == [i \in DOMAIN paths |-> [k \in DOMAIN paths[i] |->
                     ReadResult(indices).out[FlatOffset(paths, i) + k]]]
<1>9. \/ reply' = err
      \/ ReadResult(indices).result # "err" /\ reply' = [ReadResult(indices) EXCEPT !.out = cut]
      \/ ReadResult(indices).result = "err" /\ reply' = ReadResult(indices)
  BY <1>6 DEF read_paths_pages, IoError
<1>10. CASE reply' = err BY <1>1, <1>10 DEF Promise!ReadPaths, Promise!Failed
<1>11. ASSUME NEW i \in 1 .. m, NEW k \in DOMAIN paths[i]
       PROVE  /\ FlatOffset(paths, i) + k \in 1 .. n
              /\ indices[FlatOffset(paths, i) + k] = paths[i][k]
              /\ paths[i][k] \in Page
  <2>1. paths[i] \in Seq(Page) BY <1>4
  <2>2. k \in 1 .. Len(paths[i]) /\ paths[i][k] \in Page BY <2>1, LenProperties
  <2>3. FlatOffset(paths, i) = Len(flat[i - 1])
    <3>1. i - 1 \in 0 .. m OBVIOUS
    <3> QED BY <1>5, <3>1 DEF Flattens, FlatOffset
  <2>4. /\ Len(flat[i - 1]) + k \in 1 .. Len(flat[m])
        /\ flat[m][Len(flat[i - 1]) + k] = paths[i][k]
    <3>1. PICK S : S = Page OBVIOUS
    <3>2. paths \in [1 .. m -> Seq(S)] /\ Joins(flat, paths, m, S) BY <1>4, <1>5, <3>1 DEF Flattens
    <3> QED BY <2>2, <3>2, JoinedAt
  <2> QED BY <2>2, <2>3, <2>4
<1> HIDE DEF indices, n
<1>12. CASE /\ \A k \in 1 .. n : /\ indices[k] \in Page
                                 /\ Encrypted => CallerSees[indices[k]] # Garbled
            /\ ReadResult(indices) = [result |-> "ok",
                                      out |-> [k \in 1 .. n |-> CallerSees[indices[k]]]]
  <2>1. ReadResult(indices).result # "err" BY <1>12
  <2> SUFFICES ASSUME reply' = [ReadResult(indices) EXCEPT !.out = cut]
               PROVE  Promise!ReadPaths(paths)
    BY <1>1, <1>9, <1>10, <2>1
  <2>2. ASSUME NEW i \in 1 .. m, NEW k \in DOMAIN paths[i]
        PROVE  /\ cut[i][k] = CallerSees[paths[i][k]]
               /\ Promise!Readable(CallerSees[paths[i][k]])
    <3> DEFINE at == FlatOffset(paths, i) + k
    <3>1. at \in 1 .. n /\ indices[at] = paths[i][k] /\ paths[i][k] \in Page BY <1>11
    <3>2. cut[i][k] = ReadResult(indices).out[at] BY <1>4
    <3> HIDE DEF at, cut
    <3>3. ReadResult(indices).out[at] = CallerSees[indices[at]] BY <1>12, <3>1
    <3>4. CallerSees[paths[i][k]] \in Contents BY <3>1, MappingNow, SeenType
    <3>5. Encrypted => CallerSees[paths[i][k]] # Garbled BY <1>12, <3>1
    <3> QED BY <3>1, <3>2, <3>3, <3>4, <3>5 DEF Promise!Readable, Contents, Encrypted
  <2>3. cut = [i \in DOMAIN paths |-> [k \in DOMAIN paths[i] |-> CallerSees[paths[i][k]]]]
    <3>1. ASSUME NEW i \in 1 .. m
          PROVE  cut[i] = [k \in DOMAIN paths[i] |-> CallerSees[paths[i][k]]]
      <4>1. cut[i] = [k \in DOMAIN paths[i] |-> cut[i][k]] BY <1>4
      <4> HIDE DEF cut
      <4> QED BY <2>2, <4>1
    <3>2. cut = [i \in 1 .. m |-> cut[i]] BY <1>4
    <3> HIDE DEF cut
    <3> QED BY <1>4, <3>1, <3>2
  <2> HIDE DEF cut
  <2>4. reply' = Promise!ReadOk([i \in DOMAIN paths |-> [k \in DOMAIN paths[i] |-> CallerSees[paths[i][k]]]])
    <3>1. [ReadResult(indices) EXCEPT !.out = cut] = [result |-> "ok", out |-> cut]
      BY <1>12
    <3> QED BY <2>3, <3>1 DEF Promise!ReadOk
  <2>5. \A i \in DOMAIN paths : \A k \in DOMAIN paths[i] :
          paths[i][k] \in Promise!Page /\ Promise!Readable(CallerSees[paths[i][k]])
    BY <1>4, <1>11, <2>2, PromisePages
  <2> QED BY <1>1, <2>4, <2>5 DEF Promise!ReadPaths
<1>13. CASE ReadResult(indices) = err BY <1>1, <1>9, <1>10, <1>13
<1> QED BY <1>1, <1>8, <1>12, <1>13, ReadResultIs

-----------------------------------------------------------------------------
(* Writes of the file.                                                     *)

\* The entries of a write that name a page.
Hits(entries, p) == {k \in DOMAIN entries : entries[k].page = p}

\* A page takes the last of the entries that name it.
LEMMA LandIs ==
  ASSUME NEW b \in Nat, NEW entries, DOMAIN entries \subseteq 1 .. b, Land(entries)
  PROVE  /\ file' = [p \in Page |-> file'[p]] /\ unsynced' = [p \in Page |-> unsynced'[p]]
         /\ \A p \in Page :
              /\ Hits(entries, p) = {} => file'[p] = file[p] /\ unsynced'[p] = unsynced[p]
              /\ Hits(entries, p) # {} =>
                   /\ \E l \in Hits(entries, p) :
                        /\ \A k \in Hits(entries, p) : k <= l
                        /\ file'[p] = entries[l].raw
                   /\ unsynced'[p] = unsynced[p] \cup {entries[k].raw : k \in Hits(entries, p)}
                                       \cup {TornPage}
<1>1. /\ file' = [p \in Page |-> IF Hits(entries, p) = {} THEN file[p]
                                 ELSE entries[Max(Hits(entries, p))].raw]
      /\ unsynced' = [p \in Page |->
            IF Hits(entries, p) = {} THEN unsynced[p]
            ELSE unsynced[p] \cup {entries[k].raw : k \in Hits(entries, p)} \cup {TornPage}]
  BY DEF Land, Hits
<1>2. ASSUME NEW p \in Page, Hits(entries, p) # {}
      PROVE  /\ Max(Hits(entries, p)) \in Hits(entries, p)
             /\ \A k \in Hits(entries, p) : k <= Max(Hits(entries, p))
  <2>1. Hits(entries, p) \subseteq 0 .. b BY DEF Hits
  <2> QED BY <1>2, <2>1, MaxIs
<1>3. file' = [p \in Page |-> file'[p]] BY <1>1
<1>4. unsynced' = [p \in Page |-> unsynced'[p]] BY <1>1
<1>5. ASSUME NEW p \in Page, Hits(entries, p) = {}
      PROVE  file'[p] = file[p] /\ unsynced'[p] = unsynced[p]
  BY <1>1, <1>5
<1>6. ASSUME NEW p \in Page, Hits(entries, p) # {}
      PROVE  /\ file'[p] = entries[Max(Hits(entries, p))].raw
             /\ unsynced'[p] = unsynced[p] \cup {entries[k].raw : k \in Hits(entries, p)}
                                 \cup {TornPage}
  BY <1>1, <1>6
<1> QED BY <1>2, <1>3, <1>4, <1>5, <1>6

\* A write of one page: its page number and its raw contents.
Entry == [page : Nat, raw : [aad : Int, plain : Contents]]

\* A failed write lands a prefix, of which the last page may be torn.
LEMMA LandedIs ==
  ASSUME NEW b \in Nat, NEW batch \in [1 .. b -> Entry], NEW reach \in 0 .. b, NEW n \in 0 .. reach,
         NEW torn \in BOOLEAN
  PROVE  \E t \in n .. n + 1 :
           /\ t <= reach
           /\ DOMAIN Landed(batch, n, reach, torn) = 1 .. t
           /\ \A k \in 1 .. n : Landed(batch, n, reach, torn)[k] = batch[k]
           /\ \A k \in n + 1 .. t : /\ Landed(batch, n, reach, torn)[k].page = batch[k].page
                                    /\ Landed(batch, n, reach, torn)[k].raw = TornPage
<1> DEFINE head == SubSeq(batch, 1, n)
           tail == IF torn /\ n < reach THEN <<[batch[n + 1] EXCEPT !.raw = TornPage]>> ELSE <<>>
<1>1. Landed(batch, n, reach, torn) = head \o tail BY DEF Landed
<1>2. n \in Nat /\ n <= b /\ reach \in Nat /\ reach <= b OBVIOUS
<1>3. head \in Seq(Entry) /\ Len(head) = n /\ \A k \in 1 .. n : head[k] = batch[k]
  <2>1. \A i \in 1 .. n : batch[i] \in Entry BY <1>2
  <2>2. /\ SubSeq(batch, 1, n) \in Seq(Entry)
        /\ Len(SubSeq(batch, 1, n)) = IF 1 <= n THEN n - 1 + 1 ELSE 0
        /\ \A i \in 1 .. n - 1 + 1 : SubSeq(batch, 1, n)[i] = batch[1 + i - 1]
    BY <1>2, <2>1, SubSeqProperties
  <2>3. n - 1 + 1 = n /\ \A i \in 1 .. n : 1 + i - 1 = i BY <1>2
  <2> QED BY <1>2, <2>2, <2>3
<1> HIDE DEF head
<1>4. CASE torn /\ n < reach
  <2> DEFINE e == [batch[n + 1] EXCEPT !.raw = TornPage]
  <2>1. n + 1 \in 1 .. b BY <1>2, <1>4
  <2>2. batch[n + 1] \in Entry BY <2>1
  <2>3. TornPage \in [aad : Int, plain : Contents] BY DEF TornPage, NoAad, Contents
  <2>4. e \in Entry /\ e.page = batch[n + 1].page /\ e.raw = TornPage BY <2>2, <2>3 DEF Entry
  <2> HIDE DEF e
  <2>5. tail = <<e>> BY <1>4 DEF e
  <2>6. <<e>> \in Seq(Entry) /\ Len(<<e>>) = 1 /\ <<e>>[1] = e BY <2>4
  <2>7. /\ head \o <<e>> \in Seq(Entry) /\ Len(head \o <<e>>) = n + 1
        /\ \A i \in 1 .. n + 1 : (head \o <<e>>)[i] = IF i <= n THEN head[i] ELSE <<e>>[i - n]
    BY <1>3, <2>6, ConcatProperties
  <2>8. DOMAIN (head \o <<e>>) = 1 .. n + 1 BY <2>7, LenProperties
  <2>9. \A k \in 1 .. n : (head \o <<e>>)[k] = batch[k] BY <1>2, <1>3, <2>7
  <2>10. (head \o <<e>>)[n + 1] = e
    <3>1. n + 1 \in 1 .. n + 1 /\ ~(n + 1 <= n) /\ n + 1 - n = 1 BY <1>2
    <3> QED BY <2>6, <2>7, <3>1
  <2>11. \A k \in n + 1 .. n + 1 : k = n + 1 BY <1>2
  <2>12. n + 1 \in n .. n + 1 /\ n + 1 <= reach BY <1>2, <1>4
  <2> QED BY <1>1, <2>4, <2>5, <2>8, <2>9, <2>10, <2>11, <2>12
<1>5. CASE ~(torn /\ n < reach)
  <2>1. tail = <<>> BY <1>5
  <2>2. head \o <<>> = head BY <1>3, ConcatEmptySeq
  <2>3. DOMAIN head = 1 .. n BY <1>3, LenProperties
  <2>4. n \in n .. n + 1 /\ n <= reach /\ n + 1 .. n = {} BY <1>2
  <2> QED BY <1>1, <1>3, <2>1, <2>2, <2>3, <2>4
<1> QED BY <1>4, <1>5

\* WriteOrder keeps the order of the call among writes of the same page.
LEMMA WriteOrderIs ==
  ASSUME NEW n \in Nat, NEW indices \in [1 .. n -> Nat]
  PROVE  /\ WriteOrder(indices) \in [1 .. n -> 1 .. n]
         /\ \A x \in 1 .. n : \E k \in 1 .. n : WriteOrder(indices)[k] = x
         /\ \A j, k \in 1 .. n :
              j < k /\ indices[WriteOrder(indices)[j]] = indices[WriteOrder(indices)[k]]
                => WriteOrder(indices)[j] < WriteOrder(indices)[k]
<1>1. DOMAIN indices = 1 .. n OBVIOUS
<1>2. CASE has_duplicate_pages(indices)
  <2>1. WriteOrder(indices) = [k \in 1 .. n |-> k] BY <1>1, <1>2 DEF WriteOrder
  <2> QED BY <2>1
<1>3. CASE ~has_duplicate_pages(indices)
  <2> DEFINE f == page_order(indices)
  <2>1. WriteOrder(indices) = f BY <1>3 DEF WriteOrder
  <2>2. /\ f \in [1 .. n -> 1 .. n]
        /\ \A j, k \in 1 .. n : f[j] = f[k] => j = k
        /\ \A x \in 1 .. n : \E k \in 1 .. n : f[k] = x
    BY PageOrderIs
  <2> HIDE DEF f
  <2>3. ASSUME NEW j \in 1 .. n, NEW k \in 1 .. n, j < k, indices[f[j]] = indices[f[k]] PROVE FALSE
    <3>1. f[j] \in DOMAIN indices /\ f[k] \in DOMAIN indices BY <1>1, <2>2
    <3>2. \A x, y \in DOMAIN indices : indices[x] = indices[y] => x = y
      BY <1>3 DEF has_duplicate_pages
    <3>3. f[j] = f[k] BY <2>3, <3>1, <3>2
    <3>4. j = k BY <2>2, <3>3
    <3> QED BY <2>3, <3>4
  <2> QED BY <2>1, <2>2, <2>3
<1> QED BY <1>2, <1>3

\* Only a call without pages out of range can be written to its end.
LEMMA ReachIs ==
  ASSUME NEW n \in Nat, NEW indices \in [1 .. n -> Nat]
  PROVE  /\ Reach(indices) \in 0 .. n
         /\ Reach(indices) = n => \A k \in 1 .. n : indices[k] \in Page
<1> DEFINE order == WriteOrder(indices)
           bad == {k \in DOMAIN order : indices[order[k]] \notin Page}
<1>1. Reach(indices) = IF bad = {} THEN Len(indices)
                       ELSE IF has_duplicate_pages(indices) THEN Min(bad) - 1
                       ELSE RunStart(indices, order, Min(bad)) - 1
  BY DEF Reach
<1>2. Len(indices) = n BY ListLen
<1>3. /\ order \in [1 .. n -> 1 .. n] /\ \A x \in 1 .. n : \E k \in 1 .. n : order[k] = x
  BY WriteOrderIs
<1> HIDE DEF order
<1>4. DOMAIN order = 1 .. n BY <1>3
<1>5. CASE bad = {}
  <2>1. \A k \in 1 .. n : indices[order[k]] \in Page BY <1>4, <1>5
  <2>2. \A x \in 1 .. n : indices[x] \in Page BY <1>3, <2>1
  <2> QED BY <1>1, <1>2, <1>5, <2>2
<1>6. CASE bad # {}
  <2>1. bad \subseteq Nat BY <1>4
  <2>2. bad \subseteq 1 .. n BY <1>4
  <2> HIDE DEF bad
  <2>3. Min(bad) \in 1 .. n BY <1>6, <2>1, <2>2, MinIs
  <2>4. RunStart(indices, order, Min(bad)) \in 1 .. Min(bad)
    <3>1. PICK k \in 1 .. n : k = Min(bad) BY <2>3
    <3> QED BY <1>3, <3>1, RunIsConsecutive
  <2> QED BY <1>1, <1>6, <2>3, <2>4
<1> QED BY <1>5, <1>6

\* Page p of the file, and what may remain of it, after a write of the values V
\* to it that may have failed.
Touched(p, V) ==
  /\ V = {} => file'[p] = file[p] /\ unsynced'[p] = unsynced[p]
  /\ file'[p] \in {file[p], TornPage} \cup {encrypt_page(p, v) : v \in V}
  /\ unsynced'[p] \subseteq unsynced[p] \cup {TornPage} \cup {encrypt_page(p, v) : v \in V}
  /\ file[p] \in unsynced[p] => file'[p] \in unsynced'[p]

\* The file and what may remain of it, after such a write of a list of pages.
FileWritten(indices, pages) ==
  /\ file' = [p \in Page |-> file'[p]] /\ unsynced' = [p \in Page |-> unsynced'[p]]
  /\ \A p \in Page : Touched(p, Promise!Written(indices, pages, p))

\* All pages of the list hold the last value written to them.
AllWritten(indices, pages) ==
  /\ \A k \in DOMAIN indices : indices[k] \in Page
  /\ \A p \in Page : Promise!Written(indices, pages, p) # {} =>
       file'[p] = encrypt_page(p, Promise!LastWritten(indices, pages, p))

\* entries hold, for the positions at[k] of a call, the page and the sealed value
\* of the position or a torn page.
EntriesOf(entries, at, b, indices, pages, n) ==
  /\ DOMAIN entries \subseteq 1 .. b
  /\ at \in [1 .. b -> 1 .. n]
  /\ \A k \in DOMAIN entries :
       /\ entries[k].page = indices[at[k]]
       /\ \/ entries[k].raw = TornPage
          \/ entries[k].raw = encrypt_page(indices[at[k]], pages[at[k]])

\* The same when nothing is torn, every position that names p has an entry and
\* writes of the same page keep their order.
EntriesOfAll(entries, at, b, indices, pages, n, p) ==
  /\ DOMAIN entries \subseteq 1 .. b
  /\ at \in [1 .. b -> 1 .. n]
  /\ \A k \in DOMAIN entries :
       /\ entries[k].page = indices[at[k]]
       /\ entries[k].raw = encrypt_page(indices[at[k]], pages[at[k]])
  /\ \A j, k \in 1 .. b : j < k /\ indices[at[j]] = indices[at[k]] => at[j] < at[k]
  /\ \A x \in 1 .. n : indices[x] = p => \E k \in DOMAIN entries : at[k] = x

\* Landing entries for some positions of a call, each with the page and the
\* sealed value of its position or torn, writes pages of the call.
LEMMA LandWrites ==
  ASSUME NEW n \in Nat, NEW indices \in [1 .. n -> Nat], NEW pages \in [1 .. n -> Values],
         NEW b \in Nat, NEW entries, NEW at, EntriesOf(entries, at, b, indices, pages, n),
         Land(entries)
  PROVE  FileWritten(indices, pages)
<1> USE DEF EntriesOf
<1>1. /\ file' = [p \in Page |-> file'[p]] /\ unsynced' = [p \in Page |-> unsynced'[p]]
      /\ \A p \in Page :
              /\ Hits(entries, p) = {} => file'[p] = file[p] /\ unsynced'[p] = unsynced[p]
              /\ Hits(entries, p) # {} =>
                   /\ \E l \in Hits(entries, p) :
                        /\ \A k \in Hits(entries, p) : k <= l
                        /\ file'[p] = entries[l].raw
                   /\ unsynced'[p] = unsynced[p] \cup {entries[k].raw : k \in Hits(entries, p)}
                                       \cup {TornPage}
  BY LandIs
<1>2. ASSUME NEW p \in Page PROVE Touched(p, Promise!Written(indices, pages, p))
  <2> DEFINE V == Promise!Written(indices, pages, p)
  <2>1. ASSUME NEW k \in Hits(entries, p)
        PROVE  \/ entries[k].raw = TornPage /\ V # {}
               \/ \E v \in V : entries[k].raw = encrypt_page(p, v)
    <3>1. k \in DOMAIN entries /\ entries[k].page = p /\ k \in 1 .. b BY DEF Hits
    <3>2. at[k] \in 1 .. n /\ indices[at[k]] = p BY <3>1
    <3>3. pages[at[k]] \in V BY <3>2 DEF Promise!Written
    <3> HIDE DEF V
    <3> QED BY <3>1, <3>2, <3>3
  <2> HIDE DEF V
  <2>2. CASE Hits(entries, p) = {}
    <3>1. file'[p] = file[p] /\ unsynced'[p] = unsynced[p] BY <1>1, <2>2
    <3> QED BY <3>1 DEF Touched, V
  <2>3. CASE Hits(entries, p) # {}
    <3>1. PICK l \in Hits(entries, p) : file'[p] = entries[l].raw BY <1>1, <2>3
    <3>2. unsynced'[p] = unsynced[p] \cup {entries[k].raw : k \in Hits(entries, p)} \cup {TornPage}
      BY <1>1, <2>3
    <3>3. V # {} BY <2>1, <3>1
    <3>4. file'[p] \in {file[p], TornPage} \cup {encrypt_page(p, v) : v \in V} BY <2>1, <3>1
    <3>5. unsynced'[p] \subseteq unsynced[p] \cup {TornPage} \cup {encrypt_page(p, v) : v \in V}
      BY <2>1, <3>2
    <3>6. file'[p] \in unsynced'[p] BY <3>1, <3>2
    <3> QED BY <3>3, <3>4, <3>5, <3>6 DEF Touched, V
  <2> QED BY <2>2, <2>3
<1> QED BY <1>1, <1>2 DEF FileWritten

\* Landing an entry for every position of a call, in an order that keeps the
\* order of writes of the same page, leaves the last value everywhere.
LEMMA LandWritesAll ==
  ASSUME NEW n \in Nat, NEW indices \in [1 .. n -> Nat], NEW pages \in [1 .. n -> Values],
         NEW m \in Nat, NEW entries, NEW at, NEW p \in Page,
         EntriesOfAll(entries, at, m, indices, pages, n, p), Land(entries),
         Promise!Written(indices, pages, p) # {}
  PROVE  file'[p] = encrypt_page(p, Promise!LastWritten(indices, pages, p))
<1> USE DEF EntriesOfAll
<1>1. DOMAIN indices = 1 .. n OBVIOUS
<1>2. PICK x \in 1 .. n : indices[x] = p BY <1>1 DEF Promise!Written
<1>3. Hits(entries, p) # {} BY <1>2 DEF Hits
<1>4. PICK l \in Hits(entries, p) : /\ \A k \in Hits(entries, p) : k <= l
                                    /\ file'[p] = entries[l].raw
  BY <1>3, LandIs
<1>5. l \in DOMAIN entries /\ l \in 1 .. m /\ at[l] \in 1 .. n /\ indices[at[l]] = p
  BY DEF Hits
<1>6. file'[p] = encrypt_page(p, pages[at[l]]) BY <1>4, <1>5
<1>7. ASSUME NEW j \in 1 .. n, indices[j] = p PROVE j <= at[l]
  <2>1. PICK k \in DOMAIN entries : at[k] = j BY <1>7
  <2>2. k \in Hits(entries, p) BY <1>7, <2>1 DEF Hits
  <2>3. k \in 1 .. m /\ k <= l BY <1>4, <2>2
  <2>4. CASE k = l BY <1>5, <2>1, <2>4
  <2>5. CASE k < l
    <3>1. at[k] < at[l] BY <1>5, <1>7, <2>1, <2>3, <2>5
    <3> QED BY <1>5, <2>1, <3>1
  <2> QED BY <1>5, <2>3, <2>4, <2>5
<1> DEFINE last == CHOOSE k \in DOMAIN indices :
                     indices[k] = p /\ \A j \in DOMAIN indices : indices[j] = p => j <= k
<1>8. last = at[l]
  <2>1. at[l] \in DOMAIN indices /\ \A j \in DOMAIN indices : indices[j] = p => j <= at[l]
    BY <1>1, <1>5, <1>7
  <2>2. last \in DOMAIN indices /\ indices[last] = p
        /\ \A j \in DOMAIN indices : indices[j] = p => j <= last
    BY <1>5, <2>1
  <2> HIDE DEF last
  <2>3. last <= at[l] /\ at[l] <= last BY <1>5, <2>1, <2>2
  <2> QED BY <1>1, <1>5, <2>2, <2>3
<1>9. Promise!LastWritten(indices, pages, p) = pages[last] BY DEF Promise!LastWritten
<1> QED BY <1>6, <1>8, <1>9

\* batch writes the n positions of a call in an order that keeps the order of
\* writes of the same page.
BatchOf(batch, order, indices, pages, n) ==
  /\ order \in [1 .. n -> 1 .. n]
  /\ \A x \in 1 .. n : \E k \in 1 .. n : order[k] = x
  /\ \A j, k \in 1 .. n : j < k /\ indices[order[j]] = indices[order[k]] => order[j] < order[k]
  /\ batch \in [1 .. n -> Entry]
  /\ \A k \in 1 .. n : /\ batch[k].page = indices[order[k]]
                       /\ batch[k].raw = encrypt_page(indices[order[k]], pages[order[k]])

\* A sequence of writes to the file, any of which may fail.
LEMMA WriteAllAt ==
  ASSUME NEW n \in Nat, NEW indices \in [1 .. n -> Nat], NEW pages \in [1 .. n -> Values],
         NEW batch, NEW order, BatchOf(batch, order, indices, pages, n),
         NEW reach \in 0 .. n, reach = n => \A k \in 1 .. n : indices[k] \in Page,
         write_all_at(batch, reach)
  PROVE  /\ FileWritten(indices, pages)
         /\ \/ reply' = Promise!WriteOk /\ AllWritten(indices, pages)
            \/ reply' = Promise!Failed
<1>1. write_all_at(batch, reach) OBVIOUS
<1>2. /\ order \in [1 .. n -> 1 .. n]
      /\ \A x \in 1 .. n : \E k \in 1 .. n : order[k] = x
      /\ \A j, k \in 1 .. n : j < k /\ indices[order[j]] = indices[order[k]] => order[j] < order[k]
  BY DEF BatchOf
<1>3. reach \in 0 .. n /\ (reach = n => \A k \in 1 .. n : indices[k] \in Page) OBVIOUS
<1>5. \A k \in 1 .. n : /\ batch[k].page = indices[order[k]]
                        /\ batch[k].raw = encrypt_page(indices[order[k]], pages[order[k]])
  BY DEF BatchOf
<1>6. batch \in [1 .. n -> Entry] BY DEF BatchOf
<1>7. PICK d \in 0 .. reach, torn \in BOOLEAN :
        /\ Land(Landed(batch, d, reach, torn))
        /\ reply' = [result |-> IF d = Len(batch) THEN "ok" ELSE "err", out |-> <<>>]
  BY <1>1 DEF write_all_at
<1>8. Len(batch) = n BY <1>6, ListLen
<1> DEFINE e == Landed(batch, d, reach, torn)
<1>9. PICK t \in d .. d + 1 :
           /\ t <= reach
           /\ DOMAIN e = 1 .. t
           /\ \A k \in 1 .. d : e[k] = batch[k]
           /\ \A k \in d + 1 .. t : e[k].page = batch[k].page /\ e[k].raw = TornPage
  BY <1>3, <1>6, <1>7, LandedIs
<1>10. Land(e) BY <1>7
<1> HIDE DEF e
<1>11. DOMAIN e \subseteq 1 .. n BY <1>3, <1>9
<1>12. ASSUME NEW k \in DOMAIN e
       PROVE  /\ e[k].page = indices[order[k]]
              /\ \/ e[k].raw = TornPage
                 \/ e[k].raw = encrypt_page(indices[order[k]], pages[order[k]])
  <2>1. k \in 1 .. n /\ k \in 1 .. t BY <1>9, <1>11
  <2>2. CASE k \in 1 .. d BY <1>5, <1>9, <2>1, <2>2
  <2>3. CASE k \in d + 1 .. t BY <1>5, <1>9, <2>1, <2>3
  <2> QED BY <1>7, <1>9, <2>1, <2>2, <2>3
<1>13. FileWritten(indices, pages)
  <2>1. EntriesOf(e, order, n, indices, pages, n) BY <1>2, <1>11, <1>12 DEF EntriesOf
  <2> QED BY <1>10, <2>1, LandWrites
<1>14. CASE d # n BY <1>7, <1>8, <1>13, <1>14 DEF Promise!Failed
<1>15. CASE d = n
  <2>1. reach = n /\ t = d BY <1>3, <1>7, <1>9, <1>15
  <2>2. DOMAIN e = 1 .. n BY <1>9, <1>15, <2>1
  <2>3. \A k \in DOMAIN e : /\ e[k].page = indices[order[k]]
                            /\ e[k].raw = encrypt_page(indices[order[k]], pages[order[k]])
    BY <1>5, <1>9, <1>15, <2>2
  <2>4. ASSUME NEW p \in Page, Promise!Written(indices, pages, p) # {}
        PROVE  file'[p] = encrypt_page(p, Promise!LastWritten(indices, pages, p))
    <3>1. \A x \in 1 .. n : indices[x] = p => \E k \in DOMAIN e : order[k] = x BY <1>2, <2>2
    <3>2. EntriesOfAll(e, order, n, indices, pages, n, p)
      BY <1>2, <1>11, <2>3, <3>1 DEF EntriesOfAll
    <3> QED BY <1>10, <2>4, <3>2, LandWritesAll
  <2>5. AllWritten(indices, pages) BY <1>3, <2>1, <2>4 DEF AllWritten
  <2>6. reply' = Promise!WriteOk BY <1>7, <1>8, <1>15 DEF Promise!WriteOk
  <2> QED BY <1>13, <2>5, <2>6
<1> QED BY <1>14, <1>15

\* The batch of sealed pages that a call becomes.
LEMMA SealedBatch ==
  ASSUME NEW n \in Nat, NEW indices \in [1 .. n -> Nat], NEW pages \in [1 .. n -> Values],
         NEW order \in [1 .. n -> 1 .. n],
         \A x \in 1 .. n : \E k \in 1 .. n : order[k] = x,
         \A j, k \in 1 .. n : j < k /\ indices[order[j]] = indices[order[k]] => order[j] < order[k]
  PROVE  BatchOf([k \in 1 .. n |-> [page |-> indices[order[k]],
                                    raw  |-> encrypt_page(indices[order[k]], pages[order[k]])]],
                 order, indices, pages, n)
<1> DEFINE batch == [k \in 1 .. n |-> [page |-> indices[order[k]],
                                       raw  |-> encrypt_page(indices[order[k]], pages[order[k]])]]
<1>1. \A k \in 1 .. n : /\ batch[k].page = indices[order[k]]
                        /\ batch[k].raw = encrypt_page(indices[order[k]], pages[order[k]])
  OBVIOUS
<1>2. batch \in [1 .. n -> Entry]
  <2>1. ASSUME NEW k \in 1 .. n
        PROVE  [page |-> indices[order[k]],
                raw  |-> encrypt_page(indices[order[k]], pages[order[k]])] \in Entry
    <3>1. indices[order[k]] \in Nat /\ pages[order[k]] \in Values OBVIOUS
    <3> QED BY <3>1 DEF Entry, encrypt_page, Contents, NoAad
  <2> QED BY <2>1
<1> HIDE DEF batch
<1>3. BatchOf(batch, order, indices, pages, n) BY <1>1, <1>2 DEF BatchOf
<1> QED BY <1>3 DEF batch

\* A bulk write below the cache.
LEMMA InnerWrite ==
  ASSUME NEW n \in Nat, NEW indices \in [1 .. n -> Nat], NEW pages \in [1 .. n -> Values],
         InnerWritePages(indices, pages)
  PROVE  /\ FileWritten(indices, pages)
         /\ \/ reply' = Promise!WriteOk /\ AllWritten(indices, pages)
            \/ reply' = Promise!Failed
<1> DEFINE order == WriteOrder(indices)
           reach == Reach(indices)
           batch == [k \in 1 .. n |->
                      [page |-> indices[order[k]],
                       raw  |-> encrypt_page(indices[order[k]], pages[order[k]])]]
<1>1. /\ order \in [1 .. n -> 1 .. n]
      /\ \A x \in 1 .. n : \E k \in 1 .. n : order[k] = x
      /\ \A j, k \in 1 .. n : j < k /\ indices[order[j]] = indices[order[k]] => order[j] < order[k]
  BY WriteOrderIs
<1>2. write_all_at(batch, reach)
  <2>1. DOMAIN order = 1 .. n BY <1>1
  <2> QED BY <2>1 DEF InnerWritePages
<1>3. reach \in 0 .. n /\ (reach = n => \A k \in 1 .. n : indices[k] \in Page) BY ReachIs
<1> HIDE DEF order, reach
<1>4. BatchOf(batch, order, indices, pages, n) BY <1>1, SealedBatch
<1> HIDE DEF batch
<1> QED BY <1>2, <1>3, <1>4, WriteAllAt

\* x is the last of the n positions of a call that names page p.
IsLast(x, n, indices, p) ==
  x \in 1 .. n /\ indices[x] = p /\ \A j \in 1 .. n : indices[j] = p => j <= x

\* The value of the last position of a call that names a page.
LEMMA LastIs ==
  ASSUME NEW n \in Nat, NEW indices \in [1 .. n -> Nat], NEW pages \in [1 .. n -> Values],
         NEW p, NEW x \in 1 .. n,         IsLast(x, n, indices, p)
  PROVE  Promise!LastWritten(indices, pages, p) = pages[x]
<1> USE DEF IsLast
<1> DEFINE last == CHOOSE k \in DOMAIN indices :
                     indices[k] = p /\ \A j \in DOMAIN indices : indices[j] = p => j <= k
<1>1. DOMAIN indices = 1 .. n OBVIOUS
<1>2. last \in DOMAIN indices /\ indices[last] = p
      /\ \A j \in DOMAIN indices : indices[j] = p => j <= last
  BY <1>1
<1> HIDE DEF last
<1>3. last <= x /\ x <= last BY <1>1, <1>2
<1>4. last = x BY <1>1, <1>2, <1>3
<1>5. Promise!LastWritten(indices, pages, p) = pages[last] BY DEF Promise!LastWritten, last
<1> QED BY <1>4, <1>5

\* The last position that names a written page.
LEMMA LastExists ==
  ASSUME NEW n \in Nat, NEW indices \in [1 .. n -> Nat], NEW pages \in [1 .. n -> Values], NEW p,
         Promise!Written(indices, pages, p) # {}
  PROVE  \E x \in 1 .. n : /\ indices[x] = p
                           /\ \A j \in 1 .. n : indices[j] = p => j <= x
                           /\ Promise!LastWritten(indices, pages, p) = pages[x]
<1> DEFINE S == {k \in 1 .. n : indices[k] = p}
<1>1. DOMAIN indices = 1 .. n OBVIOUS
<1>2. S # {} BY <1>1 DEF Promise!Written
<1>3. S \subseteq 0 .. n OBVIOUS
<1>4. Max(S) \in S /\ \A k \in S : k <= Max(S)
  <2> HIDE DEF S
  <2> QED BY <1>2, <1>3, MaxIs
<1>5. PICK x \in S : \A k \in S : k <= x BY <1>4
<1>6. x \in 1 .. n /\ indices[x] = p /\ \A j \in 1 .. n : indices[j] = p => j <= x BY <1>5
<1>7. IsLast(x, n, indices, p) BY <1>6 DEF IsLast
<1>8. Promise!LastWritten(indices, pages, p) = pages[x] BY <1>6, <1>7, LastIs
<1> QED BY <1>6, <1>8

\* Sealing and opening.
LEMMA Sealing ==
  ASSUME stack \in Stacks, NEW p \in Page
  PROVE  /\ \A v \in Contents : encrypt_page(p, v) \in Raw /\ decrypt_page(p, encrypt_page(p, v)) = v
         /\ TornPage \in Raw /\ decrypt_page(p, TornPage) = Garbled
         /\ ZeroPage \in Raw
<1>1. p \in Nat /\ NoAad # p BY PageTypes DEF NoAad
<1> QED BY <1>1, PageTypes DEF encrypt_page, decrypt_page, Raw, TornPage, ZeroPage, Contents

\* The file after a write of a list of pages that go below the cache.
BelowWritten(indices, pages) ==
  /\ file' = [p \in Page |-> file'[p]] /\ unsynced' = [p \in Page |-> unsynced'[p]]
  /\ \A p \in Page : p \notin CachedPage => Touched(p, Promise!Written(indices, pages, p))
  /\ \A p \in CachedPage : file'[p] = file[p] /\ unsynced'[p] = unsynced[p]

\* The cache after a write of a list of pages.
FrontWritten(indices, pages) ==
  /\ cached' = [p \in CachedPage |-> cached'[p]] /\ dirty' \subseteq CachedPage
  /\ \A p \in CachedPage :
       \/ cached'[p] = cached[p] /\ (p \in dirty' <=> p \in dirty)
       \/ cached'[p] \in Promise!Written(indices, pages, p) /\ p \in dirty'

\* Every page of the list holds the last value written to it.
AllBelow(indices, pages) ==
  \A p \in Page : p \notin CachedPage /\ Promise!Written(indices, pages, p) # {} =>
     file'[p] = encrypt_page(p, Promise!LastWritten(indices, pages, p))

\* The same for the pages of the cache.
AllFront(indices, pages) ==
  \A p \in CachedPage : Promise!Written(indices, pages, p) # {} =>
     cached'[p] = Promise!LastWritten(indices, pages, p)

\* The cache takes a prefix of a call.
LEMMA FrontWriteIs ==
  ASSUME NEW n \in Nat, NEW indices \in [1 .. n -> Nat], NEW pages \in [1 .. n -> Values],
         NEW r \in 0 .. n, FrontWrite(indices, pages, r), dirty \subseteq CachedPage
  PROVE  /\ FrontWritten(indices, pages)
         /\ r = n => AllFront(indices, pages)
<1> DEFINE hits(p) == {k \in 1 .. r : indices[k] = p}
<1>1. /\ cached' = [p \in CachedPage |-> IF hits(p) = {} THEN cached[p] ELSE pages[Max(hits(p))]]
      /\ dirty' = dirty \cup {p \in CachedPage : hits(p) # {}}
  BY DEF FrontWrite
<1>2. DOMAIN indices = 1 .. n OBVIOUS
<1>3. ASSUME NEW p \in CachedPage, hits(p) # {}
      PROVE  /\ Max(hits(p)) \in hits(p) /\ \A k \in hits(p) : k <= Max(hits(p))
             /\ cached'[p] = pages[Max(hits(p))] /\ p \in dirty'
  <2>1. hits(p) \subseteq 0 .. n OBVIOUS
  <2>2. PICK S : S = hits(p) OBVIOUS
  <2>3. S # {} /\ S \subseteq 0 .. n BY <1>3, <2>1, <2>2
  <2>4. Max(S) \in S /\ \A k \in S : k <= Max(S) BY <2>3, MaxIs
  <2> QED BY <1>1, <1>3, <2>2, <2>4
<1>4. ASSUME NEW p \in CachedPage, hits(p) = {}
      PROVE  cached'[p] = cached[p] /\ (p \in dirty' <=> p \in dirty)
  BY <1>1, <1>4
<1>5. cached' = [p \in CachedPage |-> cached'[p]] /\ dirty' \subseteq CachedPage BY <1>1
<1>6. ASSUME NEW p \in CachedPage, hits(p) # {}
      PROVE  cached'[p] \in Promise!Written(indices, pages, p) /\ p \in dirty'
  <2>1. PICK k \in hits(p) : cached'[p] = pages[k] BY <1>3, <1>6
  <2>2. k \in 1 .. n /\ indices[k] = p BY <2>1
  <2> QED BY <1>2, <1>3, <1>6, <2>1, <2>2 DEF Promise!Written
<1>7. FrontWritten(indices, pages)
  <2> HIDE DEF hits
  <2> QED BY <1>4, <1>5, <1>6 DEF FrontWritten
<1>8. ASSUME r = n, NEW p \in CachedPage, Promise!Written(indices, pages, p) # {}
      PROVE  cached'[p] = Promise!LastWritten(indices, pages, p)
  <2>1. PICK x \in 1 .. n : indices[x] = p BY <1>2, <1>8 DEF Promise!Written
  <2>2. hits(p) # {} BY <1>8, <2>1
  <2>3. PICK k \in hits(p) : cached'[p] = pages[k] /\ \A j \in hits(p) : j <= k BY <1>3, <2>2
  <2>4. k \in 1 .. n /\ indices[k] = p /\ \A j \in 1 .. n : indices[j] = p => j <= k BY <1>8, <2>3
  <2>5. IsLast(k, n, indices, p) BY <2>4 DEF IsLast
  <2>6. Promise!LastWritten(indices, pages, p) = pages[k]
    <3> HIDE <1>8
    <3> QED BY <2>5, LastIs
  <2> QED BY <2>3, <2>6
<1> QED BY <1>7, <1>8 DEF AllFront

\* The part of a call that goes below the cache.
LEMMA PickWritten ==
  ASSUME NEW n \in Nat, NEW indices \in [1 .. n -> Nat], NEW pages \in [1 .. n -> Values],
         NEW inner, NEW m, Inner(inner, m, indices, n), NEW p
  PROVE  /\ p \in CachedPage => Promise!Written(Pick(indices, inner), Pick(pages, inner), p) = {}
         /\ p \notin CachedPage =>
              /\ Promise!Written(Pick(indices, inner), Pick(pages, inner), p)
                   = Promise!Written(indices, pages, p)
              /\ Promise!Written(indices, pages, p) # {} =>
                   Promise!LastWritten(Pick(indices, inner), Pick(pages, inner), p)
                     = Promise!LastWritten(indices, pages, p)
<1> DEFINE I == Pick(indices, inner)
           P == Pick(pages, inner)
<1>1. /\ m \in Nat /\ inner \in [1 .. m -> 1 .. n]
      /\ \A j, k \in 1 .. m : j < k => inner[j] < inner[k]
      /\ \A k \in 1 .. m : indices[inner[k]] \notin CachedPage
      /\ \A x \in 1 .. n : indices[x] \notin CachedPage => \E k \in 1 .. m : inner[k] = x
  BY DEF Inner
<1>2. /\ I \in [1 .. m -> Nat] /\ P \in [1 .. m -> Values]
      /\ \A k \in 1 .. m : I[k] = indices[inner[k]] /\ P[k] = pages[inner[k]]
  BY <1>1 DEF Pick
<1> HIDE DEF I, P
<1>3. DOMAIN I = 1 .. m /\ DOMAIN indices = 1 .. n BY <1>2
<1>4. ASSUME p \in CachedPage PROVE Promise!Written(I, P, p) = {}
  BY <1>1, <1>2, <1>3, <1>4 DEF Promise!Written
<1>5. ASSUME p \notin CachedPage PROVE Promise!Written(I, P, p) = Promise!Written(indices, pages, p)
  <2>1. ASSUME NEW v \in Promise!Written(I, P, p) PROVE v \in Promise!Written(indices, pages, p)
    <3>1. PICK k \in 1 .. m : I[k] = p /\ v = P[k] BY <1>3 DEF Promise!Written
    <3>2. inner[k] \in 1 .. n /\ indices[inner[k]] = p /\ v = pages[inner[k]] BY <1>1, <1>2, <3>1
    <3> QED BY <1>3, <3>2 DEF Promise!Written
  <2>2. ASSUME NEW v \in Promise!Written(indices, pages, p) PROVE v \in Promise!Written(I, P, p)
    <3>1. PICK x \in 1 .. n : indices[x] = p /\ v = pages[x] BY <1>3 DEF Promise!Written
    <3>2. PICK k \in 1 .. m : inner[k] = x BY <1>1, <1>5, <3>1
    <3>3. I[k] = p /\ P[k] = v BY <1>2, <3>1, <3>2
    <3> QED BY <1>3, <3>3 DEF Promise!Written
  <2> QED BY <2>1, <2>2
<1>6. ASSUME p \notin CachedPage, Promise!Written(indices, pages, p) # {}
      PROVE  Promise!LastWritten(I, P, p) = Promise!LastWritten(indices, pages, p)
  <2>1. PICK x \in 1 .. n : /\ indices[x] = p
                            /\ \A j \in 1 .. n : indices[j] = p => j <= x
                            /\ Promise!LastWritten(indices, pages, p) = pages[x]
    BY <1>6, LastExists
  <2>2. PICK k \in 1 .. m : inner[k] = x BY <1>1, <1>6, <2>1
  <2>3. I[k] = p /\ P[k] = pages[x] BY <1>2, <2>1, <2>2
  <2>4. ASSUME NEW j \in 1 .. m, I[j] = p PROVE j <= k
    <3>1. inner[j] \in 1 .. n /\ indices[inner[j]] = p BY <1>1, <1>2, <2>4
    <3>2. inner[j] <= inner[k] BY <2>1, <2>2, <3>1
    <3>3. inner[j] \in Int /\ inner[k] \in Int BY <1>1
    <3> QED BY <1>1, <3>2, <3>3
  <2>5. Promise!LastWritten(I, P, p) = P[k]
    <3>1. IsLast(k, m, I, p) BY <2>3, <2>4 DEF IsLast
    <3>2. m \in Nat /\ I \in [1 .. m -> Nat] BY <1>1, <1>2
    <3>3. P \in [1 .. m -> Values] BY <1>2
    <3> QED BY <3>1, <3>2, <3>3, LastIs
  <2> QED BY <2>1, <2>3, <2>5
<1> QED BY <1>4, <1>5, <1>6 DEF I, P

\* A write of an open stack, whichever way it goes, keeps the promise of Write,
\* the types and the clean pages.
LEMMA OpenWrite ==
  ASSUME StackTypeOK, CleanPagesMatchFile, stack \in Stacks, stack' = stack,
         mode = "open", mode' = mode, next' = next,
         NEW n \in Nat, NEW indices \in [1 .. n -> Nat], NEW pages \in [1 .. n -> Values],
         BelowWritten(indices, pages), FrontWritten(indices, pages),
         \/ /\ reply' = Promise!WriteOk /\ \A k \in 1 .. n : indices[k] \in Page
            /\ AllBelow(indices, pages) /\ AllFront(indices, pages)
         \/ reply' = Promise!Failed
  PROVE  Promise!Write(indices, pages) /\ StackTypeOK' /\ CleanPagesMatchFile'
<1> DEFINE W(p) == Promise!Written(indices, pages, p)
<1>0. \A p : W(p) \subseteq Values
  BY DEF Promise!Written
<1>1. /\ Page' = Page /\ CachedPage' = CachedPage /\ Raw' = Raw
      /\ CallerSees' = [p \in Page |-> Seen(p, mode', next', cached', file')]
      /\ MayRemain' = [p \in Page |-> Remains(p, mode', next', cached', dirty', unsynced')]
  BY MappingNext
<1>2. /\ CallerSees = [p \in Page |-> Seen(p, mode, next, cached, file)]
      /\ MayRemain = [p \in Page |-> Remains(p, mode, next, cached, dirty, unsynced)]
  BY MappingNow
<1>3. Values \subseteq Contents /\ Garbled \in Contents BY DEF Contents
<1>4. CachedPage \subseteq Page BY PageTypes
<1>5. /\ file \in [Page -> Raw] /\ cached \in [CachedPage -> Contents] /\ dirty \subseteq CachedPage
      /\ unsynced \in [Page -> SUBSET Raw] /\ \A p \in Page : file[p] \in unsynced[p]
  BY DEF StackTypeOK
<1> HIDE DEF W
<1>6. ASSUME NEW p \in Page, p \notin CachedPage
      PROVE  /\ file'[p] \in Raw /\ unsynced'[p] \subseteq Raw /\ file'[p] \in unsynced'[p]
             /\ Seen(p, mode', next', cached', file')
                  \in {CallerSees[p]} \cup (IF W(p) = {} THEN {} ELSE W(p) \cup {Garbled})
             /\ Remains(p, mode', next', cached', dirty', unsynced')
                  \subseteq MayRemain[p] \cup (IF W(p) = {} THEN {} ELSE W(p) \cup {Garbled})
             /\ W(p) = {} => Seen(p, mode', next', cached', file') = CallerSees[p]
  <2>1. Touched(p, W(p)) BY <1>6 DEF BelowWritten, W
  <2>2. /\ \A v \in W(p) : encrypt_page(p, v) \in Raw /\ decrypt_page(p, encrypt_page(p, v)) = v
        /\ TornPage \in Raw /\ decrypt_page(p, TornPage) = Garbled
    BY <1>0, <1>3, Sealing
  <2>3. /\ Seen(p, mode', next', cached', file') = decrypt_page(p, file'[p])
        /\ CallerSees[p] = decrypt_page(p, file[p])
    BY <1>2, <1>6 DEF Seen
  <2>4. /\ Remains(p, mode', next', cached', dirty', unsynced')
             = {decrypt_page(p, raw) : raw \in unsynced'[p]}
        /\ MayRemain[p] = {decrypt_page(p, raw) : raw \in unsynced[p]}
    BY <1>2, <1>6 DEF Remains
  <2>5. CASE W(p) = {}
    <3>1. file'[p] = file[p] /\ unsynced'[p] = unsynced[p] BY <2>1, <2>5 DEF Touched
    <3> QED BY <1>5, <2>3, <2>4, <3>1
  <2>6. CASE W(p) # {}
    <3>1. /\ file'[p] \in {file[p], TornPage} \cup {encrypt_page(p, v) : v \in W(p)}
          /\ unsynced'[p] \subseteq unsynced[p] \cup {TornPage} \cup {encrypt_page(p, v) : v \in W(p)}
          /\ file'[p] \in unsynced'[p]
      BY <1>5, <2>1 DEF Touched
    <3>2. file'[p] \in Raw /\ unsynced'[p] \subseteq Raw BY <1>5, <2>2, <3>1
    <3>3. decrypt_page(p, file'[p]) \in {decrypt_page(p, file[p])} \cup W(p) \cup {Garbled}
      BY <2>2, <3>1
    <3>4. ASSUME NEW raw \in unsynced'[p]
          PROVE  decrypt_page(p, raw) \in MayRemain[p] \cup W(p) \cup {Garbled}
      BY <2>2, <2>4, <3>1
    <3> QED BY <2>3, <2>4, <2>6, <3>1, <3>2, <3>3, <3>4
  <2> QED BY <2>5, <2>6
<1>7. ASSUME NEW p \in CachedPage
      PROVE  /\ file'[p] = file[p] /\ unsynced'[p] = unsynced[p] /\ cached'[p] \in Contents
             /\ Seen(p, mode', next', cached', file') = cached'[p]
             /\ cached'[p] \in {CallerSees[p]} \cup (IF W(p) = {} THEN {} ELSE W(p) \cup {Garbled})
             /\ Remains(p, mode', next', cached', dirty', unsynced')
                  \subseteq MayRemain[p] \cup (IF W(p) = {} THEN {} ELSE W(p) \cup {Garbled})
             /\ W(p) = {} => cached'[p] = CallerSees[p]
             /\ p \notin dirty' => decrypt_page(p, file'[p]) = cached'[p]
  <2>1. file'[p] = file[p] /\ unsynced'[p] = unsynced[p] BY DEF BelowWritten
  <2>2. \/ cached'[p] = cached[p] /\ (p \in dirty' <=> p \in dirty)
        \/ cached'[p] \in W(p) /\ p \in dirty'
    BY DEF FrontWritten, W
  <2>3. Seen(p, mode', next', cached', file') = cached'[p] BY DEF Seen
  <2>4. CallerSees[p] = cached[p] BY <1>2, <1>4 DEF Seen
  <2>5. /\ Remains(p, mode', next', cached', dirty', unsynced')
             = {decrypt_page(p, raw) : raw \in unsynced[p]}
                 \cup IF p \in dirty' THEN {cached'[p], Garbled} ELSE {}
        /\ MayRemain[p] = {decrypt_page(p, raw) : raw \in unsynced[p]}
                 \cup IF p \in dirty THEN {cached[p], Garbled} ELSE {}
    BY <1>2, <1>4, <2>1 DEF Remains
  <2>6. p \notin dirty => decrypt_page(p, file[p]) = cached[p]
    BY DEF CleanPagesMatchFile, InCache
  <2>7. CASE cached'[p] = cached[p] /\ (p \in dirty' <=> p \in dirty)
    <3>1. cached[p] \in Contents BY <1>5
    <3> QED BY <2>1, <2>3, <2>4, <2>5, <2>6, <2>7, <3>1
  <2>8. CASE cached'[p] \in W(p) /\ p \in dirty'
    <3>1. cached'[p] \in Contents /\ W(p) # {} BY <1>0, <1>3, <2>8
    <3> QED BY <2>1, <2>3, <2>4, <2>5, <2>8, <3>1
  <2> QED BY <2>2, <2>7, <2>8
<1>8. StackTypeOK'
  <2>1. file' = [p \in Page |-> file'[p]] /\ unsynced' = [p \in Page |-> unsynced'[p]] BY DEF BelowWritten
  <2>2. cached' = [p \in CachedPage |-> cached'[p]] /\ dirty' \subseteq CachedPage BY DEF FrontWritten
  <2>3. \A p \in Page : file'[p] \in Raw /\ unsynced'[p] \subseteq Raw /\ file'[p] \in unsynced'[p]
    BY <1>5, <1>6, <1>7
  <2>4. file' \in [Page -> Raw] BY <2>1, <2>3
  <2>5. unsynced' \in [Page -> SUBSET Raw] BY <2>1, <2>3
  <2>6. cached' \in [CachedPage -> Contents] BY <1>7, <2>2
  <2>7. mode' \in {"closed", "building", "open"} /\ next' \in Page BY DEF StackTypeOK
  <2> QED BY <1>1, <2>2, <2>3, <2>4, <2>5, <2>6, <2>7 DEF StackTypeOK
<1>9. CleanPagesMatchFile'
  <2>1. \A p \in CachedPage : p \notin dirty' => decrypt_page(p, file'[p]) = cached'[p] BY <1>7
  <2> QED BY <1>1, <2>1 DEF CleanPagesMatchFile, decrypt_page, Encrypted
<1>10. ASSUME NEW p \in Page
       PROVE  /\ CallerSees'[p] \in {CallerSees[p]} \cup (IF W(p) = {} THEN {} ELSE W(p) \cup {Garbled})
              /\ MayRemain'[p] \subseteq MayRemain[p] \cup (IF W(p) = {} THEN {} ELSE W(p) \cup {Garbled})
              /\ W(p) = {} => CallerSees'[p] = CallerSees[p]
              /\ CallerSees'[p] \in Contents
  <2>1. CallerSees'[p] = Seen(p, mode', next', cached', file') BY <1>1
  <2>2. MayRemain'[p] = Remains(p, mode', next', cached', dirty', unsynced') BY <1>1
  <2>3. CallerSees[p] \in Contents BY <1>2, SeenType
  <2>4. \A v \in W(p) : v \in Contents BY <1>0, <1>3
  <2>5. CASE p \in CachedPage BY <1>7, <2>1, <2>2, <2>5
  <2>6. CASE p \notin CachedPage BY <1>3, <1>6, <2>1, <2>2, <2>3, <2>4, <2>6
  <2> QED BY <2>5, <2>6
<1>11. Promise!Page = Page BY PromisePages
<1>12. DOMAIN indices = 1 .. n OBVIOUS
<1>13. \A p \in Promise!Page : MayRemain'[p] \subseteq MayRemain[p] \cup
          (IF Promise!Written(indices, pages, p) = {} THEN {}
           ELSE Promise!Written(indices, pages, p) \cup {Garbled})
  BY <1>10, <1>11 DEF W
<1>14. CASE reply' = Promise!Failed
  <2>1. CallerSees' = [p \in Page |-> CallerSees'[p]] BY <1>1
  <2>2. CallerSees' \in [Page -> Contents] BY <1>10, <2>1
  <2>3. Promise!Contents = Contents BY DEF Promise!Contents, Contents
  <2>4. \A p \in Page : CallerSees'[p] \in {CallerSees[p]} \cup
          (IF Promise!Written(indices, pages, p) = {} THEN {}
           ELSE Promise!Written(indices, pages, p) \cup {Garbled})
    BY <1>10 DEF W
  <2> QED BY <1>8, <1>9, <1>11, <1>13, <1>14, <2>2, <2>3, <2>4 DEF Promise!Write
<1>15. CASE /\ reply' = Promise!WriteOk /\ \A k \in 1 .. n : indices[k] \in Page
            /\ AllBelow(indices, pages) /\ AllFront(indices, pages)
  <2>1. ASSUME NEW p \in Page
        PROVE  CallerSees'[p] = IF W(p) = {} THEN CallerSees[p]
                                ELSE Promise!LastWritten(indices, pages, p)
    <3>1. CASE W(p) = {} BY <1>10, <3>1
    <3>2. CASE W(p) # {} /\ p \in CachedPage
      <4>1. cached'[p] = Promise!LastWritten(indices, pages, p) BY <1>15, <3>2 DEF AllFront, W
      <4> QED BY <1>1, <1>7, <3>2, <4>1
    <3>3. CASE W(p) # {} /\ p \notin CachedPage
      <4> DEFINE v == Promise!LastWritten(indices, pages, p)
      <4>1. file'[p] = encrypt_page(p, v) BY <1>15, <3>3 DEF AllBelow, W
      <4>2. v \in Contents
        <5>1. PICK x \in 1 .. n : v = pages[x] BY <3>3, LastExists DEF W
        <5> QED BY <1>3, <5>1
      <4> HIDE DEF v
      <4>3. decrypt_page(p, encrypt_page(p, v)) = v BY <4>2, Sealing
      <4>4. CallerSees'[p] = decrypt_page(p, file'[p]) BY <1>1, <3>3 DEF Seen
      <4> QED BY <3>3, <4>1, <4>3, <4>4 DEF v
    <3> QED BY <3>1, <3>2, <3>3
  <2>2. CallerSees' = [p \in Page |-> CallerSees'[p]] BY <1>1
  <2>3. CallerSees' = [p \in Page |-> IF W(p) = {} THEN CallerSees[p]
                                      ELSE Promise!LastWritten(indices, pages, p)]
    BY <2>1, <2>2
  <2> QED BY <1>8, <1>9, <1>11, <1>12, <1>13, <1>15, <2>3 DEF Promise!Write, W
<1> QED BY <1>14, <1>15

\* A call that leaves the file alone writes nothing below the cache.
LEMMA NothingBelow ==
  ASSUME StackTypeOK, stack \in Stacks, UNCHANGED <<file, unsynced>>, NEW indices, NEW pages
  PROVE  BelowWritten(indices, pages)
<1>1. file' = [p \in Page |-> file'[p]] BY DEF StackTypeOK
<1>2. unsynced' = [p \in Page |-> unsynced'[p]] BY DEF StackTypeOK
<1>3. file' = file /\ unsynced' = unsynced OBVIOUS
<1>4. \A p \in Page : Touched(p, Promise!Written(indices, pages, p)) BY <1>3 DEF Touched
<1> QED BY <1>1, <1>2, <1>3, <1>4 DEF BelowWritten

\* How far the cache follows a call.
LEMMA FrontReachIs ==
  ASSUME NEW n \in Nat, NEW indices \in [1 .. n -> Nat]
  PROVE  /\ FrontReach(indices) \in 0 .. n
         /\ FrontReach(indices) = n => \A k \in 1 .. n : indices[k] \in Page
<1> DEFINE bad == {k \in DOMAIN indices : indices[k] \notin Page}
<1>1. FrontReach(indices) = IF bad = {} THEN Len(indices) ELSE Min(bad) - 1 BY DEF FrontReach
<1>2. Len(indices) = n /\ DOMAIN indices = 1 .. n BY ListLen
<1>3. CASE bad = {}
  <2>1. \A k \in 1 .. n : indices[k] \in Page BY <1>2, <1>3
  <2> QED BY <1>1, <1>2, <1>3, <2>1
<1>4. CASE bad # {}
  <2>1. bad \subseteq Nat /\ bad \subseteq 1 .. n BY <1>2
  <2> HIDE DEF bad
  <2>2. Min(bad) \in 1 .. n BY <1>4, <2>1, MinIs
  <2> QED BY <1>1, <1>4, <2>2
<1> QED BY <1>3, <1>4

\* A bulk write through the cache.
LEMMA WritePages ==
  ASSUME StackTypeOK, CleanPagesMatchFile, stack \in Stacks, stack' = stack,
         NEW n \in Nat, NEW indices \in [1 .. n -> Nat], NEW pages \in [1 .. n -> Values],
         write_pages(indices, pages)
  PROVE  Promise!Write(indices, pages) /\ mode = "open" /\ StackTypeOK' /\ CleanPagesMatchFile'
<1>1. mode = "open" /\ mode' = mode /\ next' = next BY DEF write_pages
<1>2. dirty \subseteq CachedPage BY DEF StackTypeOK
<1>3. Len(indices) = n BY ListLen
<1>4. CASE /\ FrontWrite(indices, pages, FrontReach(indices)) /\ IoError
           /\ UNCHANGED <<file, unsynced>>
  <2>1. FrontReach(indices) \in 0 .. n BY FrontReachIs
  <2>2. FrontWritten(indices, pages) BY <1>2, <1>4, <2>1, FrontWriteIs
  <2>3. BelowWritten(indices, pages) BY <1>4, NothingBelow
  <2>4. reply' = Promise!Failed BY <1>4 DEF IoError, Promise!Failed
  <2> QED BY <1>1, <2>2, <2>3, <2>4, OpenWrite
<1> DEFINE inner == InnerPositions(indices)
           I == Pick(indices, inner)
           P == Pick(pages, inner)
<1>5. CASE FrontWrite(indices, pages, Len(indices)) /\ InnerWritePages(I, P)
  <2>1. n \in 0 .. n OBVIOUS
  <2>2. FrontWrite(indices, pages, n) BY <1>3, <1>5
  <2>3. FrontWritten(indices, pages) /\ AllFront(indices, pages)
    BY <1>2, <2>1, <2>2, FrontWriteIs
  <2>4. PICK m : Inner(inner, m, indices, n) BY InnerIs
  <2>5. m \in Nat /\ I \in [1 .. m -> Nat] /\ P \in [1 .. m -> Values]
        /\ \A k \in 1 .. m : I[k] = indices[inner[k]]
    BY <2>4 DEF Inner, Pick
  <2>6. \A p : /\ p \in CachedPage => Promise!Written(I, P, p) = {}
               /\ p \notin CachedPage => Promise!Written(I, P, p) = Promise!Written(indices, pages, p)
    BY <2>4, PickWritten
  <2>7. \A p : p \notin CachedPage /\ Promise!Written(indices, pages, p) # {} =>
               Promise!LastWritten(I, P, p) = Promise!LastWritten(indices, pages, p)
    BY <2>4, PickWritten
  <2> HIDE DEF inner, I, P
  <2>8. /\ FileWritten(I, P)
        /\ \/ reply' = Promise!WriteOk /\ AllWritten(I, P)
           \/ reply' = Promise!Failed
    BY <1>5, <2>5, InnerWrite
  <2>9. BelowWritten(indices, pages)
    <3>1. ASSUME NEW p \in Page, p \notin CachedPage
          PROVE  Touched(p, Promise!Written(indices, pages, p))
      BY <2>6, <2>8, <3>1 DEF FileWritten
    <3>2. ASSUME NEW p \in CachedPage PROVE file'[p] = file[p] /\ unsynced'[p] = unsynced[p]
      <4>1. p \in Page BY PageTypes
      <4>2. Touched(p, {}) BY <2>6, <2>8, <4>1 DEF FileWritten
      <4> QED BY <4>2 DEF Touched
    <3> QED BY <2>8, <3>1, <3>2 DEF BelowWritten, FileWritten
  <2>10. CASE reply' = Promise!Failed BY <1>1, <2>3, <2>9, <2>10, OpenWrite
  <2>11. CASE reply' = Promise!WriteOk /\ AllWritten(I, P)
    <3>1. AllBelow(indices, pages) BY <2>6, <2>7, <2>11 DEF AllWritten, AllBelow
    <3>2. \A k \in 1 .. m : indices[inner[k]] \in Page BY <2>5, <2>11 DEF AllWritten
    <3>3. ASSUME NEW k \in 1 .. n PROVE indices[k] \in Page
      <4>1. CASE indices[k] \in CachedPage BY <4>1, PageTypes
      <4>2. CASE indices[k] \notin CachedPage BY <2>4, <3>2, <4>2 DEF Inner
      <4> QED BY <4>1, <4>2
    <3> QED BY <1>1, <2>3, <2>9, <2>11, <3>1, <3>3, OpenWrite
  <2> QED BY <2>8, <2>10, <2>11
<1> QED BY <1>4, <1>5 DEF write_pages

\* A path written page by page.
LEMMA WritePlainPath ==
  ASSUME StackTypeOK, CleanPagesMatchFile, stack \in Stacks, stack' = stack,
         NEW n \in Nat, NEW indices \in [1 .. n -> Nat], NEW pages \in [1 .. n -> Values],
         write_plain_path_pages(indices, pages)
  PROVE  Promise!Write(indices, pages) /\ mode = "open" /\ StackTypeOK' /\ CleanPagesMatchFile'
<1> DEFINE reach == FrontReach(indices)
           batch == [k \in 1 .. reach |->
                      [page |-> indices[k], raw |-> encrypt_page(indices[k], pages[k])]]
           landed(r, torn) == Landed(batch, r, reach, torn)
           below(r, torn) == {k \in DOMAIN landed(r, torn) : indices[k] \notin CachedPage}
<1>1. mode = "open" /\ mode' = mode /\ next' = next BY DEF write_plain_path_pages
<1>2. dirty \subseteq CachedPage BY DEF StackTypeOK
<1>3. Len(indices) = n BY ListLen
<1>4. reach \in 0 .. n /\ (reach = n => \A k \in 1 .. n : indices[k] \in Page) BY FrontReachIs
<1>5. PICK r \in 0 .. reach, torn \in BOOLEAN :
        /\ Land([k \in below(r, torn) |-> landed(r, torn)[k]])
        /\ FrontWrite(indices, pages, r)
        /\ reply' = [result |-> IF r = Len(indices) THEN "ok" ELSE "err", out |-> <<>>]
  BY DEF write_plain_path_pages
<1> HIDE DEF reach
<1>6. batch \in [1 .. reach -> Entry]
  <2>1. ASSUME NEW k \in 1 .. reach
        PROVE  [page |-> indices[k], raw |-> encrypt_page(indices[k], pages[k])] \in Entry
    <3>1. indices[k] \in Nat /\ pages[k] \in Values BY <1>4
    <3> QED BY <3>1 DEF Entry, encrypt_page, Contents, NoAad
  <2> QED BY <2>1
<1>7. \A k \in 1 .. reach : /\ batch[k].page = indices[k]
                            /\ batch[k].raw = encrypt_page(indices[k], pages[k])
  OBVIOUS
<1> HIDE DEF batch
<1> DEFINE l == landed(r, torn)
           e == [k \in below(r, torn) |-> l[k]]
<1>8. PICK t \in r .. r + 1 :
           /\ t <= reach
           /\ DOMAIN l = 1 .. t
           /\ \A k \in 1 .. r : l[k] = batch[k]
           /\ \A k \in r + 1 .. t : l[k].page = batch[k].page /\ l[k].raw = TornPage
  <2>1. reach \in Nat /\ reach \in 0 .. reach BY <1>4
  <2> QED BY <1>5, <1>6, <2>1, LandedIs
<1>9. Land(e) BY <1>5
<1>10. DOMAIN e = {k \in DOMAIN l : indices[k] \notin CachedPage} /\ \A k \in DOMAIN e : e[k] = l[k]
  OBVIOUS
<1> HIDE DEF l, e
<1>11. DOMAIN e \subseteq 1 .. n /\ DOMAIN e \subseteq 1 .. t BY <1>4, <1>8, <1>10
<1> DEFINE at == [k \in 1 .. n |-> k]
<1>12. at \in [1 .. n -> 1 .. n] /\ \A k \in 1 .. n : at[k] = k OBVIOUS
<1> HIDE DEF at
<1>13. ASSUME NEW k \in DOMAIN e
       PROVE  /\ e[k].page = indices[k] /\ indices[k] \notin CachedPage
              /\ \/ e[k].raw = TornPage /\ k \notin 1 .. r
                 \/ e[k].raw = encrypt_page(indices[k], pages[k])
  <2>1. k \in 1 .. n /\ k \in 1 .. t /\ k \in 1 .. reach BY <1>4, <1>8, <1>11
  <2>2. e[k] = l[k] /\ indices[k] \notin CachedPage BY <1>10
  <2>3. CASE k \in 1 .. r BY <1>7, <1>8, <2>1, <2>2, <2>3
  <2>4. CASE k \in r + 1 .. t BY <1>7, <1>8, <2>1, <2>2, <2>4
  <2> QED BY <1>5, <1>8, <2>1, <2>3, <2>4
<1>14. FileWritten(indices, pages)
  <2>1. EntriesOf(e, at, n, indices, pages, n) BY <1>11, <1>12, <1>13 DEF EntriesOf
  <2> QED BY <1>9, <2>1, LandWrites
<1>15. BelowWritten(indices, pages)
  <2>1. ASSUME NEW p \in CachedPage PROVE file'[p] = file[p] /\ unsynced'[p] = unsynced[p]
    <3>1. p \in Page BY PageTypes
    <3>2. Hits(e, p) = {} BY <1>13 DEF Hits
    <3> QED BY <1>9, <1>11, <3>1, <3>2, LandIs
  <2> QED BY <1>14, <2>1 DEF BelowWritten, FileWritten
<1>16. r \in 0 .. n BY <1>4, <1>5
<1>17. FrontWritten(indices, pages) /\ (r = n => AllFront(indices, pages))
  BY <1>2, <1>5, <1>16, FrontWriteIs
<1>18. CASE r # n
  <2>1. reply' = Promise!Failed BY <1>3, <1>5, <1>18 DEF Promise!Failed
  <2> QED BY <1>1, <1>15, <1>17, <2>1, OpenWrite
<1>19. CASE r = n
  <2>1. reach = n /\ t = n BY <1>4, <1>5, <1>8, <1>19
  <2>2. ASSUME NEW p \in Page, p \notin CachedPage, Promise!Written(indices, pages, p) # {}
        PROVE  file'[p] = encrypt_page(p, Promise!LastWritten(indices, pages, p))
    <3>1. \A x \in 1 .. n : indices[x] = p => \E k \in DOMAIN e : at[k] = x
      BY <1>8, <1>10, <1>12, <2>1, <2>2
    <3>2. \A k \in DOMAIN e : /\ e[k].page = indices[at[k]]
                              /\ e[k].raw = encrypt_page(indices[at[k]], pages[at[k]])
      BY <1>11, <1>12, <1>13, <1>19
    <3>3. EntriesOfAll(e, at, n, indices, pages, n, p) BY <1>11, <1>12, <3>1, <3>2 DEF EntriesOfAll
    <3> HIDE <1>19, <2>1
    <3> QED BY <1>9, <2>2, <3>3, LandWritesAll
  <2>3. AllBelow(indices, pages) BY <2>2 DEF AllBelow
  <2>4. reply' = Promise!WriteOk BY <1>3, <1>5, <1>19 DEF Promise!WriteOk
  <2>5. AllFront(indices, pages) /\ \A k \in 1 .. n : indices[k] \in Page
    BY <1>4, <1>17, <1>19, <2>1
  <2> HIDE <1>19, <2>1
  <2> QED BY <1>1, <1>15, <1>17, <2>3, <2>4, <2>5, OpenWrite
<1> QED BY <1>18, <1>19

\* While an image is being written, the cached pages written so far are owed to
\* the file.
BuiltPagesAreOwed ==
  mode = "building" => \A p \in CachedPage : p < next => p \in dirty

\* The inductive invariant of the stack.
StackInv ==
  stack \in Stacks /\ StackTypeOK /\ CleanPagesMatchFile /\ BuiltPagesAreOwed

-----------------------------------------------------------------------------
(* Steps.                                                                  *)

\* A bulk write of an open stack.
LEMMA WriteStep ==
  ASSUME StackInv, stack' = stack, NEW indices \in stack.requests,
         NEW pages \in [DOMAIN indices -> Values],
         write_pages(indices, pages) \/ write_plain_path_pages(indices, pages)
  PROVE  Promise!Write(indices, pages) /\ mode = "open" /\ StackInv'
<1>1. indices \in Seq(Nat) BY StackAssumption DEF StackInv
<1>2. PICK n \in Nat : n = Len(indices) BY <1>1
<1>3. indices \in [1 .. n -> Nat] /\ DOMAIN indices = 1 .. n BY <1>1, <1>2, LenProperties
<1>4. pages \in [1 .. n -> Values] BY <1>3
<1>5. Promise!Write(indices, pages) /\ mode = "open" /\ StackTypeOK' /\ CleanPagesMatchFile'
  <2>1. CASE write_pages(indices, pages) BY <1>3, <1>4, <2>1, WritePages DEF StackInv
  <2>2. CASE write_plain_path_pages(indices, pages)
    BY <1>3, <1>4, <2>2, WritePlainPath DEF StackInv
  <2> QED BY <2>1, <2>2
<1>6. mode' = "open" BY <1>5 DEF write_pages, write_plain_path_pages
<1> QED BY <1>5, <1>6 DEF StackInv, BuiltPagesAreOwed

\* A bulk write of several paths of an open stack.
LEMMA WritePathsStep ==
  ASSUME StackInv, stack' = stack, NEW paths \in stack.paths,
         NEW contents \in [Page -> Values], write_paths_pages(paths, contents)
  PROVE  /\ Promise!Write(FlattenSeq(paths),
              [k \in DOMAIN FlattenSeq(paths) |-> contents[FlattenSeq(paths)[k]]])
         /\ mode = "open" /\ StackInv'
<1>1. paths \in Seq(Seq(Page)) BY StackAssumption DEF Page, StackInv
<1>2. PICK m \in Nat : m = Len(paths) BY <1>1
<1>3. paths \in [1 .. m -> Seq(Page)] /\ DOMAIN paths = 1 .. m BY <1>1, <1>2, LenProperties
<1> DEFINE Q == [i \in 1 .. m |-> [k \in DOMAIN paths[i] |-> contents[paths[i][k]]]]
<1>4. Q \in [1 .. m -> Seq(Values)]
  <2>1. ASSUME NEW i \in 1 .. m
        PROVE  [k \in DOMAIN paths[i] |-> contents[paths[i][k]]] \in Seq(Values)
    <3>1. paths[i] \in Seq(Page) BY <1>3
    <3>2. DOMAIN paths[i] = 1 .. Len(paths[i]) /\ Len(paths[i]) \in Nat BY <3>1, LenProperties
    <3>3. \A k \in DOMAIN paths[i] : paths[i][k] \in Page BY <3>1, <3>2
    <3>4. [k \in DOMAIN paths[i] |-> contents[paths[i][k]]] \in [1 .. Len(paths[i]) -> Values]
      BY <3>2, <3>3
    <3> QED BY <3>2, <3>4, ListLen
  <2> QED BY <2>1
<1>5. PICK flat : Flattens(flat, paths, m, Page)
  <2>1. PICK S : S = Page OBVIOUS
  <2>2. paths \in [1 .. m -> Seq(S)] BY <1>3, <2>1
  <2>3. \E flat : Flattens(flat, paths, m, S) BY <2>2, FlattenIs
  <2> QED BY <2>1, <2>3
<1>6. PICK all : Flattens(all, Q, m, Values)
  <2> HIDE DEF Q
  <2> QED BY <1>4, FlattenIs
<1>7. FlattenSeq(paths) = flat[m] /\ flat[m] \in Seq(Page)
  <2>1. SubSeq(paths, 1, m) = paths BY <1>1, <1>2, SubSeqFull
  <2>2. m \in 0 .. m OBVIOUS
  <2> QED BY <1>5, <2>1, <2>2 DEF Flattens, Joins
<1>8. FlattenSeq(Q) = all[m] /\ all[m] \in Seq(Values)
  <2> HIDE DEF Q
  <2>1. Q \in Seq(Seq(Values)) /\ Len(Q) = m BY <1>4, ListLen
  <2>2. SubSeq(Q, 1, m) = Q BY <2>1, SubSeqFull
  <2>3. m \in 0 .. m OBVIOUS
  <2> QED BY <1>6, <2>2, <2>3 DEF Flattens, Joins
<1>9. all[m] = [k \in DOMAIN flat[m] |-> contents[flat[m][k]]]
  <2>1. PICK S : S = Page OBVIOUS
  <2>2. paths \in [1 .. m -> Seq(S)] /\ contents \in [S -> Values] BY <1>3, <2>1
  <2>3. Joins(flat, paths, m, S) BY <1>5, <2>1 DEF Flattens
  <2>4. Joins(all, [i \in 1 .. m |-> [k \in DOMAIN paths[i] |-> contents[paths[i][k]]]], m, Values)
    BY <1>6 DEF Flattens
  <2> QED BY <2>2, <2>3, <2>4, JoinedContents
<1>10. write_pages(flat[m], all[m])
  <2>1. write_pages(FlattenSeq(paths), FlattenSeq(Q)) BY <1>3 DEF write_paths_pages
  <2> QED BY <1>7, <1>8, <2>1
<1>11. PICK n \in Nat : n = Len(flat[m]) BY <1>7, LenProperties
<1>12. flat[m] \in [1 .. n -> Page] /\ DOMAIN flat[m] = 1 .. n BY <1>7, <1>11, LenProperties
<1>13. flat[m] \in [1 .. n -> Nat] BY <1>12, PageTypes DEF StackInv
<1>14. all[m] \in [1 .. n -> Values] BY <1>9, <1>12
<1>15. Promise!Write(flat[m], all[m]) /\ mode = "open" /\ StackTypeOK' /\ CleanPagesMatchFile'
  BY <1>10, <1>13, <1>14, WritePages DEF StackInv
<1>16. mode' = "open" BY <1>10, <1>15 DEF write_pages
<1>17. StackInv' BY <1>15, <1>16 DEF StackInv, BuiltPagesAreOwed
<1> QED BY <1>7, <1>9, <1>15, <1>17

\* The stack is opened or created.
LEMMA OpenStep ==
  ASSUME StackInv, stack' = stack, open_store \/ create_store
  PROVE  Promise!Open /\ mode = "closed" /\ StackInv'
<1>1. /\ Page' = Page /\ CachedPage' = CachedPage /\ Raw' = Raw
      /\ CallerSees' = [p \in Page |-> Seen(p, mode', next', cached', file')]
      /\ MayRemain' = [p \in Page |-> Remains(p, mode', next', cached', dirty', unsynced')]
  BY MappingNext
<1>2. /\ CallerSees = [p \in Page |-> Seen(p, mode, next, cached, file)]
      /\ MayRemain = [p \in Page |-> Remains(p, mode, next, cached, dirty, unsynced)]
  BY MappingNow
<1>3. mode = "closed" /\ file' = file /\ unsynced' = unsynced BY DEF open_store, create_store
<1>4. Page \subseteq Nat /\ CachedPage \subseteq Page /\ 0 \in Page BY PageTypes DEF StackInv
<1>5. ASSUME NEW p \in Page
      PROVE  /\ CallerSees[p] = decrypt_page(p, file[p])
             /\ MayRemain[p] = {decrypt_page(p, raw) : raw \in unsynced[p]}
  BY <1>2, <1>3 DEF Seen, Remains
<1>6. reply' \in {Promise!WriteOk, Promise!Failed}
  BY DEF open_store, create_store, IoError, Promise!WriteOk, Promise!Failed
<1>7. \A p \in CachedPage : decrypt_page(p, file[p]) \in Contents
  BY <1>4, DecryptType DEF StackInv, StackTypeOK
<1>8. CASE UNCHANGED <<cached, dirty, mode>> /\ next' = next
  <2>1. CallerSees' = CallerSees /\ MayRemain' = MayRemain BY <1>3, <1>8, MappingKept
  <2>2. StackTypeOK' BY <1>1, <1>3, <1>8 DEF StackInv, StackTypeOK
  <2>3. mode' = "closed" BY <1>3, <1>8
  <2> QED BY <1>3, <1>6, <2>1, <2>2, <2>3
       DEF Promise!Open, StackInv, CleanPagesMatchFile, BuiltPagesAreOwed, InCache
<1>9. CASE /\ cached' = [p \in CachedPage |-> decrypt_page(p, file[p])]
           /\ dirty' = {} /\ mode' = "open" /\ next' = next
  <2>1. ASSUME NEW p \in Page
        PROVE  CallerSees'[p] = CallerSees[p] /\ MayRemain'[p] = MayRemain[p]
    <3>1. CallerSees'[p] = decrypt_page(p, file[p]) BY <1>1, <1>3, <1>9 DEF Seen
    <3>2. MayRemain'[p] = {decrypt_page(p, raw) : raw \in unsynced[p]}
      BY <1>1, <1>3, <1>9 DEF Remains
    <3> QED BY <1>5, <3>1, <3>2
  <2>2. CallerSees' = CallerSees BY <1>1, <1>2, <2>1
  <2>3. MayRemain' = MayRemain BY <1>1, <1>2, <2>1
  <2>4. StackTypeOK' BY <1>1, <1>3, <1>7, <1>9 DEF StackInv, StackTypeOK
  <2>5. CleanPagesMatchFile'
    BY <1>1, <1>3, <1>9 DEF CleanPagesMatchFile, decrypt_page, Encrypted
  <2> QED BY <1>3, <1>6, <1>9, <2>2, <2>3, <2>4, <2>5 DEF Promise!Open, StackInv, BuiltPagesAreOwed
<1>10. CASE create_store
  <2>1. /\ cached' = [p \in CachedPage |-> Zero] /\ dirty' = {} /\ mode' = "building" /\ next' = 0
    BY <1>10 DEF create_store
  <2>2. ASSUME NEW p \in Page
        PROVE  CallerSees'[p] = CallerSees[p] /\ MayRemain'[p] = MayRemain[p]
    <3>0. ~(p < 0) BY <1>4
    <3>1. CallerSees'[p] = decrypt_page(p, file[p]) BY <1>1, <1>3, <2>1, <3>0 DEF Seen
    <3>2. MayRemain'[p] = {decrypt_page(p, raw) : raw \in unsynced[p]}
      BY <1>1, <1>3, <2>1 DEF Remains
    <3> QED BY <1>5, <3>1, <3>2
  <2>3. CallerSees' = CallerSees BY <1>1, <1>2, <2>2
  <2>4. MayRemain' = MayRemain BY <1>1, <1>2, <2>2
  <2>5. Zero \in Contents BY DEF Contents
  <2>6. StackTypeOK' BY <1>1, <1>3, <1>4, <2>1, <2>5 DEF StackInv, StackTypeOK
  <2>7. CleanPagesMatchFile' BY <2>1 DEF CleanPagesMatchFile
  <2>8. BuiltPagesAreOwed' BY <1>1, <1>4, <2>1 DEF BuiltPagesAreOwed
  <2> QED BY <1>3, <1>6, <2>3, <2>4, <2>6, <2>7, <2>8 DEF Promise!Open, StackInv
<1> QED BY <1>8, <1>9, <1>10 DEF open_store

\* What is left when the cache is forgotten.
LEMMA ForgetStep ==
  ASSUME StackInv, stack' = stack, Forget,
         file' \in [Page -> Raw], unsynced' \in [Page -> SUBSET Raw],
         \A p \in Page : file'[p] \in unsynced'[p] /\ unsynced'[p] \subseteq unsynced[p]
  PROVE  Promise!Crash /\ StackInv'
<1>1. /\ Page' = Page /\ CachedPage' = CachedPage /\ Raw' = Raw
      /\ CallerSees' = [p \in Page |-> Seen(p, mode', next', cached', file')]
      /\ MayRemain' = [p \in Page |-> Remains(p, mode', next', cached', dirty', unsynced')]
  BY MappingNext
<1>2. MayRemain = [p \in Page |-> Remains(p, mode, next, cached, dirty, unsynced)] BY MappingNow
<1>3. /\ mode' = "closed" /\ next' = 0 /\ cached' = [p \in CachedPage |-> Zero] /\ dirty' = {}
      /\ reply' = Promise!Failed
  BY DEF Forget, IoError, Promise!Failed
<1>4. Zero \in Contents /\ 0 \in Page BY PageTypes DEF Contents, StackInv
<1>5. StackTypeOK' BY <1>1, <1>3, <1>4 DEF StackTypeOK
<1>6. CleanPagesMatchFile' /\ BuiltPagesAreOwed' BY <1>3 DEF CleanPagesMatchFile, BuiltPagesAreOwed
<1>7. ASSUME NEW p \in Page
      PROVE  /\ CallerSees'[p] \in MayRemain[p] /\ MayRemain'[p] \subseteq MayRemain[p]
             /\ CallerSees'[p] \in Contents
  <2>1. {decrypt_page(p, raw) : raw \in unsynced[p]} \subseteq MayRemain[p] BY <1>2 DEF Remains
  <2>2. CallerSees'[p] = decrypt_page(p, file'[p]) BY <1>1, <1>3 DEF Seen
  <2>3. MayRemain'[p] = {decrypt_page(p, raw) : raw \in unsynced'[p]} BY <1>1, <1>3 DEF Remains
  <2>4. decrypt_page(p, file'[p]) \in Contents BY DecryptType
  <2> QED BY <2>1, <2>2, <2>3, <2>4
<1>8. Promise!Page = Page /\ Promise!Contents = Contents BY PromisePages DEF Promise!Contents, Contents
<1>9. CallerSees' \in [Page -> Contents] BY <1>1, <1>7
<1> QED BY <1>3, <1>5, <1>6, <1>7, <1>8, <1>9 DEF Promise!Crash, StackInv

\* The process or the machine stops.
LEMMA CrashStep ==
  ASSUME StackInv, stack' = stack, close_store \/ power_loss
  PROVE  Promise!Crash /\ StackInv'
<1>1. CASE close_store
  <2>1. Forget /\ file' = file /\ unsynced' = unsynced BY <1>1 DEF close_store
  <2> QED BY <2>1, ForgetStep DEF StackInv, StackTypeOK
<1>2. CASE power_loss
  <2>1. /\ file' \in [Page -> UNION {unsynced[p] : p \in Page}]
        /\ \A p \in Page : file'[p] \in unsynced[p]
        /\ unsynced' = [p \in Page |-> {file'[p]}]
        /\ Forget
    BY <1>2 DEF power_loss
  <2>2. \A p \in Page : file'[p] \in Raw BY <2>1 DEF StackInv, StackTypeOK
  <2>3. file' \in [Page -> Raw] BY <2>1, <2>2
  <2>4. unsynced' \in [Page -> SUBSET Raw] BY <2>1, <2>2
  <2>5. \A p \in Page : file'[p] \in unsynced'[p] /\ unsynced'[p] \subseteq unsynced[p] BY <2>1
  <2> QED BY <2>1, <2>3, <2>4, <2>5, ForgetStep
<1> QED BY <1>1, <1>2

\* A page of a closed image takes the place of another.
LEMMA MisplaceStep ==
  ASSUME StackInv, stack' = stack, NEW p \in Page, NEW q \in Page, misplace(p, q)
  PROVE  Promise!Misplace(p) /\ mode = "closed" /\ StackInv'
<1>1. /\ Page' = Page /\ CachedPage' = CachedPage /\ Raw' = Raw
      /\ CallerSees' = [x \in Page |-> Seen(x, mode', next', cached', file')]
      /\ MayRemain' = [x \in Page |-> Remains(x, mode', next', cached', dirty', unsynced')]
  BY MappingNext
<1>2. /\ CallerSees = [x \in Page |-> Seen(x, mode, next, cached, file)]
      /\ MayRemain = [x \in Page |-> Remains(x, mode, next, cached, dirty, unsynced)]
  BY MappingNow
<1>3. /\ Encrypted /\ mode = "closed" /\ file[q].aad # p
      /\ file' = [file EXCEPT ![p] = file[q]]
      /\ unsynced' = [unsynced EXCEPT ![p] = {file[q]}]
      /\ reply' = Promise!Failed
      /\ UNCHANGED <<cached, dirty, mode, next>>
  BY DEF misplace, IoError, Promise!Failed
<1>4. /\ file \in [Page -> Raw] /\ unsynced \in [Page -> SUBSET Raw]
      /\ \A x \in Page : file[x] \in unsynced[x]
  BY DEF StackInv, StackTypeOK
<1>5. /\ file' \in [Page -> Raw] /\ unsynced' \in [Page -> SUBSET Raw]
      /\ \A x \in Page : file'[x] \in unsynced'[x]
      /\ file'[p] = file[q] /\ unsynced'[p] = {file[q]}
      /\ \A x \in Page \ {p} : file'[x] = file[x] /\ unsynced'[x] = unsynced[x]
  BY <1>3, <1>4
<1>6. StackTypeOK' BY <1>1, <1>3, <1>5 DEF StackInv, StackTypeOK
<1>7. CleanPagesMatchFile' /\ BuiltPagesAreOwed'
  BY <1>3 DEF CleanPagesMatchFile, BuiltPagesAreOwed
<1>8. decrypt_page(p, file[q]) = Garbled BY <1>3 DEF decrypt_page
<1>9. ASSUME NEW x \in Page
      PROVE  /\ CallerSees'[x] = IF x = p THEN Garbled ELSE CallerSees[x]
             /\ MayRemain'[x] = IF x = p THEN {Garbled} ELSE MayRemain[x]
  <2>1. /\ CallerSees'[x] = decrypt_page(x, file'[x])
        /\ CallerSees[x] = decrypt_page(x, file[x])
    BY <1>1, <1>2, <1>3 DEF Seen
  <2>2. /\ MayRemain'[x] = {decrypt_page(x, raw) : raw \in unsynced'[x]}
        /\ MayRemain[x] = {decrypt_page(x, raw) : raw \in unsynced[x]}
    BY <1>1, <1>2, <1>3 DEF Remains
  <2>3. CASE x = p
    <3>1. {decrypt_page(p, raw) : raw \in {file[q]}} = {Garbled} BY <1>8
    <3> QED BY <1>5, <1>8, <2>1, <2>2, <2>3, <3>1
  <2>4. CASE x # p BY <1>5, <2>1, <2>2, <2>4
  <2> QED BY <2>3, <2>4
<1>10. CallerSees' = [CallerSees EXCEPT ![p] = Garbled] BY <1>1, <1>2, <1>9
<1>11. MayRemain' = [MayRemain EXCEPT ![p] = {Garbled}] BY <1>1, <1>2, <1>9
<1> QED BY <1>3, <1>6, <1>7, <1>10, <1>11 DEF Promise!Misplace, StackInv, Encrypted

\* A list of one member.
LEMMA OneMember ==
  ASSUME NEW n \in Nat, n = 1, NEW S, NEW x \in S
  PROVE  <<x>> \in [1 .. n -> S] /\ \A k \in 1 .. n : <<x>>[k] = x
  OBVIOUS

\* What a call for one page writes.
LEMMA OneWritten ==
  ASSUME NEW p, NEW v, NEW x
  PROVE  /\ x # p => Promise!Written(<<p>>, <<v>>, x) = {}
         /\ Promise!Written(<<p>>, <<v>>, p) = {v}
         /\ Promise!LastWritten(<<p>>, <<v>>, p) = v
<1>1. DOMAIN <<p>> = {1} /\ <<p>>[1] = p /\ <<v>>[1] = v OBVIOUS
<1>2. x # p => Promise!Written(<<p>>, <<v>>, x) = {} BY <1>1 DEF Promise!Written
<1>3. Promise!Written(<<p>>, <<v>>, p) = {v}
  <2>1. {j \in DOMAIN <<p>> : <<p>>[j] = p} = {1} BY <1>1
  <2>2. {<<v>>[k] : k \in {1}} = {v} BY <1>1
  <2> QED BY <2>1, <2>2 DEF Promise!Written
<1>4. Promise!LastWritten(<<p>>, <<v>>, p) = v
  <2> DEFINE last == CHOOSE k \in DOMAIN <<p>> :
                       <<p>>[k] = p /\ \A j \in DOMAIN <<p>> : <<p>>[j] = p => j <= k
  <2>1. 1 \in DOMAIN <<p>> /\ <<p>>[1] = p /\ \A j \in DOMAIN <<p>> : <<p>>[j] = p => j <= 1
    BY <1>1
  <2>2. last \in DOMAIN <<p>> BY <2>1
  <2>3. last = 1 BY <1>1, <2>2
  <2> QED BY <1>1, <2>3 DEF Promise!LastWritten
<1> QED BY <1>2, <1>3, <1>4

\* The write of one page.
LEMMA OnePageWrite ==
  ASSUME StackTypeOK, stack \in Stacks, NEW p \in Page, NEW v \in Values, PageWrite(p, v)
  PROVE  /\ BelowWritten(<<p>>, <<v>>) /\ FrontWritten(<<p>>, <<v>>)
         /\ \/ /\ reply' = Promise!WriteOk
               /\ AllBelow(<<p>>, <<v>>) /\ AllFront(<<p>>, <<v>>)
            \/ reply' = Promise!Failed /\ p \notin CachedPage
<1>1. PICK n \in Nat : n = 1 OBVIOUS
<1>2. p \in Nat BY PageTypes
<1>3. PICK indices : indices = <<p>> OBVIOUS
<1>4. PICK pages : pages = <<v>> OBVIOUS
<1>5. indices \in [1 .. n -> Nat] /\ \A k \in 1 .. n : indices[k] = p BY <1>1, <1>2, <1>3, OneMember
<1>6. pages \in [1 .. n -> Values] /\ \A k \in 1 .. n : pages[k] = v BY <1>1, <1>4, OneMember
<1>7. dirty \subseteq CachedPage BY DEF StackTypeOK
<1>8. CASE p \in CachedPage
  <2>1. FrontWrite(indices, pages, n) /\ reply' = Promise!WriteOk /\ UNCHANGED <<file, unsynced>>
    BY <1>1, <1>3, <1>4, <1>8 DEF PageWrite, Promise!WriteOk
  <2>2. n \in 0 .. n OBVIOUS
  <2>3. FrontWritten(indices, pages) /\ AllFront(indices, pages)
    BY <1>5, <1>6, <1>7, <2>1, <2>2, FrontWriteIs
  <2>4. BelowWritten(indices, pages) BY <2>1, NothingBelow
  <2>5. AllBelow(indices, pages)
    <3>1. \A x \in Page : x \notin CachedPage => Promise!Written(indices, pages, x) = {}
      BY <1>3, <1>4, <1>8, OneWritten
    <3> QED BY <3>1 DEF AllBelow
  <2> QED BY <1>3, <1>4, <2>1, <2>3, <2>4, <2>5
<1>9. CASE p \notin CachedPage
  <2> DEFINE batch == <<[page |-> p, raw |-> encrypt_page(p, v)]>>
             order == [k \in 1 .. n |-> k]
  <2>1. write_all_at(batch, n) /\ cached' = cached /\ dirty' = dirty BY <1>1, <1>9 DEF PageWrite
  <2>2. [page |-> p, raw |-> encrypt_page(p, v)] \in Entry
    BY <1>2 DEF Entry, encrypt_page, Contents, NoAad
  <2>3. batch \in [1 .. n -> Entry]
        /\ \A k \in 1 .. n : batch[k] = [page |-> p, raw |-> encrypt_page(p, v)]
    BY <1>1, <2>2, OneMember
  <2> HIDE DEF batch
  <2>4. order \in [1 .. n -> 1 .. n] /\ \A k \in 1 .. n : order[k] = k OBVIOUS
  <2> HIDE DEF order
  <2>5. \A k \in 1 .. n : /\ batch[k].page = indices[order[k]]
                          /\ batch[k].raw = encrypt_page(indices[order[k]], pages[order[k]])
    BY <1>5, <1>6, <2>3, <2>4
  <2>6. BatchOf(batch, order, indices, pages, n) BY <2>3, <2>4, <2>5 DEF BatchOf
  <2>7. n \in 0 .. n /\ \A k \in 1 .. n : indices[k] \in Page BY <1>5
  <2>8. /\ FileWritten(indices, pages)
        /\ \/ reply' = Promise!WriteOk /\ AllWritten(indices, pages)
           \/ reply' = Promise!Failed
    BY <1>5, <1>6, <2>1, <2>6, <2>7, WriteAllAt
  <2>9. \A x \in CachedPage : Promise!Written(indices, pages, x) = {}
    BY <1>3, <1>4, <1>9, OneWritten
  <2>10. BelowWritten(indices, pages)
    <3>1. ASSUME NEW x \in CachedPage PROVE file'[x] = file[x] /\ unsynced'[x] = unsynced[x]
      <4>1. x \in Page BY PageTypes
      <4>2. Touched(x, {}) BY <2>8, <2>9, <4>1 DEF FileWritten
      <4> QED BY <4>2 DEF Touched
    <3> QED BY <2>8, <3>1 DEF BelowWritten, FileWritten
  <2>11. FrontWritten(indices, pages)
    <3>1. cached' = [x \in CachedPage |-> cached'[x]] BY <2>1 DEF StackTypeOK
    <3> QED BY <1>7, <2>1, <3>1 DEF FrontWritten
  <2>12. AllFront(indices, pages) BY <2>9 DEF AllFront
  <2>13. AllWritten(indices, pages) => AllBelow(indices, pages) BY DEF AllWritten, AllBelow
  <2> QED BY <1>3, <1>4, <1>9, <2>8, <2>10, <2>11, <2>12, <2>13
<1> QED BY <1>8, <1>9

\* A page of a fresh image is written.
LEMMA BuildStep ==
  ASSUME StackInv, stack' = stack, NEW value \in Values, build_page(value)
  PROVE  Promise!Write(<<next>>, <<value>>) /\ mode = "building" /\ StackInv'
<1> DEFINE p == next
           ok == reply' = Promise!WriteOk
<1>1. mode = "building" /\ PageWrite(next, value) BY DEF build_page
<1>2. p \in Page /\ stack \in Stacks /\ StackTypeOK BY DEF StackInv, StackTypeOK
<1>3. /\ BelowWritten(<<p>>, <<value>>) /\ FrontWritten(<<p>>, <<value>>)
      /\ \/ ok /\ AllBelow(<<p>>, <<value>>) /\ AllFront(<<p>>, <<value>>)
         \/ reply' = Promise!Failed /\ p \notin CachedPage
  BY <1>1, <1>2, OnePageWrite
<1>4. /\ Page \subseteq Nat /\ CachedPage \subseteq Page /\ 0 \in Page
      /\ Page = 0 .. stack.pages - 1 /\ stack.pages \in Nat \ {0}
  BY <1>2, PageTypes DEF Page
<1>5. \/ reply' = Promise!Failed /\ mode' = mode /\ next' = next
      \/ ok /\ p = stack.pages - 1 /\ mode' = "open" /\ next' = 0
      \/ ok /\ p # stack.pages - 1 /\ mode' = mode /\ next' = p + 1
  BY <1>3 DEF build_page, Promise!WriteOk, Promise!Failed
<1>6. /\ Page' = Page /\ CachedPage' = CachedPage /\ Raw' = Raw
      /\ CallerSees' = [x \in Page |-> Seen(x, mode', next', cached', file')]
      /\ MayRemain' = [x \in Page |-> Remains(x, mode', next', cached', dirty', unsynced')]
  BY MappingNext
<1>7. /\ CallerSees = [x \in Page |-> Seen(x, mode, next, cached, file)]
      /\ MayRemain = [x \in Page |-> Remains(x, mode, next, cached, dirty, unsynced)]
  BY MappingNow
<1>8. /\ \A x : x # p => Promise!Written(<<p>>, <<value>>, x) = {}
      /\ Promise!Written(<<p>>, <<value>>, p) = {value}
      /\ Promise!LastWritten(<<p>>, <<value>>, p) = value
  BY OneWritten
<1>9. /\ file \in [Page -> Raw] /\ cached \in [CachedPage -> Contents] /\ dirty \subseteq CachedPage
      /\ unsynced \in [Page -> SUBSET Raw] /\ \A x \in Page : file[x] \in unsynced[x]
  BY <1>2 DEF StackTypeOK
<1>10. /\ encrypt_page(p, value) \in Raw /\ decrypt_page(p, encrypt_page(p, value)) = value
       /\ TornPage \in Raw /\ decrypt_page(p, TornPage) = Garbled /\ value \in Contents
  BY <1>2, Sealing DEF Contents
<1> DEFINE in(x) == x \in CachedPage /\ (mode = "open" \/ (mode = "building" /\ x < next))
           inNew(x) == x \in CachedPage /\ (mode' = "open" \/ (mode' = "building" /\ x < next'))
<1>11. ASSUME NEW x \in Page
       PROVE  /\ Seen(x, mode, next, cached, file) = IF in(x) THEN cached[x] ELSE decrypt_page(x, file[x])
              /\ Remains(x, mode, next, cached, dirty, unsynced)
                   = {decrypt_page(x, raw) : raw \in unsynced[x]}
                       \cup IF in(x) /\ x \in dirty THEN {cached[x], Garbled} ELSE {}
              /\ Seen(x, mode', next', cached', file')
                   = IF inNew(x) THEN cached'[x] ELSE decrypt_page(x, file'[x])
              /\ Remains(x, mode', next', cached', dirty', unsynced')
                   = {decrypt_page(x, raw) : raw \in unsynced'[x]}
                       \cup IF inNew(x) /\ x \in dirty' THEN {cached'[x], Garbled} ELSE {}
  BY DEF Seen, Remains
<1>12. ASSUME NEW x \in Page, x # p PROVE in(x) <=> inNew(x)
  <2>1. x \in Nat /\ p \in Nat /\ x <= stack.pages - 1 BY <1>2, <1>4
  <2>2. CASE reply' = Promise!Failed /\ mode' = mode /\ next' = next BY <2>2
  <2>3. CASE ok /\ p = stack.pages - 1 /\ mode' = "open" /\ next' = 0
    <3>1. x < next BY <1>4, <1>12, <2>1, <2>3
    <3> QED BY <1>1, <2>3, <3>1
  <2>4. CASE ok /\ p # stack.pages - 1 /\ mode' = mode /\ next' = p + 1
    <3>1. x < next <=> x < next' BY <1>12, <2>1, <2>4
    <3> QED BY <1>1, <2>4, <3>1
  <2> QED BY <1>5, <2>2, <2>3, <2>4
<1>13. ~in(p) BY <1>1, <1>2, <1>4
<1>14. inNew(p) <=> ok /\ p \in CachedPage
  <2>1. p \in Nat BY <1>2, <1>4
  <2>2. CASE reply' = Promise!Failed /\ mode' = mode /\ next' = next
    BY <1>1, <2>1, <2>2 DEF Promise!Failed, Promise!WriteOk
  <2>3. CASE ok /\ p = stack.pages - 1 /\ mode' = "open" /\ next' = 0 BY <2>3
  <2>4. CASE ok /\ p # stack.pages - 1 /\ mode' = mode /\ next' = p + 1 BY <1>1, <2>1, <2>4
  <2> QED BY <1>5, <2>2, <2>3, <2>4
<1> HIDE DEF in, inNew
<1>15. ASSUME NEW x \in Page, x # p
       PROVE  /\ file'[x] = file[x] /\ unsynced'[x] = unsynced[x]
              /\ x \in CachedPage => cached'[x] = cached[x] /\ (x \in dirty' <=> x \in dirty)
  <2>1. Promise!Written(<<p>>, <<value>>, x) = {} BY <1>8, <1>15
  <2>2. CASE x \in CachedPage BY <1>3, <2>1, <2>2 DEF BelowWritten, FrontWritten
  <2>3. CASE x \notin CachedPage
    <3>1. Touched(x, {}) BY <1>3, <2>1, <2>3 DEF BelowWritten
    <3> QED BY <2>3, <3>1 DEF Touched
  <2> QED BY <2>2, <2>3
<1>16. ASSUME NEW x \in Page, x # p
       PROVE  CallerSees'[x] = CallerSees[x] /\ MayRemain'[x] = MayRemain[x]
  <2>1. in(x) => x \in CachedPage BY DEF in
  <2>2. CallerSees'[x] = CallerSees[x] BY <1>6, <1>7, <1>11, <1>12, <1>15, <1>16, <2>1
  <2>3. MayRemain'[x] = MayRemain[x] BY <1>6, <1>7, <1>11, <1>12, <1>15, <1>16, <2>1
  <2> QED BY <2>2, <2>3
<1>17. /\ file'[p] \in Raw /\ unsynced'[p] \subseteq Raw /\ file'[p] \in unsynced'[p]
       /\ CallerSees'[p] \in {CallerSees[p], value, Garbled}
       /\ MayRemain'[p] \subseteq MayRemain[p] \cup {value, Garbled}
       /\ ok => CallerSees'[p] = value
       /\ p \in CachedPage => cached'[p] = value /\ p \in dirty'
  <2>1. CallerSees[p] = decrypt_page(p, file[p])
        /\ MayRemain[p] = {decrypt_page(p, raw) : raw \in unsynced[p]}
    BY <1>2, <1>7, <1>11, <1>13
  <2>2. CASE p \in CachedPage
    <3>1. ok BY <1>3, <2>2
    <3>2. file'[p] = file[p] /\ unsynced'[p] = unsynced[p] BY <1>3, <2>2 DEF BelowWritten
    <3>3. cached'[p] = value BY <1>3, <1>8, <2>2, <3>1 DEF AllFront, Promise!WriteOk, Promise!Failed
    <3>4. p \in dirty'
      <4>1. \/ cached'[p] = cached[p] /\ (p \in dirty' <=> p \in dirty)
            \/ cached'[p] \in {value} /\ p \in dirty'
        BY <1>3, <1>8, <2>2 DEF FrontWritten
      <4>2. FrontWrite(<<p>>, <<value>>, 1) BY <1>1, <2>2 DEF PageWrite
      <4>3. 1 \in {k \in 1 .. 1 : <<p>>[k] = p} OBVIOUS
      <4> QED BY <2>2, <4>2, <4>3 DEF FrontWrite
    <3>5. CallerSees'[p] = value BY <1>2, <1>6, <1>11, <1>14, <2>2, <3>1, <3>3
    <3>6. MayRemain'[p] = {decrypt_page(p, raw) : raw \in unsynced[p]} \cup {value, Garbled}
      BY <1>2, <1>6, <1>11, <1>14, <2>2, <3>1, <3>2, <3>3, <3>4
    <3> QED BY <1>2, <1>9, <2>1, <3>2, <3>3, <3>4, <3>5, <3>6
  <2>3. CASE p \notin CachedPage
    <3>1. Touched(p, {value}) BY <1>2, <1>3, <1>8, <2>3 DEF BelowWritten
    <3>2. /\ file'[p] \in {file[p], TornPage, encrypt_page(p, value)}
          /\ unsynced'[p] \subseteq unsynced[p] \cup {TornPage, encrypt_page(p, value)}
          /\ file'[p] \in unsynced'[p]
      BY <1>2, <1>9, <3>1 DEF Touched
    <3>3. file'[p] \in Raw /\ unsynced'[p] \subseteq Raw BY <1>2, <1>9, <1>10, <3>2
    <3>4. CallerSees'[p] = decrypt_page(p, file'[p])
          /\ MayRemain'[p] = {decrypt_page(p, raw) : raw \in unsynced'[p]}
      BY <1>2, <1>6, <1>11, <1>14, <2>3
    <3>5. CallerSees'[p] \in {CallerSees[p], value, Garbled} BY <1>10, <2>1, <3>2, <3>4
    <3>6. MayRemain'[p] \subseteq MayRemain[p] \cup {value, Garbled} BY <1>10, <2>1, <3>2, <3>4
    <3>7. ASSUME ok PROVE CallerSees'[p] = value
      <4>1. AllBelow(<<p>>, <<value>>) BY <1>3, <3>7 DEF Promise!WriteOk, Promise!Failed
      <4>2. file'[p] = encrypt_page(p, value) BY <1>2, <1>8, <2>3, <4>1 DEF AllBelow
      <4> QED BY <1>10, <3>4, <4>2
    <3> QED BY <2>3, <3>2, <3>3, <3>5, <3>6, <3>7
  <2> QED BY <2>2, <2>3
<1>18. StackTypeOK'
  <2>1. file' = [x \in Page |-> file'[x]] /\ unsynced' = [x \in Page |-> unsynced'[x]]
    BY <1>3 DEF BelowWritten
  <2>2. cached' = [x \in CachedPage |-> cached'[x]] /\ dirty' \subseteq CachedPage
    BY <1>3 DEF FrontWritten
  <2>3. \A x \in Page : file'[x] \in Raw /\ unsynced'[x] \subseteq Raw /\ file'[x] \in unsynced'[x]
    BY <1>9, <1>15, <1>17
  <2>4. \A x \in CachedPage : cached'[x] \in Contents BY <1>4, <1>9, <1>10, <1>15, <1>17
  <2>5. file' \in [Page -> Raw] BY <2>1, <2>3
  <2>6. unsynced' \in [Page -> SUBSET Raw] BY <2>1, <2>3
  <2>7. cached' \in [CachedPage -> Contents] BY <2>2, <2>4
  <2>8. mode' \in {"closed", "building", "open"} /\ next' \in Page
    <3>1. ok /\ p # stack.pages - 1 /\ mode' = mode /\ next' = p + 1 => next' \in Page BY <1>2, <1>4
    <3> QED BY <1>1, <1>2, <1>4, <1>5, <3>1
  <2> QED BY <1>6, <2>2, <2>3, <2>5, <2>6, <2>7, <2>8 DEF StackTypeOK
<1>19. ASSUME NEW x \in CachedPage, inNew(x) PROVE x \in dirty'
  <2>1. CASE x = p BY <1>17, <2>1
  <2>2. CASE x # p
    <3>1. x \in Page /\ in(x) BY <1>4, <1>12, <1>19, <2>2
    <3>2. x < next BY <1>1, <3>1 DEF in
    <3>3. x \in dirty BY <1>1, <3>2 DEF StackInv, BuiltPagesAreOwed
    <3> QED BY <1>15, <2>2, <3>1, <3>3
  <2> QED BY <2>1, <2>2
<1>20. CleanPagesMatchFile' BY <1>6, <1>19 DEF CleanPagesMatchFile, InCache, inNew
<1>21. BuiltPagesAreOwed' BY <1>6, <1>19 DEF BuiltPagesAreOwed, inNew
<1>22. Promise!Write(<<next>>, <<value>>)
  <2> DEFINE W(x) == Promise!Written(<<p>>, <<value>>, x)
  <2>0. \A x : W(x) = IF x = p THEN {value} ELSE {} BY <1>8
  <2> HIDE DEF W
  <2>1. Promise!Page = Page /\ Promise!Contents = Contents BY PromisePages DEF Promise!Contents, Contents
  <2>2. \A x \in Page : MayRemain'[x] \subseteq MayRemain[x] \cup
                          (IF W(x) = {} THEN {} ELSE W(x) \cup {Garbled})
    BY <1>16, <1>17, <2>0
  <2>3. CASE ok
    <3>1. \A x \in Page : CallerSees'[x] = IF W(x) = {} THEN CallerSees[x] ELSE value
      BY <1>16, <1>17, <2>0, <2>3
    <3>2. \A x \in Page : (IF W(x) = {} THEN CallerSees[x] ELSE value)
                = IF W(x) = {} THEN CallerSees[x] ELSE Promise!LastWritten(<<p>>, <<value>>, x)
      BY <1>8, <2>0
    <3>3. CallerSees' = [x \in Page |-> CallerSees'[x]] BY <1>6
    <3>4. CallerSees' = [x \in Page |-> IF W(x) = {} THEN CallerSees[x]
                                        ELSE Promise!LastWritten(<<p>>, <<value>>, x)]
      BY <3>1, <3>2, <3>3
    <3>5. \A k \in DOMAIN <<p>> : <<p>>[k] \in Page BY <1>2
    <3> QED BY <2>1, <2>2, <2>3, <3>4, <3>5 DEF Promise!Write, W
  <2>4. CASE reply' = Promise!Failed
    <3>1. \A x \in Page : CallerSees'[x] \in {CallerSees[x]} \cup
                            (IF W(x) = {} THEN {} ELSE W(x) \cup {Garbled})
      BY <1>16, <1>17, <2>0
    <3>2. \A x \in Page : CallerSees'[x] \in Contents
      <4>1. \A x \in Page : CallerSees[x] \in Contents BY <1>2, <1>7, SeenType
      <4> QED BY <1>10, <1>16, <1>17, <4>1 DEF Contents
    <3>3. CallerSees' \in [Page -> Contents] BY <1>6, <3>2
    <3> QED BY <2>1, <2>2, <2>4, <3>1, <3>3 DEF Promise!Write, W
  <2> QED BY <1>5, <2>3, <2>4
<1>23. stack' \in Stacks' BY <1>2
<1> QED BY <1>1, <1>18, <1>20, <1>21, <1>22, <1>23 DEF StackInv

\* e is a prefix of a batch of c writes, of which the d first are complete and
\* the last may be torn.
LandedPrefix(e, batch, d, c) ==
  \E t \in d .. d + 1 :
     /\ t <= c
     /\ DOMAIN e = 1 .. t
     /\ \A k \in 1 .. d : e[k] = batch[k]
     /\ \A k \in d + 1 .. t : e[k].page = batch[k].page /\ e[k].raw = TornPage

\* A write of a whole batch.
LEMMA LandedOfAll ==
  ASSUME NEW c \in Nat, NEW batch \in [1 .. c -> Entry], NEW d \in 0 .. c, NEW torn \in BOOLEAN
  PROVE  LandedPrefix(Landed(batch, d, c, torn), batch, d, c)
<1>1. c \in 0 .. c OBVIOUS
<1> QED BY <1>1, LandedIs DEF LandedPrefix

\* The batch a flush writes back.
FlushBatch(batch, order, c) ==
  batch = [k \in 1 .. c |-> [page |-> order[k], raw |-> encrypt_page(order[k], cached[order[k]])]]

\* Some steps of a flush that fails: the pages of e are written back, those up to
\* the d-th are forgotten.
LEMMA FlushFails ==
  ASSUME StackTypeOK, stack \in Stacks,
         NEW c \in Nat, NEW order \in [1 .. c -> dirty],
         \A j, k \in 1 .. c : order[j] = order[k] => j = k,
         \A x \in dirty : \E k \in 1 .. c : order[k] = x,
         NEW batch, FlushBatch(batch, order, c),
         NEW d \in 0 .. c, NEW torn \in BOOLEAN, Land(Landed(batch, d, c, torn)),
         dirty' = {order[k] : k \in d + 1 .. c}, NEW p \in Page
  PROVE  /\ file' = [x \in Page |-> file'[x]] /\ unsynced' = [x \in Page |-> unsynced'[x]]
         /\ p \notin dirty => /\ file'[p] = file[p] /\ unsynced'[p] = unsynced[p]
                              /\ p \notin dirty'
         /\ p \in dirty =>
              \/ /\ p \notin dirty' /\ file'[p] = encrypt_page(p, cached[p])
                 /\ unsynced'[p] = unsynced[p] \cup {encrypt_page(p, cached[p]), TornPage}
              \/ /\ p \in dirty' /\ file'[p] = TornPage
                 /\ unsynced'[p] = unsynced[p] \cup {TornPage}
              \/ p \in dirty' /\ file'[p] = file[p] /\ unsynced'[p] = unsynced[p]
<1> DEFINE e == Landed(batch, d, c, torn)
<1>1. CachedPage \subseteq Page /\ Page \subseteq Nat BY PageTypes
<1>2. dirty \subseteq CachedPage /\ \A x \in CachedPage : cached[x] \in Contents BY DEF StackTypeOK
<1>3. batch \in [1 .. c -> Entry]
  <2>1. ASSUME NEW k \in 1 .. c
        PROVE  [page |-> order[k], raw |-> encrypt_page(order[k], cached[order[k]])] \in Entry
    <3>1. order[k] \in Nat /\ cached[order[k]] \in Contents BY <1>1, <1>2
    <3> QED BY <3>1 DEF Entry, encrypt_page, NoAad
  <2> QED BY <2>1 DEF FlushBatch
<1>4. \A k \in 1 .. c : /\ batch[k].page = order[k]
                        /\ batch[k].raw = encrypt_page(order[k], cached[order[k]])
  BY DEF FlushBatch
<1>5. PICK t \in d .. d + 1 :
           /\ t <= c
           /\ DOMAIN e = 1 .. t
           /\ \A k \in 1 .. d : e[k] = batch[k]
           /\ \A k \in d + 1 .. t : e[k].page = batch[k].page /\ e[k].raw = TornPage
  <2>1. LandedPrefix(e, batch, d, c) BY <1>3, LandedOfAll
  <2> HIDE DEF e
  <2> QED BY <2>1 DEF LandedPrefix
<1>6. Land(e) OBVIOUS
<1> HIDE DEF e
<1>7. DOMAIN e \subseteq 1 .. c BY <1>5
<1>8. /\ file' = [x \in Page |-> file'[x]] /\ unsynced' = [x \in Page |-> unsynced'[x]]
      /\ Hits(e, p) = {} => file'[p] = file[p] /\ unsynced'[p] = unsynced[p]
      /\ Hits(e, p) # {} =>
           /\ \E l \in Hits(e, p) : file'[p] = e[l].raw
           /\ unsynced'[p] = unsynced[p] \cup {e[k].raw : k \in Hits(e, p)} \cup {TornPage}
  BY <1>6, <1>7, LandIs
<1>9. ASSUME NEW k \in DOMAIN e PROVE k \in 1 .. c /\ e[k].page = order[k]
  <2>1. k \in 1 .. c /\ k \in 1 .. t BY <1>5, <1>7
  <2>2. CASE k \in 1 .. d BY <1>4, <1>5, <2>1, <2>2
  <2>3. CASE k \in d + 1 .. t BY <1>4, <1>5, <2>1, <2>3
  <2> QED BY <1>5, <2>1, <2>2, <2>3
<1>10. CASE p \notin dirty
  <2>1. Hits(e, p) = {} BY <1>9, <1>10 DEF Hits
  <2>2. p \notin dirty'
    <3>1. \A k \in d + 1 .. c : k \in 1 .. c OBVIOUS
    <3> QED BY <1>10, <3>1
  <2> QED BY <1>8, <1>10, <2>1, <2>2
<1>11. CASE p \in dirty
  <2>1. PICK q \in 1 .. c : order[q] = p BY <1>11
  <2>2. Hits(e, p) = IF q <= t THEN {q} ELSE {}
    <3>1. \A k \in Hits(e, p) : k = q BY <1>9, <2>1 DEF Hits
    <3>2. q \in DOMAIN e <=> q <= t BY <1>5
    <3>3. q \in DOMAIN e => q \in Hits(e, p) BY <1>9, <2>1 DEF Hits
    <3>4. q \in Hits(e, p) => q \in DOMAIN e BY DEF Hits
    <3> QED BY <3>1, <3>2, <3>3, <3>4
  <2>3. p \in dirty' <=> q >= d + 1
    <3>1. ASSUME p \in dirty' PROVE q >= d + 1
      <4>1. PICK k \in d + 1 .. c : order[k] = p BY <3>1
      <4>2. k \in 1 .. c OBVIOUS
      <4>3. k = q BY <2>1, <4>1, <4>2
      <4> QED BY <4>3
    <3>2. ASSUME q >= d + 1 PROVE p \in dirty'
      <4>1. q \in d + 1 .. c BY <3>2
      <4> QED BY <2>1, <4>1
    <3> QED BY <3>1, <3>2
  <2>4. CASE q \in 1 .. d
    <3>1. Hits(e, p) = {q} BY <1>5, <2>2, <2>4
    <3>2. e[q].raw = encrypt_page(p, cached[p]) BY <1>4, <1>5, <2>1, <2>4
    <3>3. file'[p] = e[q].raw BY <1>8, <3>1
    <3>4. unsynced'[p] = unsynced[p] \cup {e[q].raw} \cup {TornPage} BY <1>8, <3>1
    <3>5. p \notin dirty' BY <2>3, <2>4
    <3> QED BY <1>8, <1>11, <3>2, <3>3, <3>4, <3>5
  <2>5. CASE q \in d + 1 .. t
    <3>1. Hits(e, p) = {q} BY <2>2, <2>5
    <3>2. e[q].raw = TornPage BY <1>5, <2>5
    <3>3. file'[p] = e[q].raw BY <1>8, <3>1
    <3>4. unsynced'[p] = unsynced[p] \cup {e[q].raw} \cup {TornPage} BY <1>8, <3>1
    <3>5. p \in dirty' BY <2>3, <2>5
    <3> QED BY <1>8, <1>11, <3>2, <3>3, <3>4, <3>5
  <2>6. CASE q > t
    <3>1. Hits(e, p) = {} BY <2>2, <2>6
    <3>2. p \in dirty' BY <1>5, <2>3, <2>6
    <3> QED BY <1>8, <1>11, <3>1, <3>2
  <2> QED BY <1>5, <2>4, <2>5, <2>6
<1> QED BY <1>10, <1>11

\* Dirty pages are written back and the file is synced, or some are.
LEMMA FlushStep ==
  ASSUME StackInv, stack' = stack, flush
  PROVE  Promise!Flush /\ mode = "open" /\ StackInv'
<1>1. /\ Page' = Page /\ CachedPage' = CachedPage /\ Raw' = Raw
      /\ CallerSees' = [x \in Page |-> Seen(x, mode', next', cached', file')]
      /\ MayRemain' = [x \in Page |-> Remains(x, mode', next', cached', dirty', unsynced')]
  BY MappingNext
<1>2. /\ CallerSees = [x \in Page |-> Seen(x, mode, next, cached, file)]
      /\ MayRemain = [x \in Page |-> Remains(x, mode, next, cached, dirty, unsynced)]
  BY MappingNow
<1>3. mode = "open" /\ cached' = cached /\ mode' = mode /\ next' = next BY DEF flush
<1>4. CachedPage \subseteq Page /\ Page \subseteq Nat /\ stack \in Stacks
  BY PageTypes DEF StackInv
<1>5. /\ file \in [Page -> Raw] /\ cached \in [CachedPage -> Contents] /\ dirty \subseteq CachedPage
      /\ unsynced \in [Page -> SUBSET Raw] /\ \A x \in Page : file[x] \in unsynced[x]
  BY DEF StackInv, StackTypeOK
<1>6. ASSUME NEW p \in CachedPage, p \notin dirty PROVE decrypt_page(p, file[p]) = cached[p]
  BY <1>3, <1>6 DEF StackInv, CleanPagesMatchFile, InCache
<1>7. ASSUME NEW p \in Page
      PROVE  /\ CallerSees[p] = IF p \in CachedPage THEN cached[p] ELSE decrypt_page(p, file[p])
             /\ MayRemain[p] = {decrypt_page(p, raw) : raw \in unsynced[p]}
                                 \cup IF p \in dirty THEN {cached[p], Garbled} ELSE {}
             /\ CallerSees'[p] = IF p \in CachedPage THEN cached[p] ELSE decrypt_page(p, file'[p])
  BY <1>1, <1>2, <1>3, <1>5 DEF Seen, Remains
<1>8. ASSUME NEW p \in dirty
      PROVE  /\ encrypt_page(p, cached[p]) \in Raw /\ TornPage \in Raw
             /\ decrypt_page(p, encrypt_page(p, cached[p])) = cached[p]
             /\ decrypt_page(p, TornPage) = Garbled
  BY <1>4, <1>5, Sealing
<1>9. CASE /\ file' = [p \in Page |-> IF p \in dirty THEN encrypt_page(p, cached[p]) ELSE file[p]]
           /\ unsynced' = [p \in Page |-> {file'[p]}]
           /\ dirty' = {}
           /\ reply' = [result |-> "ok", out |-> <<>>]
  <2>1. \A p \in Page : /\ p \in dirty => file'[p] = encrypt_page(p, cached[p])
                        /\ p \notin dirty => file'[p] = file[p]
    BY <1>9
  <2>2. \A p \in Page : file'[p] \in Raw /\ unsynced'[p] = {file'[p]} BY <1>5, <1>8, <1>9, <2>1
  <2>3. file' \in [Page -> Raw] BY <1>9, <2>2
  <2>4. unsynced' \in [Page -> SUBSET Raw] BY <1>9, <2>2
  <2>5. StackTypeOK' BY <1>1, <1>3, <1>5, <1>9, <2>2, <2>3, <2>4 DEF StackInv, StackTypeOK
  <2>6. ASSUME NEW p \in CachedPage PROVE decrypt_page(p, file'[p]) = cached[p]
    BY <1>4, <1>6, <1>8, <2>1
  <2>7. CleanPagesMatchFile'
    BY <1>1, <1>3, <2>6 DEF CleanPagesMatchFile, decrypt_page, Encrypted
  <2>8. ASSUME NEW p \in Page PROVE CallerSees'[p] = CallerSees[p] /\ MayRemain'[p] = {CallerSees[p]}
    <3>1. CallerSees'[p] = CallerSees[p] BY <1>5, <1>7, <2>1
    <3>2. decrypt_page(p, file'[p]) = CallerSees[p] BY <1>5, <1>7, <2>1, <2>6
    <3>3. MayRemain'[p] = {decrypt_page(p, raw) : raw \in {file'[p]}}
      BY <1>1, <1>9, <2>2 DEF Remains
    <3> QED BY <3>1, <3>2, <3>3
  <2>9. CallerSees' = CallerSees BY <1>1, <1>2, <2>8
  <2>10. MayRemain' = [p \in Page |-> {CallerSees[p]}] BY <1>1, <2>8
  <2>11. BuiltPagesAreOwed' BY <1>3 DEF BuiltPagesAreOwed
  <2> QED BY <1>3, <1>4, <1>9, <2>5, <2>7, <2>9, <2>10, <2>11, PromisePages
       DEF Promise!Flush, Promise!WriteOk, StackInv
<1>10. ASSUME NEW p \in Page,
              \/ /\ p \notin dirty /\ p \notin dirty' /\ file'[p] = file[p]
                 /\ unsynced'[p] = unsynced[p]
              \/ /\ p \in dirty /\ p \notin dirty' /\ file'[p] = encrypt_page(p, cached[p])
                 /\ unsynced'[p] = unsynced[p] \cup {encrypt_page(p, cached[p]), TornPage}
              \/ /\ p \in dirty /\ p \in dirty' /\ file'[p] = TornPage
                 /\ unsynced'[p] = unsynced[p] \cup {TornPage}
              \/ p \in dirty /\ p \in dirty' /\ file'[p] = file[p] /\ unsynced'[p] = unsynced[p]
       PROVE  /\ file'[p] \in Raw /\ unsynced'[p] \subseteq Raw /\ file'[p] \in unsynced'[p]
              /\ CallerSees'[p] = CallerSees[p] /\ MayRemain'[p] = MayRemain[p]
              /\ p \in CachedPage /\ p \notin dirty' => decrypt_page(p, file'[p]) = cached[p]
  <2>1. MayRemain'[p] = {decrypt_page(p, raw) : raw \in unsynced'[p]}
                          \cup IF p \in CachedPage /\ p \in dirty' THEN {cached[p], Garbled} ELSE {}
    BY <1>1, <1>3 DEF Remains
  <2>2. CASE p \notin dirty BY <1>5, <1>6, <1>7, <1>10, <2>1, <2>2
  <2>3. CASE p \in dirty
    <3>1. p \in CachedPage BY <1>5, <2>3
    <3>2. /\ encrypt_page(p, cached[p]) \in Raw /\ TornPage \in Raw
          /\ decrypt_page(p, encrypt_page(p, cached[p])) = cached[p]
          /\ decrypt_page(p, TornPage) = Garbled
      BY <1>8, <2>3
    <3>3. CallerSees'[p] = CallerSees[p] BY <1>7, <3>1
    <3>4. file'[p] \in Raw /\ unsynced'[p] \subseteq Raw /\ file'[p] \in unsynced'[p]
      BY <1>5, <1>10, <2>3, <3>2
    <3>5. MayRemain[p] = {decrypt_page(p, raw) : raw \in unsynced[p]} \cup {cached[p], Garbled}
      BY <1>7, <2>3
    <3>6. MayRemain'[p] = MayRemain[p]
      <4>1. CASE /\ p \notin dirty'
                 /\ unsynced'[p] = unsynced[p] \cup {encrypt_page(p, cached[p]), TornPage}
        BY <2>1, <3>2, <3>5, <4>1
      <4>2. CASE p \in dirty' /\ unsynced'[p] = unsynced[p] \cup {TornPage}
        BY <2>1, <3>1, <3>2, <3>5, <4>2
      <4>3. CASE p \in dirty' /\ unsynced'[p] = unsynced[p]
        BY <2>1, <3>1, <3>5, <4>3
      <4> QED BY <1>10, <2>3, <4>1, <4>2, <4>3
    <3> QED BY <1>10, <2>3, <3>2, <3>3, <3>4, <3>6
  <2> QED BY <2>2, <2>3
<1> DEFINE order == DirtyOrder
           batch == [k \in DOMAIN order |->
                       [page |-> order[k], raw |-> encrypt_page(order[k], cached[order[k]])]]
<1>11. CASE \E n \in 0 .. Len(batch), torn \in BOOLEAN :
              /\ Land(Landed(batch, n, Len(batch), torn))
              /\ dirty' = {order[k] : k \in n + 1 .. Len(batch)}
              /\ IoError
  <2>1. IsFiniteSet(dirty)
    <3>1. IsFiniteSet(0 .. stack.cached - 1)
      <4>1. 0 \in Int /\ stack.cached - 1 \in Int BY <1>4, PageTypes
      <4> QED BY <4>1, FS_Interval
    <3> QED BY <1>5, <3>1, FS_Subset DEF CachedPage
  <2>2. dirty \subseteq Int BY <1>4, <1>5
  <2> DEFINE c == Cardinality(dirty)
  <2>3. /\ c \in Nat /\ order \in [1 .. c -> dirty]
        /\ \A j, k \in 1 .. c : order[j] = order[k] => j = k
        /\ \A x \in dirty : \E k \in 1 .. c : order[k] = x
    <3>1. PICK S : S = dirty OBVIOUS
    <3>2. /\ Cardinality(S) \in Nat /\ Ascending(S) \in [1 .. Cardinality(S) -> S]
          /\ \A j, k \in 1 .. Cardinality(S) : Ascending(S)[j] = Ascending(S)[k] => j = k
          /\ \A x \in S : \E k \in 1 .. Cardinality(S) : Ascending(S)[k] = x
      BY <2>1, <2>2, <3>1, AscendingIs
    <3> QED BY <3>1, <3>2 DEF DirtyOrder
  <2> HIDE DEF c, order
  <2>4. DOMAIN order = 1 .. c BY <2>3
  <2> DEFINE b == [k \in 1 .. c |->
                     [page |-> order[k], raw |-> encrypt_page(order[k], cached[order[k]])]]
  <2>5. batch = b BY <2>4
  <2>6. Len(b) = c
    <3>1. PICK S : b \in [1 .. c -> S]
      <4>1. b \in [1 .. c -> {b[k] : k \in 1 .. c}] OBVIOUS
      <4> QED BY <4>1
    <3> HIDE DEF b
    <3> QED BY <2>3, <3>1, ListLen
  <2> HIDE DEF batch
  <2>7. PICK n \in 0 .. c, torn \in BOOLEAN :
          /\ Land(Landed(b, n, c, torn)) /\ dirty' = {order[k] : k \in n + 1 .. c} /\ IoError
    <3> HIDE DEF b
    <3> QED BY <1>11, <2>5, <2>6
  <2>8. PICK bb : bb = b OBVIOUS
  <2>9. ASSUME NEW p \in Page
        PROVE  /\ file' = [x \in Page |-> file'[x]] /\ unsynced' = [x \in Page |-> unsynced'[x]]
               /\ p \notin dirty => /\ file'[p] = file[p] /\ unsynced'[p] = unsynced[p]
                                    /\ p \notin dirty'
               /\ p \in dirty =>
                    \/ /\ p \notin dirty' /\ file'[p] = encrypt_page(p, cached[p])
                       /\ unsynced'[p] = unsynced[p] \cup {encrypt_page(p, cached[p]), TornPage}
                    \/ /\ p \in dirty' /\ file'[p] = TornPage
                       /\ unsynced'[p] = unsynced[p] \cup {TornPage}
                    \/ p \in dirty' /\ file'[p] = file[p] /\ unsynced'[p] = unsynced[p]
    <3>1. StackTypeOK BY DEF StackInv
    <3>2. Land(Landed(bb, n, c, torn)) BY <2>7, <2>8
    <3>3. PICK o : o = order OBVIOUS
    <3>4. FlushBatch(bb, o, c) BY <2>8, <3>3 DEF FlushBatch
    <3>5. /\ o \in [1 .. c -> dirty] /\ \A j, k \in 1 .. c : o[j] = o[k] => j = k
          /\ \A x \in dirty : \E k \in 1 .. c : o[k] = x
          /\ dirty' = {o[k] : k \in n + 1 .. c}
      BY <2>3, <2>7, <3>3
    <3> QED BY <1>4, <2>3, <3>1, <3>2, <3>4, <3>5, FlushFails
  <2>10. ASSUME NEW p \in Page
         PROVE  /\ file'[p] \in Raw /\ unsynced'[p] \subseteq Raw /\ file'[p] \in unsynced'[p]
                /\ CallerSees'[p] = CallerSees[p] /\ MayRemain'[p] = MayRemain[p]
                /\ p \in CachedPage /\ p \notin dirty' => decrypt_page(p, file'[p]) = cached[p]
    BY <1>10, <2>9
  <2>11. file' = [x \in Page |-> file'[x]] /\ unsynced' = [x \in Page |-> unsynced'[x]]
    <3>1. 0 \in Page BY <1>4, PageTypes
    <3> QED BY <2>9, <3>1
  <2>12. dirty' \subseteq CachedPage
    <3>1. \A k \in n + 1 .. c : k \in 1 .. c BY <2>7, <2>3
    <3> QED BY <1>5, <2>3, <2>7, <3>1
  <2>13. file' \in [Page -> Raw] BY <2>10, <2>11
  <2>14. unsynced' \in [Page -> SUBSET Raw] BY <2>10, <2>11
  <2>15. StackTypeOK' BY <1>1, <1>3, <2>10, <2>12, <2>13, <2>14 DEF StackInv, StackTypeOK
  <2>16. CleanPagesMatchFile'
    BY <1>1, <1>3, <1>4, <2>10 DEF CleanPagesMatchFile, decrypt_page, Encrypted
  <2>17. CallerSees' = CallerSees BY <1>1, <1>2, <2>10
  <2>18. MayRemain' = MayRemain BY <1>1, <1>2, <2>10
  <2>19. BuiltPagesAreOwed' BY <1>3 DEF BuiltPagesAreOwed
  <2>20. reply' = Promise!Failed BY <2>7 DEF IoError, Promise!Failed
  <2> QED BY <1>3, <1>4, <2>15, <2>16, <2>17, <2>18, <2>19, <2>20 DEF Promise!Flush, StackInv
<1> QED BY <1>9, <1>11 DEF flush

-----------------------------------------------------------------------------
(* Theorems.                                                               *)

\* A closed image of blank pages.
LEMMA StackInit ==
  ASSUME Init
  PROVE  StackInv
<1>1. stack \in Stacks /\ 0 \in Page BY PageTypes DEF Init
<1>2. ZeroPage \in Raw /\ Zero \in Contents BY DEF ZeroPage, Raw, Contents
<1>3. StackTypeOK BY <1>1, <1>2 DEF Init, StackTypeOK
<1> QED BY <1>1, <1>3 DEF Init, StackInv, CleanPagesMatchFile, BuiltPagesAreOwed

\* Reads change neither the stores nor the invariant.
LEMMA ReadsKeepInv ==
  ASSUME StackInv, UNCHANGED <<stack, file, unsynced, cached, dirty, mode, next>>
  PROVE  StackInv'
<1>1. Page' = Page /\ CachedPage' = CachedPage /\ Raw' = Raw BY MappingNext
<1>2. StackTypeOK' BY <1>1 DEF StackInv, StackTypeOK
<1>3. CleanPagesMatchFile'
  BY <1>1 DEF StackInv, CleanPagesMatchFile, InCache, decrypt_page, Encrypted
<1>4. BuiltPagesAreOwed' BY <1>1 DEF StackInv, BuiltPagesAreOwed
<1> QED BY <1>2, <1>3, <1>4 DEF StackInv

\* Every call keeps a promise and the invariant.
LEMMA StackNext ==
  ASSUME StackInv, Next
  PROVE  PromisedStep /\ StackInv'
<1>1. stack' = stack /\ StackTypeOK /\ stack \in Stacks BY DEF Next, StackInv
<1>2. CASE open_store \/ create_store
  <2>1. Promise!Open /\ mode = "closed" /\ StackInv' BY <1>1, <1>2, OpenStep
  <2> QED BY <2>1 DEF PromisedStep
<1>3. CASE flush
  <2>1. Promise!Flush /\ mode = "open" /\ StackInv' BY <1>1, <1>3, FlushStep
  <2> QED BY <2>1 DEF PromisedStep
<1>4. CASE close_store \/ power_loss
  <2>1. Promise!Crash /\ StackInv' BY <1>1, <1>4, CrashStep
  <2> QED BY <2>1 DEF PromisedStep
<1>5. ASSUME NEW value \in Values, build_page(value) PROVE PromisedStep /\ StackInv'
  <2>1. Promise!Write(<<next>>, <<value>>) /\ mode = "building" /\ StackInv' BY <1>1, <1>5, BuildStep
  <2> QED BY <2>1 DEF PromisedStep
<1>6. ASSUME NEW p \in Page, NEW q \in Page, misplace(p, q) PROVE PromisedStep /\ StackInv'
  <2>1. Promise!Misplace(p) /\ mode = "closed" /\ StackInv' BY <1>1, <1>6, MisplaceStep
  <2> QED BY <2>1 DEF PromisedStep
<1>7. ASSUME NEW indices \in stack.requests, read_pages(indices) PROVE PromisedStep /\ StackInv'
  <2>1. Promise!Read(indices) /\ mode = "open" BY <1>1, <1>7, ReadStep
  <2>2. StackInv' BY <1>1, <1>7, ReadsKeepInv DEF read_pages
  <2> QED BY <2>1, <2>2 DEF PromisedStep
<1>8. ASSUME NEW indices \in stack.requests, NEW pages \in [DOMAIN indices -> Values],
             write_pages(indices, pages) \/ write_plain_path_pages(indices, pages)
      PROVE  PromisedStep /\ StackInv'
  <2>1. Promise!Write(indices, pages) /\ mode = "open" /\ StackInv' BY <1>1, <1>8, WriteStep
  <2> QED BY <2>1 DEF PromisedStep
<1>9. ASSUME NEW paths \in stack.paths, read_paths_pages(paths) PROVE PromisedStep /\ StackInv'
  <2>1. Promise!ReadPaths(paths) /\ mode = "open" BY <1>1, <1>9, ReadPathsStep
  <2>2. StackInv' BY <1>1, <1>9, ReadsKeepInv DEF read_paths_pages
  <2> QED BY <2>1, <2>2 DEF PromisedStep
<1>10. ASSUME NEW paths \in stack.paths, NEW contents \in [Page -> Values],
              write_paths_pages(paths, contents)
       PROVE  PromisedStep /\ StackInv'
  <2>1. /\ Promise!Write(FlattenSeq(paths),
             [k \in DOMAIN FlattenSeq(paths) |-> contents[FlattenSeq(paths)[k]]])
        /\ mode = "open" /\ StackInv'
    BY <1>1, <1>10, WritePathsStep
  <2> QED BY <2>1 DEF PromisedStep
<1> QED BY <1>2, <1>3, <1>4, <1>5, <1>6, <1>7, <1>8, <1>9, <1>10 DEF Next, Call

\* StackInv holds along every behaviour.
LEMMA StackInductive == Spec => []StackInv
<1>1. Init => StackInv BY StackInit
<1>2. StackInv /\ [Next]_vars => StackInv'
  <2>1. StackInv /\ Next => StackInv' BY StackNext
  <2>2. StackInv /\ vars' = vars => StackInv' BY ReadsKeepInv DEF vars
  <2> QED BY <2>1, <2>2
<1> QED BY <1>1, <1>2, PTL DEF Spec

\* For every stack of stores: only cached pages are ever owed to the file, and
\* what the file shows is always among what a loss of power may leave (store.rs).
THEOREM StacksAreWellFormed == Spec => []StackTypeOK
<1>1. StackInv => StackTypeOK BY DEF StackInv
<1> QED BY <1>1, StackInductive, PTL

\* For every stack of stores: a page the open cache holds and does not owe to
\* the file is the page the file holds, after failed and torn writes and failed
\* flushes too (FrontCachedPageStore::flush clears a page's mark only once it is
\* written).
THEOREM CleanPagesAreOnFile == Spec => []CleanPagesMatchFile
<1>1. StackInv => CleanPagesMatchFile BY DEF StackInv
<1> QED BY <1>1, StackInductive, PTL

\* For every stack of stores, list of pages and list of paths: the stack of file,
\* AEAD and cached stores is the array of DurablePages.
THEOREM StacksAreDurablePages == Spec => KeepsPromises
<1>1. StackInv /\ [Next]_vars => [PromisedStep]_vars BY StackNext
<1> QED BY <1>1, StackInductive, PTL DEF Spec, KeepsPromises
=============================================================================

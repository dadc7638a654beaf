--------------------------- MODULE InductionLemmas ---------------------------
(***************************************************************************)
(* Induction, recursion, division and shifts over the natural numbers,     *)
(* stated with sets and functions so that the provers can use them.        *)
(***************************************************************************)
EXTENDS PowersOfTwo, WellFoundedInduction, TLAPS

\* A non-empty set of naturals has a least element.
LEMMA LeastNatural ==
  ASSUME NEW T, T \subseteq Nat, T # {}
  PROVE  \E x \in T : \A y \in T : x <= y
<1> DEFINE R == {ss \in Nat \X Nat : ss[1] < ss[2]}
<1>1. IsWellFoundedOn(R, Nat)
  BY NatLessThanWellFounded DEF OpToRel
<1>2. \A y, x \in Nat : y < x => <<y, x>> \in R
  OBVIOUS
<1> HIDE DEF R
<1>3. PICK x \in T : \A y \in T : ~(<<y, x>> \in R)
  BY <1>1, WFMin, Zenon
<1>4. ASSUME NEW y \in T PROVE x <= y
  <2>1. x \in Nat /\ y \in Nat OBVIOUS
  <2>2. y < x => <<y, x>> \in R BY <1>2, <2>1
  <2>3. ~(<<y, x>> \in R) BY <1>3
  <2> QED BY <2>1, <2>2, <2>3
<1> QED BY <1>4

\* Induction: a set that contains 0 and is closed under successor contains
\* every natural number.
LEMMA SetInduction ==
  ASSUME NEW P, 0 \in P, \A n \in Nat : n \in P => n + 1 \in P
  PROVE  \A n \in Nat : n \in P
<1> DEFINE Bad == {n \in Nat : n \notin P}
<1> SUFFICES ASSUME Bad # {} PROVE FALSE
  OBVIOUS
<1>1. PICK m \in Bad : \A y \in Bad : m <= y
  <2>1. Bad \subseteq Nat OBVIOUS
  <2> HIDE DEF Bad
  <2> QED BY <2>1, LeastNatural
<1>2. m \in Nat \ {0} /\ m \notin P
  OBVIOUS
<1>3. m - 1 \in Nat /\ (m - 1) + 1 = m
  BY <1>2
<1>4. m - 1 \notin Bad
  <2>1. ~(m <= m - 1) BY <1>2
  <2> HIDE DEF Bad
  <2> QED BY <1>1, <2>1
<1>5. m - 1 \in P
  BY <1>3, <1>4
<1> QED BY <1>2, <1>3, <1>5

\* A bounded non-empty set of naturals has a greatest element.
LEMMA GreatestNatural ==
  ASSUME NEW T, NEW b \in Nat, T \subseteq 0 .. b, T # {}
  PROVE  \E x \in T : \A y \in T : y <= x
<1> DEFINE U == {k \in Nat : b - k \in T}
<1>1. PICK t \in T : TRUE OBVIOUS
<1>2. b - t \in U BY <1>1
<1>3. PICK u \in U : \A y \in U : u <= y
  <2>1. U \subseteq Nat OBVIOUS
  <2> HIDE DEF U
  <2> QED BY <1>2, <2>1, LeastNatural
<1>4. ASSUME NEW y \in T PROVE y <= b - u
  <2>1. y \in 0 .. b /\ b - y \in Nat OBVIOUS
  <2>2. b - (b - y) = y BY <2>1
  <2>3. b - y \in U BY <2>1, <2>2
  <2>4. u <= b - y BY <1>3, <2>3
  <2>5. u \in Nat OBVIOUS
  <2> QED BY <2>1, <2>4, <2>5
<1> QED BY <1>4

\* Step functions on S, and the functions defined by iterating one from a.
Steps(S) == [Nat \X S -> S]

IteratesFrom(f, S, a, step) ==
  /\ f \in [Nat -> S]
  /\ f[0] = a
  /\ \A n \in Nat : f[n + 1] = step[<<n, f[n]>>]

\* Recursion: iterating a step function from a start value defines a function
\* on the natural numbers.
LEMMA Iteration ==
  ASSUME NEW S, NEW a \in S, NEW step \in Steps(S)
  PROVE  \E f : IteratesFrom(f, S, a, step)
<1> USE DEF Steps
<1> DEFINE Upto(n, g) == /\ g \in [0 .. n -> S]
                         /\ g[0] = a
                         /\ \A i \in 0 .. n - 1 : g[i + 1] = step[<<i, g[i]>>]
           Has == {n \in Nat : \E g : Upto(n, g)}
<1>1. \A n \in Nat : n \in Has
  <2>1. 0 \in Has
    <3>1. Upto(0, [i \in 0 .. 0 |-> a]) OBVIOUS
    <3> QED BY <3>1
  <2>2. ASSUME NEW n \in Nat, n \in Has PROVE n + 1 \in Has
    <3>1. PICK g : Upto(n, g) BY <2>2
    <3> DEFINE h == [i \in 0 .. n + 1 |-> IF i = n + 1 THEN step[<<n, g[n]>>] ELSE g[i]]
    <3>2. h \in [0 .. n + 1 -> S]
      <4>1. step[<<n, g[n]>>] \in S BY <3>1
      <4> QED BY <3>1, <4>1
    <3>3. h[0] = a BY <3>1
    <3>4. ASSUME NEW i \in 0 .. n PROVE h[i + 1] = step[<<i, h[i]>>]
      <4>1. h[i] = g[i] OBVIOUS
      <4>2. CASE i = n
        <5>1. h[n + 1] = step[<<n, g[n]>>] OBVIOUS
        <5> QED BY <4>1, <4>2, <5>1
      <4>3. CASE i # n
        <5>1. i \in 0 .. n - 1 /\ i + 1 \in 0 .. n BY <4>3
        <5>2. h[i + 1] = g[i + 1] BY <5>1
        <5> QED BY <3>1, <4>1, <5>1, <5>2
      <4> QED BY <4>2, <4>3
    <3>5. (n + 1) - 1 = n OBVIOUS
    <3>6. Upto(n + 1, h) BY <3>2, <3>3, <3>4, <3>5
    <3>7. n + 1 \in Nat OBVIOUS
    <3> HIDE DEF Upto, h
    <3> QED BY <3>6, <3>7
  <2> HIDE DEF Has
  <2> QED BY <2>1, <2>2, SetInduction
<1> DEFINE G == [n \in Nat |-> CHOOSE g : Upto(n, g)]
<1>2. \A n \in Nat : Upto(n, G[n])
  BY <1>1
<1> HIDE DEF G
<1> DEFINE Agree == {n \in Nat : \A i \in 0 .. n : \A m \in Nat : i <= m => G[m][i] = G[i][i]}
<1>3. \A n \in Nat : n \in Agree
  <2>1. 0 \in Agree BY <1>2
  <2>2. ASSUME NEW n \in Nat, n \in Agree PROVE n + 1 \in Agree
    <3>1. ASSUME NEW m \in Nat, n + 1 <= m PROVE G[m][n + 1] = G[n + 1][n + 1]
      <4>1. Upto(m, G[m]) /\ Upto(n + 1, G[n + 1]) BY <1>2
      <4>2. n \in 0 .. m - 1 /\ n \in 0 .. (n + 1) - 1 BY <3>1
      <4>3. G[m][n] = G[n][n] /\ G[n + 1][n] = G[n][n]
        <5>1. n <= m /\ n <= n + 1 /\ n \in 0 .. n BY <3>1
        <5> QED BY <2>2, <5>1
      <4> QED BY <4>1, <4>2, <4>3
    <3>2. ASSUME NEW i \in 0 .. n + 1, NEW m \in Nat, i <= m PROVE G[m][i] = G[i][i]
      <4>1. CASE i = n + 1 BY <3>1, <3>2, <4>1
      <4>2. CASE i # n + 1
        <5>1. i \in 0 .. n BY <4>2
        <5> QED BY <2>2, <3>2, <5>1
      <4> QED BY <4>1, <4>2
    <3> QED BY <3>2
  <2> HIDE DEF Agree
  <2> QED BY <2>1, <2>2, SetInduction
<1> DEFINE F == [n \in Nat |-> G[n][n]]
<1>4. F \in [Nat -> S]
  <2>1. ASSUME NEW n \in Nat PROVE G[n][n] \in S
    <3>1. G[n] \in [0 .. n -> S] /\ n \in 0 .. n BY <1>2
    <3> QED BY <3>1
  <2> QED BY <2>1
<1>5. F[0] = a BY <1>2
<1>6. ASSUME NEW n \in Nat PROVE F[n + 1] = step[<<n, F[n]>>]
  <2>1. Upto(n + 1, G[n + 1]) BY <1>2
  <2>2. n \in 0 .. (n + 1) - 1 OBVIOUS
  <2>3. G[n + 1][n + 1] = step[<<n, G[n + 1][n]>>] BY <2>1, <2>2
  <2>4. G[n + 1][n] = G[n][n]
    <3>1. n \in Agree BY <1>3
    <3>2. n \in 0 .. n /\ n + 1 \in Nat /\ n <= n + 1 OBVIOUS
    <3> QED BY <3>1, <3>2
  <2> QED BY <2>3, <2>4
<1>7. IteratesFrom(F, S, a, step) BY <1>4, <1>5, <1>6 DEF IteratesFrom
<1> QED BY <1>7

\* The function of the previous lemma as a recursive definition writes it.
LEMMA RecursiveFunction ==
  ASSUME NEW S, NEW a, NEW step, NEW f, IteratesFrom(f, S, a, step)
  PROVE  f = [k \in Nat |-> IF k = 0 THEN a ELSE step[<<k - 1, f[k - 1]>>]]
<1> USE DEF IteratesFrom
<1>1. ASSUME NEW k \in Nat, k # 0 PROVE f[k] = step[<<k - 1, f[k - 1]>>]
  <2>1. k - 1 \in Nat /\ (k - 1) + 1 = k BY <1>1
  <2> QED BY <2>1
<1> QED BY <1>1

\* The states of a loop of n rounds over a step function.
LoopOf(f, S, a, step, n) ==
  /\ f = [k \in 0 .. n |-> IF k = 0 THEN a ELSE step[<<k - 1, f[k - 1]>>]]
  /\ \A k \in 0 .. n : f[k] \in S

\* A loop of n rounds over a step function is well defined.
LEMMA Loop ==
  ASSUME NEW S, NEW a \in S, NEW step \in Steps(S), NEW n \in Nat
  PROVE  \E f : LoopOf(f, S, a, step, n)
<1>1. PICK g : IteratesFrom(g, S, a, step) BY Iteration
<1> DEFINE f == [k \in 0 .. n |-> g[k]]
<1>2. ASSUME NEW k \in 0 .. n, k # 0 PROVE g[k] = step[<<k - 1, f[k - 1]>>]
  <2>1. k - 1 \in Nat /\ (k - 1) + 1 = k /\ k - 1 \in 0 .. n BY <1>2
  <2> QED BY <1>1, <2>1 DEF IteratesFrom
<1>3. g[0] = a BY <1>1 DEF IteratesFrom
<1>4. \A k \in 0 .. n : f[k] \in S BY <1>1 DEF IteratesFrom
<1>5. f = [k \in 0 .. n |-> IF k = 0 THEN a ELSE step[<<k - 1, f[k - 1]>>]]
  BY <1>2, <1>3
<1>6. LoopOf(f, S, a, step, n) BY <1>4, <1>5 DEF LoopOf
<1> QED BY <1>6

\* Induction over the rounds of a loop.
LEMMA BoundedInduction ==
  ASSUME NEW n \in Nat, NEW P, 0 \in P, \A k \in 1 .. n : k - 1 \in P => k \in P
  PROVE  \A k \in 0 .. n : k \in P
<1> DEFINE Q == {k \in Nat : k <= n => k \in P}
<1>1. 0 \in Q OBVIOUS
<1>2. ASSUME NEW k \in Nat, k \in Q PROVE k + 1 \in Q
  <2>1. CASE k + 1 <= n
    <3>1. k + 1 \in 1 .. n /\ (k + 1) - 1 = k /\ k <= n BY <2>1
    <3>2. k \in P BY <1>2, <3>1
    <3>3. k + 1 \in P BY <3>1, <3>2
    <3> QED BY <3>3
  <2>2. CASE ~(k + 1 <= n) BY <2>2
  <2> QED BY <2>1, <2>2
<1>3. \A k \in Nat : k \in Q
  <2> HIDE DEF Q
  <2> QED BY <1>1, <1>2, SetInduction
<1> QED BY <1>3
-----------------------------------------------------------------------------
(* Division.                                                               *)

\* Bounds on a quotient.
LEMMA DivBounds ==
  ASSUME NEW x \in Nat, NEW m \in Nat \ {0}
  PROVE  /\ x \div m \in Nat
         /\ m * (x \div m) <= x
         /\ x < m * (x \div m) + m
  OBVIOUS

\* The quotient is the only number within those bounds.
LEMMA DivUnique ==
  ASSUME NEW x \in Nat, NEW m \in Nat \ {0}, NEW q \in Nat, m * q <= x, x < m * q + m
  PROVE  x \div m = q
<1>1. x \div m \in Nat /\ m * (x \div m) <= x /\ x < m * (x \div m) + m BY DivBounds
<1> DEFINE p == x \div m
<1> HIDE DEF p
<1>2. ASSUME NEW u \in Nat, NEW v \in Nat, u < v PROVE m * u + m <= m * v
  <2>1. PICK k \in Nat : v = u + 1 + k
    <3>1. v - u - 1 \in Nat /\ v = u + 1 + (v - u - 1) BY <1>2
    <3> QED BY <3>1
  <2>2. m * v = m * u + m + m * k BY <2>1
  <2>3. m * k \in Nat /\ m * u \in Nat OBVIOUS
  <2> QED BY <2>2, <2>3
<1>3. p \in Nat /\ m * p <= x /\ x < m * p + m BY <1>1 DEF p
<1>4. m * p \in Nat /\ m * q \in Nat BY <1>3
<1>5. ~(p < q) BY <1>2, <1>3, <1>4
<1>6. ~(q < p) BY <1>2, <1>3, <1>4
<1>7. p = q BY <1>3, <1>5, <1>6
<1> QED BY <1>7 DEF p

\* A number is made of its quotient and its remainder.
LEMMA DivMod ==
  ASSUME NEW x \in Nat, NEW m \in Nat \ {0}
  PROVE  x % m \in 0 .. m - 1 /\ x = m * (x \div m) + (x % m)
  OBVIOUS

\* A remainder is the only one within its bounds.
LEMMA ModUnique ==
  ASSUME NEW x \in Nat, NEW m \in Nat \ {0}, NEW q \in Nat, NEW r \in 0 .. m - 1,
         x = m * q + r
  PROVE  x \div m = q /\ x % m = r
<1>1. m * q \in Nat OBVIOUS
<1>2. x \div m = q
  <2>1. m * q <= x /\ x < m * q + m BY <1>1
  <2> QED BY <2>1, DivUnique
<1>3. x = m * (x \div m) + (x % m) /\ x % m \in 0 .. m - 1 BY DivMod
<1> DEFINE rem == x % m
<1>4. x = m * q + rem /\ rem \in 0 .. m - 1 BY <1>2, <1>3
<1> HIDE DEF rem
<1>5. rem = r BY <1>1, <1>4
<1> QED BY <1>2, <1>5 DEF rem

\* A smaller number has no larger quotient.
LEMMA DivMonotone ==
  ASSUME NEW x \in Nat, NEW y \in Nat, x <= y, NEW m \in Nat \ {0}
  PROVE  x \div m <= y \div m
<1> DEFINE p == x \div m
           q == y \div m
<1>1. p \in Nat /\ q \in Nat /\ m * p <= x /\ y < m * q + m BY DivBounds
<1> HIDE DEF p, q
<1>2. ASSUME q < p PROVE FALSE
  <2>1. PICK k \in Nat : p = q + 1 + k
    <3>1. p - q - 1 \in Nat /\ p = q + 1 + (p - q - 1) BY <1>1, <1>2
    <3> QED BY <3>1
  <2>2. m * p = m * q + m + m * k BY <1>1, <2>1
  <2>3. m * k \in Nat /\ m * q \in Nat BY <1>1
  <2> QED BY <1>1, <2>2, <2>3
<1>3. p <= q BY <1>1, <1>2
<1> QED BY <1>3 DEF p, q

\* Pow2 satisfies its recursive equation: the shift `1 << n` of params.rs
\* and merkle.rs doubles from one n to the next.
LEMMA Pow2Def ==
  /\ Pow2[0] = 1
  /\ \A n \in Nat : Pow2[n + 1] = 2 * Pow2[n]
<1>1. Pow2 = [n \in Nat |-> IF n = 0 THEN 1 ELSE 2 * Pow2[n - 1]]
  BY DEF Pow2
<1>2. ASSUME NEW n \in Nat PROVE Pow2[n + 1] = 2 * Pow2[n]
  <2>1. n + 1 \in Nat /\ n + 1 # 0 /\ (n + 1) - 1 = n OBVIOUS
  <2>2. Pow2[n + 1] = IF n + 1 = 0 THEN 1 ELSE 2 * Pow2[(n + 1) - 1] BY <1>1, <2>1
  <2> QED BY <2>1, <2>2
<1> QED BY <1>1, <1>2

\* Every shift `1 << n` is a positive natural number.
LEMMA Pow2Positive == \A n \in Nat : Pow2[n] \in Nat \ {0}
<1> DEFINE P == {n \in Nat : Pow2[n] \in Nat \ {0}}
<1>1. 0 \in P BY Pow2Def
<1>2. ASSUME NEW n \in Nat, n \in P PROVE n + 1 \in P
  BY <1>2, Pow2Def
<1>3. \A n \in Nat : n \in P
  <2> HIDE DEF P
  <2> QED BY <1>1, <1>2, SetInduction
<1> QED BY <1>3

\* `1 << m` does not exceed `1 << n` for m <= n.
LEMMA Pow2Monotone ==
  ASSUME NEW m \in Nat, NEW n \in Nat, m <= n
  PROVE  Pow2[m] <= Pow2[n]
<1> DEFINE P == {k \in Nat : Pow2[m] <= Pow2[m + k]}
<1>1. 0 \in P BY Pow2Positive
<1>2. ASSUME NEW k \in Nat, k \in P PROVE k + 1 \in P
  <2>1. m + k \in Nat /\ m + (k + 1) = (m + k) + 1 OBVIOUS
  <2>2. Pow2[m + (k + 1)] = 2 * Pow2[m + k] BY <2>1, Pow2Def
  <2>3. Pow2[m] \in Nat /\ Pow2[m + k] \in Nat BY <2>1, Pow2Positive
  <2>4. Pow2[m] <= Pow2[m + (k + 1)] BY <1>2, <2>2, <2>3
  <2> QED BY <2>4
<1>3. \A k \in Nat : k \in P
  <2> HIDE DEF P
  <2> QED BY <1>1, <1>2, SetInduction
<1>4. n - m \in Nat /\ m + (n - m) = n OBVIOUS
<1> QED BY <1>3, <1>4

\* Dropping one bit more halves a prefix.
LEMMA HalvePrefix ==
  ASSUME NEW x \in Nat, NEW m \in Nat \ {0}
  PROVE  x \div (2 * m) = (x \div m) \div 2
<1> DEFINE q == x \div m
           r == q \div 2
<1>1. q \in Nat /\ m * q <= x /\ x < m * q + m BY DivBounds
<1> HIDE DEF q
<1>2. r \in Nat /\ (q = 2 * r \/ q = 2 * r + 1) BY <1>1
<1> HIDE DEF r
<1>3. m * r \in Nat /\ (2 * m) * r = 2 * (m * r) BY <1>2
<1>4. m * q = 2 * (m * r) \/ m * q = 2 * (m * r) + m
  <2>1. CASE q = 2 * r BY <1>2, <2>1
  <2>2. CASE q = 2 * r + 1 BY <1>2, <2>2
  <2> QED BY <1>2, <2>1, <2>2
<1>5. (2 * m) * r <= x /\ x < (2 * m) * r + 2 * m
  <2>1. m * q \in Nat BY <1>1
  <2> QED BY <1>1, <1>3, <1>4, <2>1
<1>6. 2 * m \in Nat \ {0} OBVIOUS
<1>7. x \div (2 * m) = r BY <1>2, <1>5, <1>6, DivUnique
<1> QED BY <1>7 DEF q, r
=============================================================================

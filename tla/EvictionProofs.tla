---------------------------- MODULE EvictionProofs ----------------------------
(***************************************************************************)
(* Theorems about the eviction schedule and the simulators it drives. The   *)
(* counters of the schedule, for every range, rate and tree, stay in range, *)
(* never wrap and never run ahead of it, and the bit-reversal order they    *)
(* drive visits the buckets of every level evenly (EvictionSchedule). The   *)
(* stress simulators lose no block, keep the debt paid, and the reserved    *)
(* dummies of Ring ORAM last (StressRuns).                                  *)
(***************************************************************************)
EXTENDS EvictionSchedule, StressRuns, TreeLemmas, SequenceTheorems

-----------------------------------------------------------------------------
(* The eviction schedule.                                                  *)

\* The type invariant together with the bound on completed evictions: each
\* needs the other, because completed_evictions stays below the largest
\* counter value only while it stays below the debt, which fits it.
ScheduleInvariant == ScheduleTypeOK /\ NeverAheadOfSchedule

\* The smaller of two numbers, as drain_evictions takes it.
LEMMA MinOfTwo ==
  ASSUME NEW a \in Int, NEW b \in Int
  PROVE  Min({a, b}) = IF a <= b THEN a ELSE b
<1> DEFINE m == IF a <= b THEN a ELSE b
<1>1. m \in {a, b} /\ \A y \in {a, b} : m <= y OBVIOUS
<1>2. ASSUME NEW x \in {a, b}, \A y \in {a, b} : x <= y PROVE x = m
  BY <1>1, <1>2
<1> HIDE DEF m
<1>3. (CHOOSE x \in {a, b} : \A y \in {a, b} : x <= y) = m BY <1>1, <1>2
<1> QED BY <1>3 DEF Min, m

\* A drain completes no more evictions than are pending, and none when
\* pending_evictions fails.
LEMMA DrainableBound ==
  ASSUME ScheduleInvariant, NEW limit \in Nat
  PROVE  /\ Drainable(limit) \in Nat
         /\ completed_evictions + Drainable(limit) <= issued_accesses * EvictionsPerAccess
         /\ completed_evictions + Drainable(limit) <= CounterMax
<1> DEFINE due == issued_accesses * EvictionsPerAccess
<1>1. /\ issued_accesses \in Nat /\ completed_evictions \in Nat
      /\ completed_evictions <= CounterMax /\ CounterMax \in Nat
      /\ completed_evictions <= issued_accesses * EvictionsPerAccess
  BY ScheduleAssumption DEF ScheduleInvariant, ScheduleTypeOK, NeverAheadOfSchedule
<1>2. due \in Nat BY <1>1, RateAssumption
<1>3. /\ Debt(issued_accesses, completed_evictions) = due - completed_evictions
      /\ PendingDefined(issued_accesses, completed_evictions) =>
           due <= CounterMax /\ completed_evictions <= due
  BY DEF Debt, PendingDefined
<1>4. completed_evictions <= due BY <1>1
<1> HIDE DEF due
<1>5. CASE PendingDefined(issued_accesses, completed_evictions)
  <2>1. Drainable(limit) = Min({limit, due - completed_evictions})
    BY <1>3, <1>5 DEF Drainable
  <2>2. due - completed_evictions \in Int BY <1>1, <1>2
  <2>3. Drainable(limit) = IF limit <= due - completed_evictions THEN limit
                            ELSE due - completed_evictions
    BY <2>1, <2>2, MinOfTwo
  <2> QED BY <1>1, <1>2, <1>3, <1>5, <2>3 DEF due
<1>6. CASE ~PendingDefined(issued_accesses, completed_evictions)
  BY <1>1, <1>6 DEF Drainable
<1> QED BY <1>5, <1>6

\* A range of indices has finitely many visits to a bucket, and the visits of two
\* adjoining ranges add up.
LEMMA VisitsType ==
  ASSUME NEW node, NEW from \in Nat, NEW to \in Nat
  PROVE  /\ Visits(node, from, to) \in Nat
         /\ \A mid \in from .. to :
              Visits(node, from, to) = Visits(node, from, mid) + Visits(node, mid, to)
<1> DEFINE Hit(a, b) == {k \in a .. b - 1 : ThroughBucket(node, eviction_leaf_at(k))}
<1>1. ASSUME NEW a \in Nat, NEW b \in Nat
      PROVE  IsFiniteSet(Hit(a, b)) /\ Cardinality(Hit(a, b)) \in Nat
             /\ Visits(node, a, b) = Cardinality(Hit(a, b))
  <2>1. IsFiniteSet(a .. b - 1)
    <3>1. a \in Int /\ b - 1 \in Int OBVIOUS
    <3> QED BY <3>1, FS_Interval
  <2>2. Hit(a, b) \subseteq a .. b - 1 OBVIOUS
  <2>3. IsFiniteSet(Hit(a, b)) BY <2>1, <2>2, FS_Subset
  <2> QED BY <2>3, FS_CardinalityType DEF Visits
<1>2. ASSUME NEW mid \in from .. to
      PROVE  Visits(node, from, to) = Visits(node, from, mid) + Visits(node, mid, to)
  <2>1. mid \in Nat OBVIOUS
  <2>2. Hit(from, to) = Hit(from, mid) \cup Hit(mid, to) /\ Hit(from, mid) \cap Hit(mid, to) = {}
    OBVIOUS
  <2> HIDE DEF Hit
  <2>3. Cardinality(Hit(from, to)) = Cardinality(Hit(from, mid)) + Cardinality(Hit(mid, to))
    <3>1. PICK A, B : A = Hit(from, mid) /\ B = Hit(mid, to) OBVIOUS
    <3>2. IsFiniteSet(A) /\ IsFiniteSet(B) /\ Cardinality(A) \in Nat /\ Cardinality(B) \in Nat
      BY <1>1, <2>1, <3>1
    <3>3. Cardinality(A \cup B) = Cardinality(A) + Cardinality(B) - Cardinality(A \cap B)
      BY <3>2, FS_Union
    <3>4. Cardinality(A \cap B) = 0 BY <2>2, <3>1, FS_EmptySet
    <3> QED BY <2>2, <3>1, <3>2, <3>3, <3>4
  <2> QED BY <1>1, <2>1, <2>3
<1> QED BY <1>1, <1>2

\* record_access and drain_evictions keep both counters in range and the
\* drained paths within the schedule.
LEMMA ScheduleStep == ScheduleInvariant /\ [ScheduleNext]_scheduleVars => ScheduleInvariant'
<1> SUFFICES ASSUME ScheduleInvariant, [ScheduleNext]_scheduleVars PROVE ScheduleInvariant'
  OBVIOUS
<1>1. /\ issued_accesses \in Nat /\ issued_accesses <= CounterMax
      /\ completed_evictions \in Nat /\ completed_evictions <= CounterMax
      /\ visits \in [Node -> Nat] /\ CounterMax \in Nat
      /\ completed_evictions <= issued_accesses * EvictionsPerAccess
      /\ refused \in BOOLEAN
  BY ScheduleAssumption DEF ScheduleInvariant, ScheduleTypeOK, NeverAheadOfSchedule
<1>2. CASE record_access
  <2>1. UNCHANGED <<completed_evictions, visits>> BY <1>2 DEF record_access
  <2>2. refused' \in BOOLEAN BY <1>2 DEF record_access
  <2>3. \/ issued_accesses' = issued_accesses
        \/ issued_accesses' = issued_accesses + 1 /\ issued_accesses # CounterMax
    BY <1>2 DEF record_access
  <2>4. issued_accesses' \in 0 .. CounterMax BY <1>1, <2>3
  <2>5. completed_evictions' <= issued_accesses' * EvictionsPerAccess
    <3>1. (issued_accesses + 1) * EvictionsPerAccess
             = issued_accesses * EvictionsPerAccess + EvictionsPerAccess
      BY <1>1, RateAssumption
    <3>2. issued_accesses * EvictionsPerAccess \in Nat BY <1>1, RateAssumption
    <3> QED BY <1>1, <2>1, <2>3, <3>1, <3>2, RateAssumption
  <2> QED BY <1>1, <2>1, <2>2, <2>4, <2>5
        DEF ScheduleInvariant, ScheduleTypeOK, NeverAheadOfSchedule
<1>3. ASSUME NEW limit \in 0 .. MaxBudget, drain_evictions(limit)
      PROVE  ScheduleInvariant'
  <2> DEFINE n == Drainable(limit)
             More(node) == Visits(node, completed_evictions, completed_evictions + n)
  <2>1. limit \in Nat BY ScheduleAssumption
  <2>2. /\ n \in Nat
        /\ completed_evictions + n <= issued_accesses * EvictionsPerAccess
        /\ completed_evictions + n <= CounterMax
    BY <2>1, DrainableBound
  <2> HIDE DEF n
  <2>3. /\ completed_evictions' = completed_evictions + n
        /\ issued_accesses' = issued_accesses
        /\ refused' \in BOOLEAN
        /\ visits' = [node \in Node |-> visits[node] + More(node)]
    BY <1>3 DEF drain_evictions, n
  <2>4. \A node \in Node : More(node) \in Nat
    <3>1. completed_evictions + n \in Nat BY <1>1, <2>2
    <3> QED BY <1>1, <3>1, VisitsType
  <2>5. visits' \in [Node -> Nat]
    <3> HIDE DEF More
    <3>1. \A node \in Node : visits[node] + More(node) \in Nat BY <1>1, <2>4
    <3> QED BY <2>3, <3>1
  <2>6. completed_evictions' \in 0 .. CounterMax /\ issued_accesses' \in 0 .. CounterMax
    BY <1>1, <2>2, <2>3
  <2>7. completed_evictions' <= issued_accesses' * EvictionsPerAccess
    BY <2>2, <2>3
  <2> QED BY <2>3, <2>5, <2>6, <2>7
        DEF ScheduleInvariant, ScheduleTypeOK, NeverAheadOfSchedule
<1>4. CASE UNCHANGED scheduleVars
  BY <1>4 DEF scheduleVars, ScheduleInvariant, ScheduleTypeOK, NeverAheadOfSchedule
<1> QED BY <1>2, <1>3, <1>4 DEF ScheduleNext

\* A new schedule starts within its invariant.
LEMMA ScheduleStart == ScheduleInit => ScheduleInvariant
<1> SUFFICES ASSUME ScheduleInit PROVE ScheduleInvariant
  OBVIOUS
<1>1. /\ issued_accesses = 0 /\ completed_evictions = 0
      /\ refused \in BOOLEAN /\ visits \in [Node -> Nat]
  BY DEF ScheduleInit
<1>2. 0 <= 0 * EvictionsPerAccess BY RateAssumption
<1>3. 0 \in 0 .. CounterMax BY ScheduleAssumption
<1> QED BY <1>1, <1>2, <1>3 DEF ScheduleInvariant, ScheduleTypeOK, NeverAheadOfSchedule

\* ScheduleInvariant is inductive.
LEMMA ScheduleInvariantHolds == ScheduleSpec => []ScheduleInvariant
  BY ScheduleStart, ScheduleStep, PTL DEF ScheduleSpec

\* Both u64 counters stay in range, for every range: record_access refuses the
\* access that would overflow, and a drain never counts past what is due.
THEOREM CountersStayInRange == ScheduleSpec => []ScheduleTypeOK
<1>1. ScheduleInvariant => ScheduleTypeOK BY DEF ScheduleInvariant
<1> QED BY <1>1, ScheduleInvariantHolds, PTL

\* The drained paths never run ahead of what the recorded accesses scheduled,
\* also after the debt has outgrown its counter and pending_evictions fails.
THEOREM DrainsFollowTheSchedule == ScheduleSpec => []NeverAheadOfSchedule
<1>1. ScheduleInvariant => NeverAheadOfSchedule BY DEF ScheduleInvariant
<1> QED BY <1>1, ScheduleInvariantHolds, PTL

\* No step of the schedule takes a counter back: checked_add refuses instead of
\* wrapping around.
THEOREM CountersOnlyGrow == ScheduleSpec => CountersNeverWrap
<1>1. ScheduleInvariant /\ [ScheduleNext]_scheduleVars =>
        [ /\ issued_accesses' >= issued_accesses
          /\ completed_evictions' >= completed_evictions ]_scheduleVars
  <2> SUFFICES ASSUME ScheduleInvariant, ScheduleNext
               PROVE  /\ issued_accesses' >= issued_accesses
                      /\ completed_evictions' >= completed_evictions
    OBVIOUS
  <2>1. issued_accesses \in Nat /\ completed_evictions \in Nat
    BY DEF ScheduleInvariant, ScheduleTypeOK
  <2>2. CASE record_access BY <2>1, <2>2 DEF record_access
  <2>3. ASSUME NEW limit \in 0 .. MaxBudget, drain_evictions(limit)
        PROVE  /\ issued_accesses' >= issued_accesses
               /\ completed_evictions' >= completed_evictions
    <3>1. limit \in Nat BY ScheduleAssumption
    <3>2. Drainable(limit) \in Nat BY <3>1, DrainableBound
    <3>3. completed_evictions' = completed_evictions + Drainable(limit)
          /\ issued_accesses' = issued_accesses
      BY <2>3 DEF drain_evictions
    <3> QED BY <2>1, <3>2, <3>3
  <2> QED BY <2>2, <2>3 DEF ScheduleNext
<1> QED BY <1>1, ScheduleInvariantHolds, PTL DEF ScheduleSpec, CountersNeverWrap

-----------------------------------------------------------------------------
(* Residues.                                                               *)

\* Of the first c indices, one residue modulo m is met c \div m times, or once
\* more.
LEMMA ResidueCount ==
  ASSUME NEW m \in Nat \ {0}, NEW r \in 0 .. m - 1, NEW c \in Nat
  PROVE  LET times == Cardinality({k \in 0 .. c - 1 : k % m = r})
         IN  times \in Nat /\ c \div m <= times /\ times <= (c \div m) + 1
<1> DEFINE S == {k \in 0 .. c - 1 : k % m = r}
           n == (c + (m - 1 - r)) \div m
           J == 0 .. n - 1
           f == [j \in J |-> m * j + r]
<1>1. c + (m - 1 - r) \in Nat OBVIOUS
<1>2. n \in Nat /\ m * n <= c + (m - 1 - r) /\ c + (m - 1 - r) < m * n + m BY <1>1, DivBounds
<1> HIDE DEF n
<1>3. ASSUME NEW j \in Nat PROVE m * j + r \in Nat /\ (m * j + r < c <=> j < n)
  <2>1. m * j \in Nat OBVIOUS
  <2>2. ASSUME j < n PROVE m * j + m <= m * n
    <3>1. PICK d \in Nat : n = j + 1 + d
      <4>1. n - j - 1 \in Nat /\ n = j + 1 + (n - j - 1) BY <1>2, <2>2
      <4> QED BY <4>1
    <3>2. m * n = m * j + m + m * d /\ m * d \in Nat BY <3>1
    <3> QED BY <2>1, <3>2
  <2>3. ASSUME ~(j < n) PROVE m * n <= m * j
    <3>1. PICK d \in Nat : j = n + d
      <4>1. j - n \in Nat /\ j = n + (j - n) BY <1>2, <2>3
      <4> QED BY <4>1
    <3>2. m * j = m * n + m * d /\ m * d \in Nat /\ m * n \in Nat BY <1>2, <3>1
    <3> QED BY <3>2
  <2>4. m * n \in Nat BY <1>2
  <2>5. CASE j < n BY <1>2, <2>1, <2>2, <2>4, <2>5
  <2>6. CASE ~(j < n) BY <1>2, <2>1, <2>3, <2>4, <2>6
  <2> QED BY <2>1, <2>5, <2>6
<1>4. f \in Bijection(J, S)
  <2>1. ASSUME NEW j \in J PROVE f[j] \in S
    <3>1. j \in Nat /\ j < n BY <1>2
    <3>2. m * j + r \in 0 .. c - 1 BY <1>3, <3>1
    <3>3. (m * j + r) % m = r BY <1>3, <3>1, ModUnique
    <3> QED BY <3>2, <3>3
  <2>2. ASSUME NEW i \in J, NEW j \in J, f[i] = f[j] PROVE i = j
    <3>1. i \in Nat /\ j \in Nat BY <1>2
    <3>2. m * i + r = m * j + r BY <2>2
    <3>3. (m * i + r) \div m = i /\ (m * j + r) \div m = j BY <1>3, <3>1, ModUnique
    <3> QED BY <3>2, <3>3
  <2>3. ASSUME NEW k \in S PROVE \E j \in J : f[j] = k
    <3>1. k \in Nat /\ k < c /\ k % m = r OBVIOUS
    <3>2. k \div m \in Nat /\ k = m * (k \div m) + r BY <3>1, DivBounds, DivMod
    <3>3. k \div m < n BY <1>3, <3>1, <3>2
    <3>4. k \div m \in J BY <1>2, <3>2, <3>3
    <3> QED BY <3>2, <3>4
  <2> HIDE DEF S, J
  <2>4. f \in [J -> S] BY <2>1
  <2> HIDE DEF f
  <2> QED BY <2>2, <2>3, <2>4 DEF Bijection, Injection, Surjection, IsInjective
<1>5. Cardinality(S) = n /\ IsFiniteSet(S)
  <2>1. IsFiniteSet(J) /\ Cardinality(J) = n
    <3>1. 0 \in Int /\ n - 1 \in Int BY <1>2
    <3> QED BY <1>2, <3>1, FS_Interval
  <2> HIDE DEF S, J, f
  <2>2. ExistsBijection(J, S) BY <1>4 DEF ExistsBijection
  <2> QED BY <2>1, <2>2, FS_Bijection
<1>6. c \div m <= n BY <1>1, DivMonotone DEF n
<1>7. n <= (c \div m) + 1
  <2> DEFINE q == c \div m
  <2>1. q \in Nat /\ m * q <= c /\ c < m * q + m BY DivBounds
  <2> HIDE DEF q
  <2>2. c + m \in Nat /\ c + (m - 1 - r) <= c + m OBVIOUS
  <2>3. m * (q + 1) = m * q + m /\ m * q \in Nat BY <2>1
  <2>4. (c + m) \div m = q + 1
    <3>1. q + 1 \in Nat /\ m * (q + 1) <= c + m /\ c + m < m * (q + 1) + m BY <2>1, <2>3
    <3> QED BY <2>2, <3>1, DivUnique
  <2>5. n <= (c + m) \div m BY <1>1, <2>2, DivMonotone DEF n
  <2> QED BY <2>4, <2>5 DEF q
<1> HIDE DEF S
<1>8. Cardinality(S) \in Nat /\ c \div m <= Cardinality(S) /\ Cardinality(S) <= (c \div m) + 1
  BY <1>2, <1>5, <1>6, <1>7
<1> QED BY <1>8 DEF S

-----------------------------------------------------------------------------
(* The bit-reversal order.                                                 *)

LEMMA Pow2Sum ==
  ASSUME NEW a \in Nat, NEW b \in Nat PROVE Pow2[a + b] = Pow2[a] * Pow2[b]
<1> DEFINE P == {n \in Nat : Pow2[a + n] = Pow2[a] * Pow2[n]}
<1>1. 0 \in P BY Pow2Def, Pow2Positive
<1>2. ASSUME NEW n \in Nat, n \in P PROVE n + 1 \in P
  <2>1. a + n \in Nat /\ a + (n + 1) = (a + n) + 1 OBVIOUS
  <2>2. Pow2[a + (n + 1)] = 2 * Pow2[a + n] /\ Pow2[n + 1] = 2 * Pow2[n] BY <2>1, Pow2Def
  <2>3. Pow2[a] \in Nat /\ Pow2[n] \in Nat BY Pow2Positive
  <2>4. Pow2[a] * (2 * Pow2[n]) = 2 * (Pow2[a] * Pow2[n]) BY <2>3
  <2>5. Pow2[a + (n + 1)] = Pow2[a] * Pow2[n + 1] BY <1>2, <2>2, <2>4
  <2> QED BY <2>5
<1>3. \A n \in Nat : n \in P
  <2> HIDE DEF P
  <2> QED BY <1>1, <1>2, SetInduction
<1> QED BY <1>3

\* The first d bits of a reversed label are the reversal of its d lowest bits.
LEMMA ReversalPrefix ==
  ASSUME NEW low, NEW rev, BitReversal(low, rev), NEW d \in Nat, NEW j \in Nat
  PROVE  rev[d + j] \div Pow2[j] = rev[d]
<1> DEFINE P == {n \in Nat : /\ Pow2[n] * rev[d] <= rev[d + n]
                             /\ rev[d + n] < Pow2[n] * rev[d] + Pow2[n]}
<1>1. \A n \in Nat : rev[n] \in Nat /\ Pow2[n] \in Nat \ {0} BY Pow2Positive DEF BitReversal
<1>2. 0 \in P
  <2>1. Pow2[0] = 1 /\ d + 0 = d /\ rev[d] \in Nat BY <1>1, Pow2Def
  <2> QED BY <2>1
<1>3. ASSUME NEW n \in Nat, n \in P PROVE n + 1 \in P
  <2> DEFINE bit == (low \div Pow2[d + n]) % 2
  <2>1. d + n \in Nat /\ d + (n + 1) = (d + n) + 1 OBVIOUS
  <2>2. rev[d + (n + 1)] = 2 * rev[d + n] + bit /\ bit \in 0 .. 1 BY <2>1 DEF BitReversal
  <2> HIDE DEF bit
  <2>3. Pow2[n + 1] = 2 * Pow2[n] BY Pow2Def
  <2>4. Pow2[n] * rev[d] \in Nat /\ (2 * Pow2[n]) * rev[d] = 2 * (Pow2[n] * rev[d]) BY <1>1
  <2>5. /\ Pow2[n] * rev[d] <= rev[d + n] /\ rev[d + n] < Pow2[n] * rev[d] + Pow2[n]
        /\ rev[d + n] \in Nat /\ Pow2[n] \in Nat
    BY <1>1, <1>3, <2>1
  <2>6. /\ Pow2[n + 1] * rev[d] <= rev[d + (n + 1)]
        /\ rev[d + (n + 1)] < Pow2[n + 1] * rev[d] + Pow2[n + 1]
    <3> DEFINE a == Pow2[n] * rev[d]
               b == rev[d + n]
               p == Pow2[n]
    <3>1. a \in Nat /\ b \in Nat /\ p \in Nat /\ a <= b /\ b < a + p BY <2>4, <2>5
    <3>2. Pow2[n + 1] * rev[d] = 2 * a /\ rev[d + (n + 1)] = 2 * b + bit /\ Pow2[n + 1] = 2 * p
      BY <2>2, <2>3, <2>4
    <3> HIDE DEF a, b, p
    <3> QED BY <2>2, <3>1, <3>2
  <2> QED BY <2>6
<1>4. \A n \in Nat : n \in P
  <2> HIDE DEF P
  <2> QED BY <1>2, <1>3, SetInduction
<1>5. /\ Pow2[j] * rev[d] <= rev[d + j] /\ rev[d + j] < Pow2[j] * rev[d] + Pow2[j]
  BY <1>4
<1>6. PICK p, q, v : p = Pow2[j] /\ q = rev[d] /\ v = rev[d + j] OBVIOUS
<1>7. p \in Nat \ {0} /\ q \in Nat /\ v \in Nat /\ p * q <= v /\ v < p * q + p
  <2>1. d + j \in Nat OBVIOUS
  <2> QED BY <1>1, <1>5, <1>6, <2>1
<1>8. v \div p = q BY <1>7, DivUnique
<1> QED BY <1>6, <1>8

\* The d + 1 lowest bits are the d lowest and the next one.
LEMMA LowBits ==
  ASSUME NEW x \in Nat, NEW d \in Nat
  PROVE  x % Pow2[d + 1] = Pow2[d] * ((x \div Pow2[d]) % 2) + (x % Pow2[d])
<1> DEFINE m == Pow2[d]
           q == x \div m
           r == x % m
           h == q \div 2
           b == q % 2
<1>1. m \in Nat \ {0} /\ Pow2[d + 1] = 2 * m BY Pow2Def, Pow2Positive
<1>2. q \in Nat /\ r \in 0 .. m - 1 /\ x = m * q + r BY <1>1, DivBounds, DivMod
<1>3. h \in Nat /\ b \in 0 .. 1 /\ q = 2 * h + b
  <2> HIDE DEF q
  <2> QED BY <1>2
<1> HIDE DEF m, q, r, h, b
<1>4. m * q = (2 * m) * h + m * b
  <2>1. m * (2 * h + b) = (2 * m) * h + m * b BY <1>1, <1>3
  <2> QED BY <1>3, <2>1
<1>5. m * b \in 0 .. m BY <1>1, <1>3
<1>6. m * b + r \in 0 .. 2 * m - 1 BY <1>1, <1>2, <1>5
<1>7. x = (2 * m) * h + (m * b + r)
  <2>1. (2 * m) * h \in Nat /\ m * b \in Nat BY <1>1, <1>3, <1>5
  <2> QED BY <1>2, <1>4, <2>1
<1>8. x % (2 * m) = m * b + r
  <2>1. 2 * m \in Nat \ {0} BY <1>1
  <2> HIDE <1>4
  <2> QED BY <1>3, <1>6, <1>7, <2>1, ModUnique
<1> QED BY <1>1, <1>8 DEF m, q, r, b

\* Two indices have the same reversal of d bits just when they agree modulo 2^d.
LEMMA ReversalResidue ==
  ASSUME NEW x \in Nat, NEW y \in Nat, NEW f, BitReversal(x, f), NEW g, BitReversal(y, g),
         NEW d \in Nat
  PROVE  f[d] = g[d] <=> x % Pow2[d] = y % Pow2[d]
<1> DEFINE P == {n \in Nat : f[n] = g[n] <=> x % Pow2[n] = y % Pow2[n]}
<1>1. 0 \in P
  <2>1. f[0] = 0 /\ g[0] = 0 /\ Pow2[0] = 1 BY Pow2Def DEF BitReversal
  <2>2. x % 1 = 0 /\ y % 1 = 0 OBVIOUS
  <2> QED BY <2>1, <2>2
<1>2. ASSUME NEW n \in Nat, n \in P PROVE n + 1 \in P
  <2> DEFINE a == (x \div Pow2[n]) % 2
             b == (y \div Pow2[n]) % 2
             m == Pow2[n]
             u == x % m
             v == y % m
  <2>1. /\ a \in 0 .. 1 /\ b \in 0 .. 1
        /\ f[n + 1] = 2 * f[n] + a /\ g[n + 1] = 2 * g[n] + b
        /\ f[n] \in Nat /\ g[n] \in Nat
    BY DEF BitReversal
  <2>2. m \in Nat \ {0} BY Pow2Positive
  <2>3. u \in 0 .. m - 1 /\ v \in 0 .. m - 1 BY <2>2, DivMod
  <2>4. x % Pow2[n + 1] = m * a + u /\ y % Pow2[n + 1] = m * b + v BY LowBits
  <2>5. f[n] = g[n] <=> u = v BY <1>2
  <2> HIDE DEF a, b, m, u, v
  <2>6. f[n + 1] = g[n + 1] <=> (f[n] = g[n] /\ a = b)
    <3>1. ASSUME NEW i \in Nat, NEW j \in Nat
          PROVE  2 * i + a = 2 * j + b <=> (i = j /\ a = b)
      BY <2>1
    <3> QED BY <2>1, <3>1
  <2>7. m * a + u = m * b + v <=> (u = v /\ a = b)
    <3>1. m * a = (IF a = 0 THEN 0 ELSE m) /\ m * b = (IF b = 0 THEN 0 ELSE m) BY <2>1, <2>2
    <3> QED BY <2>1, <2>2, <2>3, <3>1
  <2>8. f[n + 1] = g[n + 1] <=> x % Pow2[n + 1] = y % Pow2[n + 1] BY <2>4, <2>5, <2>6, <2>7
  <2> QED BY <2>8
<1>3. \A n \in Nat : n \in P
  <2> HIDE DEF P
  <2> QED BY <1>1, <1>2, SetInduction
<1> QED BY <1>3

LevelNodes(depth) == Pow2[depth] - 1 .. 2 * Pow2[depth] - 2

\* The low bits of the index that reverse_bits_mod keeps determine its residue.
LEMMA LeafResidue ==
  ASSUME NEW k \in Nat, NEW d \in Depth
  PROVE  k % leaves \in Leaf /\ k % leaves \in Nat /\ (k % leaves) % Pow2[d] = k % Pow2[d]
<1> DEFINE m == Pow2[d]
           w == Pow2[LeafBits - d]
           a == k \div leaves
           x == k % leaves
           b == x \div m
           r == x % m
<1>1. d \in Nat /\ LeafBits - d \in Nat /\ (LeafBits - d) + d = LeafBits
  BY ParamsAssumption DEF Depth
<1>2. m \in Nat \ {0} /\ w \in Nat \ {0} /\ leaves = w * m BY <1>1, Pow2Positive, Pow2Sum DEF leaves
<1>3. leaves \in Nat \ {0} BY LeavesType
<1>4. a \in Nat /\ x \in 0 .. leaves - 1 /\ k = leaves * a + x BY <1>3, DivBounds, DivMod
<1>5. x \in Nat BY <1>3, <1>4
<1>6. b \in Nat /\ r \in 0 .. m - 1 /\ x = m * b + r BY <1>2, <1>5, DivBounds, DivMod
<1> HIDE DEF m, w, a, x, b, r
<1>7. k = m * (w * a + b) + r
  <2>1. leaves * a = m * (w * a) /\ w * a \in Nat BY <1>2, <1>4
  <2>2. m * (w * a + b) = m * (w * a) + m * b BY <1>2, <1>6, <2>1
  <2>3. m * (w * a) \in Nat /\ m * b \in Nat BY <1>2, <1>6, <2>1
  <2> QED BY <1>4, <1>6, <2>1, <2>2, <2>3
<1>8. w * a + b \in Nat BY <1>2, <1>4, <1>6
<1>9. k % m = r
  <2> DEFINE q == w * a + b
  <2>1. q \in Nat /\ k = m * q + r BY <1>7, <1>8
  <2> HIDE DEF q
  <2> QED BY <1>2, <1>6, <2>1, ModUnique
<1> QED BY <1>4, <1>5, <1>9 DEF Leaf, x, r, m

\* At every depth, the eviction paths through a bucket are those whose index has
\* one residue: each run of 2^depth successive paths visits every bucket of the
\* level once.
LEMMA PathsThroughABucket ==
  ASSUME NEW d \in Depth, NEW n \in LevelNodes(d)
  PROVE  \E r \in 0 .. Pow2[d] - 1 :
           \A k \in Nat : node_index(d, eviction_leaf_at(k)) = n <=> k % Pow2[d] = r
<1> DEFINE m == Pow2[d]
           Reversal(x) == CHOOSE rev : BitReversal(x, rev) /\ ReversedBits[x] = rev[LeafBits]
           top(x) == Reversal(x)[d]
           R == 0 .. m - 1
           h == [x \in R |-> top(x)]
<1>1. d \in Nat /\ LeafBits \in Nat /\ LeafBits - d \in Nat /\ d + (LeafBits - d) = LeafBits
      /\ d <= LeafBits
  BY ParamsAssumption DEF Depth
<1>2. m \in Nat \ {0} /\ Pow2[LeafBits - d] \in Nat \ {0} /\ m <= leaves /\ leaves \in Nat
  BY <1>1, Pow2Positive, Pow2Monotone, LeavesType DEF leaves
<1>3. ASSUME NEW x \in Leaf
      PROVE  /\ x \in Nat /\ BitReversal(x, Reversal(x)) /\ ReversedBits[x] = Reversal(x)[LeafBits]
             /\ top(x) \in R
             /\ node_index(d, ReversedBits[x]) = (m - 1) + top(x)
  <2>1. BitReversal(x, Reversal(x)) /\ ReversedBits[x] = Reversal(x)[LeafBits]
    BY ReversedBitsAre
  <2> HIDE DEF Reversal
  <2>2. top(x) \in R BY <1>1, <2>1 DEF BitReversal
  <2>3. Reversal(x)[LeafBits] \div Pow2[LeafBits - d] = top(x)
    BY <1>1, <2>1, ReversalPrefix
  <2>4. ReversedBits[x] \in Leaf BY ReversedBitsType
  <2>5. node_index(d, ReversedBits[x]) = (m - 1) + (top(x) % m)
    BY <2>1, <2>3, <2>4 DEF node_index, NodeIndex
  <2>6. top(x) % m = top(x)
    <3> HIDE DEF top, m
    <3>1. top(x) \in Nat /\ 0 \in Nat /\ top(x) = m * 0 + top(x) BY <1>2, <2>2
    <3> QED BY <1>2, <2>2, <3>1, ModUnique
  <2> QED BY <1>2, <2>1, <2>2, <2>5, <2>6 DEF Leaf
<1>4. ASSUME NEW x \in Leaf, NEW y \in Leaf PROVE top(x) = top(y) <=> x % m = y % m
  <2> HIDE DEF Reversal
  <2> QED BY <1>1, <1>3, ReversalResidue
<1> HIDE DEF top, m, Reversal
<1>5. R \subseteq Leaf /\ \A x \in R : x % m = x /\ x \in Nat
  <2>1. R \subseteq Leaf BY <1>2 DEF Leaf
  <2>2. ASSUME NEW x \in R PROVE x % m = x /\ x \in Nat
    <3>1. x \in Nat /\ 0 \in Nat /\ x = m * 0 + x BY <1>2
    <3> QED BY <1>2, <3>1, ModUnique
  <2> QED BY <2>1, <2>2
<1>6. h \in Surjection(R, R)
  <2>1. h \in [R -> R] BY <1>3, <1>5
  <2>2. \A x, y \in R : h[x] = h[y] => x = y BY <1>4, <1>5
  <2>3. h \in Injection(R, R)
    <3> HIDE DEF h, R
    <3> QED BY <2>1, <2>2 DEF Injection, IsInjective
  <2>4. IsFiniteSet(R)
    <3>1. 0 \in Int /\ m - 1 \in Int BY <1>2
    <3> QED BY <3>1, FS_Interval
  <2> HIDE DEF h, R
  <2> QED BY <2>3, <2>4, FS_Injection
<1>7. n - (m - 1) \in R /\ n \in Int BY <1>2 DEF LevelNodes, m
<1>8. PICK r \in R : h[r] = n - (m - 1)
  <2> HIDE DEF h, R
  <2> QED BY <1>6, <1>7 DEF Surjection
<1>9. top(r) = n - (m - 1) /\ r \in Leaf BY <1>5, <1>8
<1>10. ASSUME NEW k \in Nat
       PROVE  node_index(d, eviction_leaf_at(k)) = n <=> k % m = r
  <2> DEFINE x == k % leaves
  <2>1. x \in Leaf /\ x % m = k % m BY LeafResidue DEF m
  <2>2. eviction_leaf_at(k) = ReversedBits[x] BY DEF eviction_leaf_at, reverse_bits_mod
  <2> HIDE DEF x
  <2>3. node_index(d, eviction_leaf_at(k)) = (m - 1) + top(x) /\ top(x) \in R BY <1>3, <2>1, <2>2
  <2>4. (m - 1) + top(x) = n <=> top(x) = top(r) BY <1>2, <1>7, <1>9, <2>3
  <2>5. top(x) = top(r) <=> x % m = r BY <1>4, <1>5, <1>9, <2>1
  <2> QED BY <2>1, <2>3, <2>4, <2>5
<1> QED BY <1>10 DEF m

\* After c paths, a bucket of depth d was visited c \div 2^d times, or once more.
LEMMA EvenVisits ==
  ASSUME NEW d \in Depth, NEW n \in LevelNodes(d), NEW c \in Nat
  PROVE  /\ Visits(n, 0, c) \in Nat
         /\ c \div Pow2[d] <= Visits(n, 0, c)
         /\ Visits(n, 0, c) <= (c \div Pow2[d]) + 1
<1>1. PICK r \in 0 .. Pow2[d] - 1 :
        \A k \in Nat : node_index(d, eviction_leaf_at(k)) = n <=> k % Pow2[d] = r
  BY PathsThroughABucket
<1>2. Pow2[d] \in Nat \ {0} /\ r \in Nat BY Pow2Positive, ParamsAssumption DEF Depth
<1>3. ASSUME NEW k \in Nat PROVE ThroughBucket(n, eviction_leaf_at(k)) <=> k % Pow2[d] = r
  <2>1. ASSUME NEW e \in Depth, node_index(e, eviction_leaf_at(k)) = n PROVE e = d
    <3>1. r % Pow2[d] = r
      <4>1. 0 \in Nat /\ r = Pow2[d] * 0 + r BY <1>2
      <4> QED BY <1>2, <4>1, ModUnique
    <3>2. node_index(d, eviction_leaf_at(r)) = n BY <1>1, <1>2, <3>1
    <3> QED BY <1>2, <2>1, <3>2, EvictionLeafType, LevelsDisjoint
  <2> QED BY <1>1, <2>1 DEF ThroughBucket, node_contains_leaf
<1>4. {k \in 0 .. c - 1 : ThroughBucket(n, eviction_leaf_at(k))} = {k \in 0 .. c - 1 : k % Pow2[d] = r}
  BY <1>3
<1> DEFINE times == Cardinality({k \in 0 .. c - 1 : k % Pow2[d] = r})
<1>5. Visits(n, 0, c) = times BY <1>4 DEF Visits
<1>6. times \in Nat /\ c \div Pow2[d] <= times /\ times <= (c \div Pow2[d]) + 1
  BY <1>2, ResidueCount
<1> HIDE DEF times
<1> QED BY <1>5, <1>6

\* The history counts the visits of all completed evictions.
VisitsCounted == \A node \in Node : visits[node] = Visits(node, 0, completed_evictions)

LEMMA VisitsCountedHolds == ScheduleSpec => []VisitsCounted
<1>1. ScheduleInit => VisitsCounted
  <2>1. \A node : Visits(node, 0, 0) = 0
    <3>1. \A node : {k \in 0 .. 0 - 1 : ThroughBucket(node, eviction_leaf_at(k))} = {} OBVIOUS
    <3> QED BY <3>1, FS_EmptySet DEF Visits
  <2> QED BY <2>1 DEF ScheduleInit, VisitsCounted
<1>2. ScheduleInvariant /\ VisitsCounted /\ [ScheduleNext]_scheduleVars => VisitsCounted'
  <2> SUFFICES ASSUME ScheduleInvariant, VisitsCounted, [ScheduleNext]_scheduleVars
               PROVE  VisitsCounted'
    OBVIOUS
  <2>1. CASE record_access BY <2>1 DEF record_access, VisitsCounted
  <2>2. ASSUME NEW limit \in 0 .. MaxBudget, drain_evictions(limit) PROVE VisitsCounted'
    <3> DEFINE c == completed_evictions
               n == Drainable(limit)
    <3>1. limit \in Nat BY ScheduleAssumption
    <3>2. n \in Nat /\ c \in Nat BY <3>1, DrainableBound DEF ScheduleInvariant, ScheduleTypeOK
    <3>3. /\ completed_evictions' = c + n
          /\ visits' = [node \in Node |-> visits[node] + Visits(node, c, c + n)]
      BY <2>2 DEF drain_evictions
    <3> HIDE DEF n
    <3>4. ASSUME NEW node \in Node PROVE visits'[node] = Visits(node, 0, c + n)
      <4>1. Visits(node, 0, c + n) = Visits(node, 0, c) + Visits(node, c, c + n)
        <5>1. 0 \in Nat /\ c + n \in Nat /\ c \in 0 .. c + n BY <3>2
        <5> QED BY <5>1, VisitsType
      <4> QED BY <3>3, <4>1 DEF VisitsCounted
    <3> QED BY <3>3, <3>4 DEF VisitsCounted
  <2>3. CASE UNCHANGED scheduleVars BY <2>3 DEF scheduleVars, VisitsCounted
  <2> QED BY <2>1, <2>2, <2>3 DEF ScheduleNext
<1> QED BY <1>1, <1>2, ScheduleInvariantHolds, PTL DEF ScheduleSpec

\* For every tree: after any number of evictions, two buckets of the same depth
\* were on the evicted paths equally often, up to one path (eviction_leaf_at and
\* reverse_bits_mod of src/src/circuit.rs).
THEOREM EvictionsSpreadEvenly == ScheduleSpec => []VisitsBalanced
<1>1. ScheduleInvariant /\ VisitsCounted => VisitsBalanced
  <2> SUFFICES ASSUME ScheduleInvariant, VisitsCounted,
                      NEW d \in Depth, NEW n1 \in LevelNodes(d), NEW n2 \in LevelNodes(d)
               PROVE  visits[n1] <= visits[n2] + 1
    BY DEF VisitsBalanced, LevelNodes
  <2> DEFINE c == completed_evictions
             q == c \div Pow2[d]
  <2>1. c \in Nat BY DEF ScheduleInvariant, ScheduleTypeOK
  <2>2. d \in Nat /\ Pow2[d] \in Nat \ {0} /\ Pow2[d] <= leaves /\ leaves \in Nat
    BY Pow2Positive, Pow2Monotone, LeavesType, ParamsAssumption DEF Depth, leaves
  <2>3. q \in Nat BY <2>1, <2>2, DivBounds
  <2>4. n1 \in Node /\ n2 \in Node BY <2>2 DEF LevelNodes, Node, bucket_count
  <2>5. ASSUME NEW n \in LevelNodes(d)
        PROVE  Visits(n, 0, c) \in Nat /\ q <= Visits(n, 0, c) /\ Visits(n, 0, c) <= q + 1
    BY <2>1, EvenVisits
  <2>6. visits[n1] = Visits(n1, 0, c) /\ visits[n2] = Visits(n2, 0, c) BY <2>4 DEF VisitsCounted
  <2> HIDE DEF q, c
  <2> QED BY <2>3, <2>5, <2>6
<1> QED BY <1>1, ScheduleInvariantHolds, VisitsCountedHolds, PTL

-----------------------------------------------------------------------------
(* The stress simulators.                                                  *)

StashBlock == [id : Id, leaf : Leaf]
SimSlots == [Node -> [BucketSlot -> Id \cup {EMPTY_BLOCK}]]
SimType == [slots : SimSlots, position_map : [Id -> Leaf], stash : Seq(StashBlock)]

-----------------------------------------------------------------------------
(* The tree and the stash of a simulator that holds a set of blocks.       *)

\* Stash entries carry the label of the position map.
StashLabels(pm, stash) == \A i \in DOMAIN stash : stash[i].leaf = pm[stash[i].id]

\* A block in the tree is on the path of its label.
TreeLabels(slots, pm) ==
  \A n \in Node, s \in BucketSlot :
    NotEmpty(slots[n][s]) => \E d \in Depth : node_index(d, pm[slots[n][s]]) = n

\* No block is in two cells, twice in the stash, or in a cell and the stash.
TreeOnce(slots) ==
  \A n, m \in Node : \A s, t \in BucketSlot :
    NotEmpty(slots[n][s]) /\ slots[n][s] = slots[m][t] => n = m /\ s = t

StashOnce(stash) == \A i, j \in DOMAIN stash : stash[i].id = stash[j].id => i = j

NotBoth(slots, stash) ==
  \A n \in Node, s \in BucketSlot, i \in DOMAIN stash : slots[n][s] # stash[i].id

\* The blocks held are those of H.
OnlyThese(slots, stash, H) ==
  /\ \A n \in Node, s \in BucketSlot : NotEmpty(slots[n][s]) => slots[n][s] \in H
  /\ \A i \in DOMAIN stash : stash[i].id \in H

AllThese(slots, stash, H) ==
  \A id \in H : \/ \E n \in Node, s \in BucketSlot : slots[n][s] = id
                \/ \E i \in DOMAIN stash : stash[i].id = id

Holding(slots, pm, stash, H) ==
  /\ slots \in SimSlots /\ pm \in [Id -> Leaf] /\ stash \in Seq(StashBlock) /\ H \subseteq Id
  /\ StashLabels(pm, stash) /\ TreeLabels(slots, pm)
  /\ TreeOnce(slots) /\ StashOnce(stash) /\ NotBoth(slots, stash)
  /\ OnlyThese(slots, stash, H) /\ AllThese(slots, stash, H)

Holds(b, H) == b \in SimType /\ Holding(b.slots, b.position_map, b.stash, H)

-----------------------------------------------------------------------------
(* Primitive moves of one block.                                           *)

\* Vec::swap_remove drops the element at i and moves the last one there.
LEMMA SwapRemove ==
  ASSUME NEW S, NEW seq \in Seq(S), NEW i \in DOMAIN seq
  PROVE  /\ swap_remove(seq, i) \in Seq(S)
         /\ Len(swap_remove(seq, i)) = Len(seq) - 1
         /\ DOMAIN swap_remove(seq, i) = 1 .. Len(seq) - 1
         /\ \A j \in 1 .. Len(seq) - 1 :
              swap_remove(seq, i)[j] = IF j = i THEN seq[Len(seq)] ELSE seq[j]
<1> DEFINE n == Len(seq)
           e == [seq EXCEPT ![i] = seq[n]]
<1>1. n \in Nat /\ DOMAIN seq = 1 .. n /\ n \in DOMAIN seq /\ n >= 1
  BY LenProperties
<1>2. \A k \in DOMAIN seq : seq[k] \in S BY <1>1, ElementOfSeq
<1>3. e \in Seq(S) /\ Len(e) = n BY <1>1, <1>2, ExceptSeq
<1>4. DOMAIN e = 1 .. n BY <1>3, LenProperties
<1>5. swap_remove(seq, i) = SubSeq(e, 1, n - 1)
  BY <1>3 DEF swap_remove, Front, Last
<1>6. \A j \in 1 .. n - 1 : e[j] = IF j = i THEN seq[n] ELSE seq[j]
  BY <1>1
<1> DEFINE r == SubSeq(e, 1, n - 1)
<1>7. r \in Seq(S) /\ Len(r) = n - 1 /\ \A j \in 1 .. n - 1 : r[j] = e[j]
  <2> HIDE DEF e
  <2>1. 1 \in 1 .. n + 1 /\ n - 1 \in 0 .. n BY <1>1
  <2>2. \A j \in 1 .. n - 1 : e[j] \in S BY <1>1, <1>3, <1>4, ElementOfSeq
  <2> QED BY <1>1, <1>3, <2>1, <2>2
<1>8. DOMAIN r = 1 .. n - 1 BY <1>7, LenProperties
<1> HIDE DEF r, e
<1> QED BY <1>5, <1>6, <1>7, <1>8 DEF r

\* The elements of a stash are blocks with their labels.
LEMMA StashElements ==
  ASSUME NEW stash \in Seq(StashBlock), NEW i \in DOMAIN stash
  PROVE  stash[i] \in StashBlock /\ stash[i].id \in Id /\ stash[i].leaf \in Leaf
<1>1. i \in 1 .. Len(stash) BY LenProperties
<1>2. stash[i] \in StashBlock BY <1>1, ElementOfSeq
<1> QED BY <1>2 DEF StashBlock

\* Clearing the cell of a block lets go of that block.
LEMMA DropFromTree ==
  ASSUME NEW slots, NEW pm, NEW stash, NEW H, Holding(slots, pm, stash, H),
         NEW n \in Node, NEW s \in BucketSlot, NotEmpty(slots[n][s])
  PROVE  Holding(Put(slots, n, s, EMPTY_BLOCK), pm, stash, H \ {slots[n][s]})
<1> DEFINE new == Put(slots, n, s, EMPTY_BLOCK)
<1>1. new \in SimSlots
  BY DEF Holding, SimSlots, Put
<1>2. \A m \in Node, t \in BucketSlot :
        new[m][t] = IF m = n /\ t = s THEN EMPTY_BLOCK ELSE slots[m][t]
  BY DEF Holding, SimSlots, Put
<1> HIDE DEF new
<1> USE DEF NotEmpty
<1>3. TreeLabels(new, pm) BY <1>2 DEF Holding, TreeLabels
<1>4. TreeOnce(new) BY <1>2 DEF Holding, TreeOnce
<1>5. NotBoth(new, stash)
  <2>1. \A i \in DOMAIN stash : stash[i].id # EMPTY_BLOCK
    BY EmptyAssumption, StashElements DEF Holding
  <2> QED BY <1>2, <2>1 DEF Holding, NotBoth
<1>6. OnlyThese(new, stash, H \ {slots[n][s]})
  BY <1>2 DEF Holding, OnlyThese, TreeOnce, NotBoth
<1>7. AllThese(new, stash, H \ {slots[n][s]})
  BY <1>2 DEF Holding, AllThese
<1> QED BY <1>1, <1>3, <1>4, <1>5, <1>6, <1>7 DEF Holding, new

\* Writing a block that is nowhere into a free cell of its path.
LEMMA PutInTree ==
  ASSUME NEW slots, NEW pm, NEW stash, NEW H, Holding(slots, pm, stash, H),
         NEW n \in Node, NEW s \in BucketSlot, ~NotEmpty(slots[n][s]),
         NEW id \in Id, id \notin H, NEW d \in Depth, node_index(d, pm[id]) = n
  PROVE  Holding(Put(slots, n, s, id), pm, stash, H \cup {id})
<1> DEFINE new == Put(slots, n, s, id)
<1>1. new \in SimSlots
  BY DEF Holding, SimSlots, Put
<1>2. \A m \in Node, t \in BucketSlot :
        new[m][t] = IF m = n /\ t = s THEN id ELSE slots[m][t]
  BY DEF Holding, SimSlots, Put
<1> HIDE DEF new
<1> USE DEF NotEmpty
<1>3. TreeLabels(new, pm) BY <1>2 DEF Holding, TreeLabels
<1>4. TreeOnce(new) BY <1>2 DEF Holding, TreeOnce, OnlyThese
<1>5. NotBoth(new, stash)
  <2>1. \A i \in DOMAIN stash : stash[i].id # id BY DEF Holding, OnlyThese
  <2> QED BY <1>2, <2>1 DEF Holding, NotBoth
<1>6. OnlyThese(new, stash, H \cup {id})
  BY <1>2 DEF Holding, OnlyThese
<1>7. AllThese(new, stash, H \cup {id})
  BY <1>2, EmptyAssumption DEF Holding, AllThese
<1> QED BY <1>1, <1>3, <1>4, <1>5, <1>6, <1>7 DEF Holding, new

\* swap_remove lets go of the block it removes, and only of that one.
LEMMA DropFromStash ==
  ASSUME NEW slots, NEW pm, NEW stash, NEW H, Holding(slots, pm, stash, H),
         NEW i \in DOMAIN stash
  PROVE  Holding(slots, pm, swap_remove(stash, i), H \ {stash[i].id})
<1> DEFINE new == swap_remove(stash, i)
           len == Len(stash)
<1>1. new \in Seq(StashBlock) /\ DOMAIN new = 1 .. len - 1
  BY SwapRemove DEF Holding
<1>2. len \in Nat /\ DOMAIN stash = 1 .. len BY LenProperties DEF Holding
<1>3. \A j \in DOMAIN new : new[j] = IF j = i THEN stash[len] ELSE stash[j]
  BY <1>1, SwapRemove DEF Holding
<1>4. ASSUME NEW j \in DOMAIN new
      PROVE \E k \in DOMAIN stash : k # i /\ new[j] = stash[k] /\ (j # i => k = j) /\ (j = i => k = len)
  BY <1>1, <1>2, <1>3
<1>5. ASSUME NEW k \in DOMAIN stash, k # i PROVE \E j \in DOMAIN new : new[j] = stash[k]
  <2>1. CASE k = len
    <3>1. i \in DOMAIN new BY <1>1, <1>2, <1>5, <2>1
    <3> QED BY <1>3, <2>1, <3>1
  <2>2. CASE k # len
    <3>1. k \in DOMAIN new BY <1>1, <1>2, <2>2
    <3> QED BY <1>3, <1>5, <3>1
  <2> QED BY <2>1, <2>2
<1> HIDE DEF new, len
<1>6. StashLabels(pm, new) BY <1>4 DEF Holding, StashLabels
<1>7. StashOnce(new)
  <2> SUFFICES ASSUME NEW j \in DOMAIN new, NEW l \in DOMAIN new, new[j].id = new[l].id PROVE j = l
    BY DEF StashOnce
  <2>1. PICK k \in DOMAIN stash : k # i /\ new[j] = stash[k] /\ (j # i => k = j) /\ (j = i => k = len)
    BY <1>4
  <2>2. PICK h \in DOMAIN stash : h # i /\ new[l] = stash[h] /\ (l # i => h = l) /\ (l = i => h = len)
    BY <1>4
  <2>3. k = h BY <2>1, <2>2 DEF Holding, StashOnce
  <2>4. j # len /\ l # len BY <1>1, <1>2
  <2> QED BY <2>1, <2>2, <2>3, <2>4
<1>8. NotBoth(slots, new) BY <1>4 DEF Holding, NotBoth
<1>9. OnlyThese(slots, new, H \ {stash[i].id})
  BY <1>4 DEF Holding, OnlyThese, StashOnce, NotBoth
<1>10. AllThese(slots, new, H \ {stash[i].id})
  BY <1>5 DEF Holding, AllThese
<1> QED BY <1>1, <1>6, <1>7, <1>8, <1>9, <1>10 DEF Holding, new

\* Pushing a block that is nowhere, with its label, on the stash.
LEMMA PushOnStash ==
  ASSUME NEW slots, NEW pm, NEW stash, NEW H, Holding(slots, pm, stash, H),
         NEW id \in Id, id \notin H
  PROVE  Holding(slots, pm, Append(stash, [id |-> id, leaf |-> pm[id]]), H \cup {id})
<1> DEFINE b == [id |-> id, leaf |-> pm[id]]
           new == Append(stash, b)
           len == Len(stash)
<1>1. b \in StashBlock BY DEF Holding, StashBlock
<1>2. len \in Nat /\ DOMAIN stash = 1 .. len BY LenProperties DEF Holding
<1>b. b.id = id /\ b.leaf = pm[id] OBVIOUS
<1> HIDE DEF b
<1>3. /\ new \in Seq(StashBlock) /\ Len(new) = len + 1
      /\ \A j \in 1 .. len : new[j] = stash[j]
      /\ new[len + 1] = b
  BY <1>1, <1>2, AppendProperties DEF Holding
<1>4. DOMAIN new = 1 .. len + 1 BY <1>3, LenProperties
<1>5. /\ \A j \in DOMAIN stash : j \in DOMAIN new /\ new[j] = stash[j] /\ j # len + 1
      /\ len + 1 \in DOMAIN new
      /\ \A j \in DOMAIN new : j = len + 1 \/ j \in DOMAIN stash
  BY <1>2, <1>3, <1>4
<1> DEFINE last == len + 1
<1>6. new[last] = b BY <1>3
<1> HIDE DEF new, len, last
<1>7. StashLabels(pm, new) BY <1>5, <1>6, <1>b DEF Holding, StashLabels, last
<1>8. StashOnce(new) BY <1>5, <1>6, <1>b DEF Holding, StashOnce, OnlyThese, last
<1>9. NotBoth(slots, new)
  <2>1. \A n \in Node, s \in BucketSlot : slots[n][s] # id
    BY EmptyAssumption DEF Holding, OnlyThese, NotEmpty
  <2> QED BY <1>5, <1>6, <1>b, <2>1 DEF Holding, NotBoth, last
<1>10. OnlyThese(slots, new, H \cup {id}) BY <1>5, <1>6, <1>b DEF Holding, OnlyThese, last
<1>11. AllThese(slots, new, H \cup {id}) BY <1>5, <1>6, <1>b DEF Holding, AllThese, last
<1> QED BY <1>3, <1>7, <1>8, <1>9, <1>10, <1>11 DEF Holding, new, b

\* A new label for a block that is nowhere.
LEMMA Relabel ==
  ASSUME NEW slots, NEW pm, NEW stash, NEW H, Holding(slots, pm, stash, H),
         NEW id \in Id, id \notin H, NEW leaf \in Leaf
  PROVE  Holding(slots, [pm EXCEPT ![id] = leaf], stash, H)
<1> DEFINE new == [pm EXCEPT ![id] = leaf]
<1>1. new \in [Id -> Leaf] BY DEF Holding
<1>2. \A x \in Id : x # id => new[x] = pm[x] BY DEF Holding
<1> HIDE DEF new
<1>3. StashLabels(new, stash)
  <2>1. \A i \in DOMAIN stash : stash[i].id \in Id /\ stash[i].id # id
    BY StashElements DEF Holding, OnlyThese
  <2> QED BY <1>2, <2>1 DEF Holding, StashLabels
<1>4. TreeLabels(slots, new)
  <2>1. \A n \in Node, s \in BucketSlot :
          NotEmpty(slots[n][s]) => slots[n][s] \in Id /\ slots[n][s] # id
    BY DEF Holding, OnlyThese, NotEmpty, SimSlots
  <2> QED BY <1>2, <2>1 DEF Holding, TreeLabels
<1> QED BY <1>1, <1>3, <1>4 DEF Holding, new

-----------------------------------------------------------------------------
(* Operations of a simulator that move one block.                          *)

\* A simulator from its three parts.
LEMMA SimOf ==
  ASSUME NEW slots, NEW pm, NEW stash, NEW H, Holding(slots, pm, stash, H)
  PROVE  Holds([slots |-> slots, position_map |-> pm, stash |-> stash], H)
<1>1. slots \in SimSlots /\ pm \in [Id -> Leaf] /\ stash \in Seq(StashBlock) BY DEF Holding
<1> QED BY <1>1 DEF Holds, SimType

\* The parts of a simulator after an assignment to some of them.
LEMMA SimParts ==
  ASSUME NEW b \in SimType, NEW x, NEW z
  PROVE  /\ [b EXCEPT !.slots = x]
              = [slots |-> x, position_map |-> b.position_map, stash |-> b.stash]
         /\ [b EXCEPT !.stash = z]
              = [slots |-> b.slots, position_map |-> b.position_map, stash |-> z]
<1>1. DOMAIN b = {"slots", "position_map", "stash"} BY DEF SimType
<1>2. [b EXCEPT !.slots = x]
        = [slots |-> x, position_map |-> b.position_map, stash |-> b.stash] BY <1>1
<1>3. [b EXCEPT !.stash = z]
        = [slots |-> b.slots, position_map |-> b.position_map, stash |-> z] BY <1>1
<1> QED BY <1>2, <1>3

\* The least element of a non-empty set of naturals.
LEMMA LowestIs ==
  ASSUME NEW S, S \subseteq Nat, S # {}
  PROVE  Lowest(S) \in S /\ \A j \in S : Lowest(S) <= j
<1>1. \E x \in S : \A y \in S : x <= y BY LeastNatural
<1> QED BY <1>1 DEF Lowest

\* place_or_stash keeps every block and adds the one it places.
LEMMA PlaceHolds ==
  ASSUME NEW b, NEW H, Holds(b, H), NEW id \in Id, id \notin H
  PROVE  /\ Holds(place_or_stash(b, id, b.position_map[id]), H \cup {id})
         /\ place_or_stash(b, id, b.position_map[id]).position_map = b.position_map
<1> DEFINE leaf == b.position_map[id]
           free == {depth \in Depth :
                      \E s \in BucketSlot : b.slots[node_index(depth, leaf)][s] = EMPTY_BLOCK}
<1>1. b \in SimType /\ Holding(b.slots, b.position_map, b.stash, H) BY DEF Holds
<1>2. leaf \in Leaf BY <1>1 DEF SimType
<1>3. CASE free = {}
  <2>1. place_or_stash(b, id, leaf)
          = [b EXCEPT !.stash = Append(b.stash, [id |-> id, leaf |-> leaf])]
    BY <1>3 DEF place_or_stash
  <2>2. place_or_stash(b, id, leaf)
          = [slots |-> b.slots, position_map |-> b.position_map,
             stash |-> Append(b.stash, [id |-> id, leaf |-> leaf])]
    BY <1>1, <2>1, SimParts
  <2>3. Holding(b.slots, b.position_map, Append(b.stash, [id |-> id, leaf |-> leaf]), H \cup {id})
    BY <1>1, PushOnStash
  <2>4. Holds(place_or_stash(b, id, leaf), H \cup {id}) BY <2>2, <2>3, SimOf
  <2>5. place_or_stash(b, id, leaf).position_map = b.position_map BY <2>2
  <2> QED BY <2>4, <2>5
<1>4. CASE free # {}
  <2> DEFINE deepest == CHOOSE d \in free : \A e \in free : e <= d
             node == node_index(deepest, leaf)
             rooms == {s \in BucketSlot : b.slots[node][s] = EMPTY_BLOCK}
             slot == Lowest(rooms)
  <2>1. deepest \in free
    <3>1. free \subseteq 0 .. LeafBits /\ LeafBits \in Nat BY ParamsAssumption DEF Depth
    <3> HIDE DEF free
    <3>2. \E d \in free : \A e \in free : e <= d BY <1>4, <3>1, GreatestNatural
    <3> QED BY <3>2
  <2>2. place_or_stash(b, id, leaf) = [b EXCEPT !.slots = Put(b.slots, node, slot, id)]
    BY <1>4 DEF place_or_stash
  <2>3. deepest \in Depth /\ rooms # {} BY <2>1
  <2>4. node \in Node BY <1>2, <2>3, NodeIndexType
  <2>5. slot \in rooms
    <3>1. rooms \subseteq Nat BY ParamsAssumption DEF BucketSlot
    <3> HIDE DEF rooms
    <3> QED BY <2>3, <3>1, LowestIs
  <2>6. slot \in BucketSlot /\ ~NotEmpty(b.slots[node][slot]) BY <2>5 DEF NotEmpty
  <2> HIDE DEF slot, deepest
  <2>7. Holding(Put(b.slots, node, slot, id), b.position_map, b.stash, H \cup {id})
    BY <1>1, <2>3, <2>4, <2>6, PutInTree
  <2>8. place_or_stash(b, id, leaf)
          = [slots |-> Put(b.slots, node, slot, id), position_map |-> b.position_map,
             stash |-> b.stash]
    BY <1>1, <2>2, SimParts
  <2> QED BY <2>7, <2>8, SimOf
<1> QED BY <1>3, <1>4

\* access finds every block the simulator holds: on the path of its label or in
\* the stash.
LEMMA HeldIsFound ==
  ASSUME NEW b, NEW H, Holds(b, H), NEW id \in H
  PROVE  Found(b, id)
<1>1. b \in SimType /\ Holding(b.slots, b.position_map, b.stash, H) BY DEF Holds
<1>2. CASE \E n \in Node, s \in BucketSlot : b.slots[n][s] = id
  <2>1. PICK n \in Node, s \in BucketSlot : b.slots[n][s] = id BY <1>2
  <2>2. NotEmpty(id) BY <1>1, EmptyAssumption DEF Holding, NotEmpty
  <2>3. PICK d \in Depth : node_index(d, b.position_map[id]) = n
    BY <1>1, <2>1, <2>2 DEF Holding, TreeLabels
  <2>4. <<d, s>> \in OnPath(b, id, b.position_map[id]) BY <2>1, <2>3 DEF OnPath
  <2> QED BY <2>4 DEF Found
<1>3. CASE \E i \in DOMAIN b.stash : b.stash[i].id = id
  BY <1>3 DEF Found, InStash
<1> QED BY <1>1, <1>2, <1>3 DEF Holding, AllThese

\* remove_from_path and remove_from_stash take one copy out, which is the only
\* one.
LEMMA TakeOutHolds ==
  ASSUME NEW b, NEW H, Holds(b, H), NEW id \in H
  PROVE  /\ Holds(TakeOut(b, id), H \ {id})
         /\ TakeOut(b, id).position_map = b.position_map
<1> DEFINE leaf == b.position_map[id]
           cells == OnPath(b, id, leaf)
<1>1. b \in SimType /\ Holding(b.slots, b.position_map, b.stash, H) BY DEF Holds
<1>2. id \in Id /\ leaf \in Leaf BY <1>1 DEF SimType, Holding
<1>3. CASE cells # {}
  <2> DEFINE depth == Lowest({c[1] : c \in cells})
             slot == Lowest({c[2] : c \in {d \in cells : d[1] = depth}})
             node == node_index(depth, leaf)
  <2>1. depth \in {c[1] : c \in cells}
    <3>1. {c[1] : c \in cells} \subseteq Nat BY ParamsAssumption DEF OnPath, Depth
    <3>2. {c[1] : c \in cells} # {} BY <1>3
    <3> QED BY <3>1, <3>2, LowestIs
  <2>2. slot \in {c[2] : c \in {d \in cells : d[1] = depth}}
    <3> HIDE DEF depth
    <3>1. {c[2] : c \in {d \in cells : d[1] = depth}} \subseteq Nat
      BY ParamsAssumption DEF OnPath, BucketSlot
    <3>2. {c[2] : c \in {d \in cells : d[1] = depth}} # {} BY <2>1
    <3> QED BY <3>1, <3>2, LowestIs
  <2>3. TakeOut(b, id) = [b EXCEPT !.slots = Put(b.slots, node, slot, EMPTY_BLOCK)]
    BY <1>3 DEF TakeOut
  <2> HIDE DEF depth, slot
  <2>4. depth \in Depth /\ slot \in BucketSlot /\ b.slots[node][slot] = id
    BY <2>2 DEF OnPath
  <2>5. node \in Node BY <1>2, <2>4, NodeIndexType
  <2>6. NotEmpty(b.slots[node][slot]) BY <1>2, <2>4, EmptyAssumption DEF NotEmpty
  <2>7. Holding(Put(b.slots, node, slot, EMPTY_BLOCK), b.position_map, b.stash, H \ {id})
    BY <1>1, <2>4, <2>5, <2>6, DropFromTree
  <2>8. TakeOut(b, id) = [slots |-> Put(b.slots, node, slot, EMPTY_BLOCK),
                          position_map |-> b.position_map, stash |-> b.stash]
    BY <1>1, <2>3, SimParts
  <2> QED BY <2>7, <2>8, SimOf
<1>4. CASE cells = {}
  <2> DEFINE i == Lowest(InStash(b, id))
  <2>1. InStash(b, id) # {} BY <1>4, HeldIsFound DEF Found
  <2>2. InStash(b, id) \subseteq Nat BY <1>1, LenProperties DEF InStash, Holding
  <2>3. i \in DOMAIN b.stash /\ b.stash[i].id = id
    <3>1. i \in InStash(b, id) BY <2>1, <2>2, LowestIs
    <3> QED BY <3>1 DEF InStash
  <2>4. TakeOut(b, id) = [b EXCEPT !.stash = swap_remove(b.stash, i)]
    BY <1>4 DEF TakeOut
  <2> HIDE DEF i
  <2>5. Holding(b.slots, b.position_map, swap_remove(b.stash, i), H \ {id})
    BY <1>1, <2>3, DropFromStash
  <2>6. TakeOut(b, id) = [slots |-> b.slots, position_map |-> b.position_map,
                          stash |-> swap_remove(b.stash, i)]
    BY <1>1, <2>4, SimParts
  <2> QED BY <2>5, <2>6, SimOf
<1> QED BY <1>3, <1>4

\* access relabels one block and keeps all of them.
LEMMA AccessHolds ==
  ASSUME NEW b, Holds(b, Id), NEW id \in Id, NEW leaf \in Leaf
  PROVE  Holds(access(b, id, leaf), Id)
<1> DEFINE t == TakeOut(b, id)
           pm == [b.position_map EXCEPT ![id] = leaf]
<1>1. Holds(t, Id \ {id}) /\ t.position_map = b.position_map BY TakeOutHolds
<1>2. access(b, id, leaf)
        = [slots |-> t.slots,
           position_map |-> [t.position_map EXCEPT ![id] = leaf],
           stash |-> Append(t.stash, [id |-> id, leaf |-> leaf])]
  BY DEF access
<1> HIDE DEF t
<1>3. t \in SimType /\ Holding(t.slots, b.position_map, t.stash, Id \ {id})
  BY <1>1 DEF Holds
<1>4. Holding(t.slots, pm, t.stash, Id \ {id}) BY <1>3, Relabel
<1>5. pm[id] = leaf BY <1>3 DEF Holding
<1> HIDE DEF pm
<1>6. Holding(t.slots, pm, Append(t.stash, [id |-> id, leaf |-> leaf]), (Id \ {id}) \cup {id})
  BY <1>4, <1>5, PushOnStash
<1>7. access(b, id, leaf) = [slots |-> t.slots, position_map |-> pm,
                             stash |-> Append(t.stash, [id |-> id, leaf |-> leaf])]
  BY <1>1, <1>2 DEF pm
<1>8. (Id \ {id}) \cup {id} = Id OBVIOUS
<1> QED BY <1>6, <1>7, <1>8, SimOf

\* Moving the block of a slot to the stash keeps all blocks.
LEMMA EmptySlotHolds ==
  ASSUME NEW b, NEW H, Holds(b, H), NEW node \in Node, NEW s \in BucketSlot
  PROVE  Holds(EmptySlot(b, node, s), H)
<1> DEFINE id == b.slots[node][s]
           slots == Put(b.slots, node, s, EMPTY_BLOCK)
           stash == Append(b.stash, [id |-> id, leaf |-> b.position_map[id]])
<1>1. b \in SimType /\ Holding(b.slots, b.position_map, b.stash, H) BY DEF Holds
<1>2. CASE ~NotEmpty(id) BY <1>2 DEF EmptySlot
<1>3. CASE NotEmpty(id)
  <2>1. EmptySlot(b, node, s)
          = [slots |-> slots, position_map |-> b.position_map, stash |-> stash]
    BY <1>3 DEF EmptySlot
  <2>2. id \in H /\ id \in Id BY <1>1, <1>3 DEF Holding, OnlyThese
  <2>3. Holding(slots, b.position_map, b.stash, H \ {id}) BY <1>1, <1>3, DropFromTree
  <2> HIDE DEF id, slots
  <2>4. Holding(slots, b.position_map, stash, (H \ {id}) \cup {id})
    BY <2>2, <2>3, PushOnStash
  <2>5. (H \ {id}) \cup {id} = H BY <2>2
  <2> HIDE DEF stash
  <2> QED BY <2>1, <2>4, <2>5, SimOf
<1> QED BY <1>2, <1>3

\* Filling a slot of a bucket from the stash keeps all blocks.
LEMMA FillSlotHolds ==
  ASSUME NEW b, NEW H, Holds(b, H), NEW depth \in Depth, NEW node \in Node, NEW s \in BucketSlot
  PROVE  Holds(FillSlot(b, depth, node, s), H)
<1> DEFINE eligible == Eligible(b, depth, node)
           i == Lowest(eligible)
           id == b.stash[i].id
           slots == Put(b.slots, node, s, id)
           stash == swap_remove(b.stash, i)
<1>1. b \in SimType /\ Holding(b.slots, b.position_map, b.stash, H) BY DEF Holds
<1>2. CASE NotEmpty(b.slots[node][s]) \/ eligible = {} BY <1>2 DEF FillSlot
<1>3. CASE ~NotEmpty(b.slots[node][s]) /\ eligible # {}
  <2>1. FillSlot(b, depth, node, s)
          = [slots |-> slots, position_map |-> b.position_map, stash |-> stash]
    BY <1>3 DEF FillSlot
  <2>2. eligible \subseteq Nat BY <1>1, LenProperties DEF Eligible, Holding
  <2>3. i \in eligible BY <1>3, <2>2, LowestIs
  <2> HIDE DEF i
  <2>4. i \in DOMAIN b.stash /\ node_index(depth, b.stash[i].leaf) = node
    BY <2>3 DEF Eligible, node_contains_leaf
  <2>5. id \in H /\ id \in Id /\ b.stash[i].leaf = b.position_map[id]
    BY <1>1, <2>4 DEF Holding, OnlyThese, StashLabels
  <2>6. Holding(b.slots, b.position_map, stash, H \ {id}) BY <1>1, <2>4, DropFromStash
  <2> HIDE DEF id, stash
  <2>7. Holding(slots, b.position_map, stash, (H \ {id}) \cup {id})
    BY <1>3, <2>4, <2>5, <2>6, PutInTree
  <2>8. (H \ {id}) \cup {id} = H BY <2>5
  <2> HIDE DEF slots
  <2> QED BY <2>1, <2>7, <2>8, SimOf
<1> QED BY <1>2, <1>3

-----------------------------------------------------------------------------
(* Loops over slots, buckets and blocks.                                   *)

\* The element of a singleton.
LEMMA TheOne == ASSUME NEW x PROVE The({x}) = x
  BY DEF The

\* read_bucket_into_stash, slot by slot.
LEMMA ReadBucketLoop ==
  ASSUME NEW b, NEW H, Holds(b, H), NEW node \in Node
  PROVE  \E f : /\ f[0] = b
                /\ \A k \in 1 .. BucketSize : f[k] = EmptySlot(f[k - 1], node, k)
                /\ \A k \in 0 .. BucketSize : Holds(f[k], H)
                /\ read_bucket_into_stash(b, node) = f[BucketSize]
<1> DEFINE S == {c \in SimType : Holds(c, H)}
           Next1(c, k) == IF k \in 1 .. BucketSize THEN EmptySlot(c, node, k) ELSE c
           round == [x \in Nat \X S |-> Next1(x[2], x[1] + 1)]
           f == CHOOSE f : f = [k \in 0 .. BucketSize |->
                  IF k = 0 THEN b
                  ELSE The({EmptySlot(c, node, k) : c \in {f[k - 1]}})]
<1>1. BucketSize \in Nat BY ParamsAssumption
<1>2. \A c \in S, k \in 1 .. BucketSize : EmptySlot(c, node, k) \in S
  BY EmptySlotHolds DEF Holds, BucketSlot
<1>3. round \in Steps(S)
  <2>1. \A c \in S, k \in Nat : Next1(c, k) \in S BY <1>2
  <2> HIDE DEF Next1, S
  <2> QED BY <2>1 DEF Steps
<1>4. \A k \in 1 .. BucketSize, c \in S : round[<<k - 1, c>>] = EmptySlot(c, node, k)
  <2>1. \A k \in 1 .. BucketSize : k - 1 \in Nat /\ (k - 1) + 1 = k BY <1>1
  <2> HIDE DEF S
  <2> QED BY <2>1
<1>5. b \in S BY DEF Holds
<1>6. PICK g : LoopOf(g, S, b, round, BucketSize)
  <2> HIDE DEF S, round
  <2> QED BY <1>1, <1>3, <1>5, Loop
<1>7. ASSUME NEW k \in 0 .. BucketSize, k # 0, NEW c \in S
      PROVE  The({EmptySlot(e, node, k) : e \in {c}}) = round[<<k - 1, c>>]
  <2>1. k \in 1 .. BucketSize BY <1>1, <1>7
  <2>2. {EmptySlot(e, node, k) : e \in {c}}
          = {EmptySlot(c, node, k)} OBVIOUS
  <2> HIDE DEF round, S
  <2> QED BY <1>4, <2>1, <2>2, TheOne
<1>8. g = [k \in 0 .. BucketSize |->
             IF k = 0 THEN b
             ELSE The({EmptySlot(c, node, k) : c \in {g[k - 1]}})]
  <2>1. \A k \in 0 .. BucketSize : k # 0 => k - 1 \in 0 .. BucketSize BY <1>1
  <2> HIDE DEF round, S
  <2> QED BY <1>6, <1>7, <2>1 DEF LoopOf
<1>9. f = [k \in 0 .. BucketSize |->
             IF k = 0 THEN b
             ELSE The({EmptySlot(c, node, k) : c \in {f[k - 1]}})]
  BY <1>8
<1>10. read_bucket_into_stash(b, node) = f[BucketSize] BY DEF read_bucket_into_stash
<1> HIDE DEF f
<1>11. f[0] = b BY <1>1, <1>9
<1>12. \A k \in 1 .. BucketSize : f[k] = EmptySlot(f[k - 1], node, k)
  <2> TAKE k \in 1 .. BucketSize
  <2>1. k \in 0 .. BucketSize /\ k # 0 BY <1>1
  <2>2. f[k] = The({EmptySlot(c, node, k) : c \in {f[k - 1]}}) BY <1>9, <2>1
  <2>3. {EmptySlot(c, node, k) : c \in {f[k - 1]}}
          = {EmptySlot(f[k - 1], node, k)} OBVIOUS
  <2> QED BY <2>2, <2>3, TheOne
<1>13. \A k \in 0 .. BucketSize : Holds(f[k], H)
  <2> DEFINE P == {k \in Nat : f[k] \in S}
  <2>1. 0 \in P BY <1>5, <1>11
  <2>2. ASSUME NEW k \in 1 .. BucketSize, k - 1 \in P PROVE k \in P
    <3>1. k \in Nat BY <1>1
    <3> HIDE DEF S
    <3> QED BY <1>2, <1>12, <2>2, <3>1
  <2>3. \A k \in 0 .. BucketSize : k \in P
    <3> HIDE DEF P
    <3> QED BY <1>1, <2>1, <2>2, BoundedInduction
  <2> QED BY <2>3
<1> QED BY <1>10, <1>11, <1>12, <1>13

\* write_bucket_from_stash, slot by slot.
LEMMA WriteBucketLoop ==
  ASSUME NEW b, NEW H, Holds(b, H), NEW depth \in Depth, NEW node \in Node
  PROVE  \E f : /\ f[0] = b
                /\ \A k \in 1 .. BucketSize : f[k] = FillSlot(f[k - 1], depth, node, k)
                /\ \A k \in 0 .. BucketSize : Holds(f[k], H)
                /\ write_bucket_from_stash(b, depth, node) = f[BucketSize]
<1> DEFINE S == {c \in SimType : Holds(c, H)}
           Next1(c, k) == IF k \in 1 .. BucketSize THEN FillSlot(c, depth, node, k) ELSE c
           round == [x \in Nat \X S |-> Next1(x[2], x[1] + 1)]
           f == CHOOSE f : f = [k \in 0 .. BucketSize |->
                  IF k = 0 THEN b
                  ELSE The({FillSlot(c, depth, node, k) : c \in {f[k - 1]}})]
<1>1. BucketSize \in Nat BY ParamsAssumption
<1>2. \A c \in S, k \in 1 .. BucketSize : FillSlot(c, depth, node, k) \in S
  BY FillSlotHolds DEF Holds, BucketSlot
<1>3. round \in Steps(S)
  <2>1. \A c \in S, k \in Nat : Next1(c, k) \in S BY <1>2
  <2> HIDE DEF Next1, S
  <2> QED BY <2>1 DEF Steps
<1>4. \A k \in 1 .. BucketSize, c \in S : round[<<k - 1, c>>] = FillSlot(c, depth, node, k)
  <2>1. \A k \in 1 .. BucketSize : k - 1 \in Nat /\ (k - 1) + 1 = k BY <1>1
  <2> HIDE DEF S
  <2> QED BY <2>1
<1>5. b \in S BY DEF Holds
<1>6. PICK g : LoopOf(g, S, b, round, BucketSize)
  <2> HIDE DEF S, round
  <2> QED BY <1>1, <1>3, <1>5, Loop
<1>7. ASSUME NEW k \in 0 .. BucketSize, k # 0, NEW c \in S
      PROVE  The({FillSlot(e, depth, node, k) : e \in {c}}) = round[<<k - 1, c>>]
  <2>1. k \in 1 .. BucketSize BY <1>1, <1>7
  <2>2. {FillSlot(e, depth, node, k) : e \in {c}}
          = {FillSlot(c, depth, node, k)} OBVIOUS
  <2> HIDE DEF round, S
  <2> QED BY <1>4, <2>1, <2>2, TheOne
<1>8. g = [k \in 0 .. BucketSize |->
             IF k = 0 THEN b
             ELSE The({FillSlot(c, depth, node, k) : c \in {g[k - 1]}})]
  <2>1. \A k \in 0 .. BucketSize : k # 0 => k - 1 \in 0 .. BucketSize BY <1>1
  <2> HIDE DEF round, S
  <2> QED BY <1>6, <1>7, <2>1 DEF LoopOf
<1>9. f = [k \in 0 .. BucketSize |->
             IF k = 0 THEN b
             ELSE The({FillSlot(c, depth, node, k) : c \in {f[k - 1]}})]
  BY <1>8
<1>10. write_bucket_from_stash(b, depth, node) = f[BucketSize] BY DEF write_bucket_from_stash
<1> HIDE DEF f
<1>11. f[0] = b BY <1>1, <1>9
<1>12. \A k \in 1 .. BucketSize : f[k] = FillSlot(f[k - 1], depth, node, k)
  <2> TAKE k \in 1 .. BucketSize
  <2>1. k \in 0 .. BucketSize /\ k # 0 BY <1>1
  <2>2. f[k] = The({FillSlot(c, depth, node, k) : c \in {f[k - 1]}}) BY <1>9, <2>1
  <2>3. {FillSlot(c, depth, node, k) : c \in {f[k - 1]}}
          = {FillSlot(f[k - 1], depth, node, k)} OBVIOUS
  <2> QED BY <2>2, <2>3, TheOne
<1>13. \A k \in 0 .. BucketSize : Holds(f[k], H)
  <2> DEFINE P == {k \in Nat : f[k] \in S}
  <2>1. 0 \in P BY <1>5, <1>11
  <2>2. ASSUME NEW k \in 1 .. BucketSize, k - 1 \in P PROVE k \in P
    <3>1. k \in Nat BY <1>1
    <3> HIDE DEF S
    <3> QED BY <1>2, <1>12, <2>2, <3>1
  <2>3. \A k \in 0 .. BucketSize : k \in P
    <3> HIDE DEF P
    <3> QED BY <1>1, <2>1, <2>2, BoundedInduction
  <2> QED BY <2>3
<1> QED BY <1>10, <1>11, <1>12, <1>13

\* Reading a bucket into the stash and filling it again keep all blocks.
LEMMA ReadBucketHolds ==
  ASSUME NEW b, NEW H, Holds(b, H), NEW node \in Node
  PROVE  Holds(read_bucket_into_stash(b, node), H)
<1>1. BucketSize \in 0 .. BucketSize BY ParamsAssumption
<1> QED BY <1>1, ReadBucketLoop

LEMMA WriteBucketHolds ==
  ASSUME NEW b, NEW H, Holds(b, H), NEW depth \in Depth, NEW node \in Node
  PROVE  Holds(write_bucket_from_stash(b, depth, node), H)
<1>1. BucketSize \in 0 .. BucketSize BY ParamsAssumption
<1> QED BY <1>1, WriteBucketLoop

\* read_path_into_stash, bucket by bucket.
LEMMA ReadPathLoop ==
  ASSUME NEW b, NEW H, Holds(b, H), NEW leaf \in Leaf
  PROVE  \E f : /\ f[0] = b
                /\ \A k \in 1 .. height : f[k] = read_bucket_into_stash(f[k - 1], node_index(k - 1, leaf))
                /\ \A k \in 0 .. height : Holds(f[k], H)
                /\ read_path_into_stash(b, leaf) = f[height]
<1> DEFINE S == {c \in SimType : Holds(c, H)}
           Next1(c, k) == IF k \in 1 .. height THEN read_bucket_into_stash(c, node_index(k - 1, leaf)) ELSE c
           round == [x \in Nat \X S |-> Next1(x[2], x[1] + 1)]
           f == CHOOSE f : f = [k \in 0 .. height |->
                  IF k = 0 THEN b
                  ELSE The({read_bucket_into_stash(c, node_index(k - 1, leaf)) : c \in {f[k - 1]}})]
<1>1. height \in Nat BY ParamsAssumption DEF height
<1>2. \A c \in S, k \in 1 .. height : read_bucket_into_stash(c, node_index(k - 1, leaf)) \in S
  <2>1. \A k \in 1 .. height : k - 1 \in Depth BY ParamsAssumption DEF height, Depth
  <2>2. \A k \in 1 .. height : node_index(k - 1, leaf) \in Node BY <2>1, NodeIndexType
  <2> QED BY <2>2, ReadBucketHolds DEF Holds
<1>3. round \in Steps(S)
  <2>1. \A c \in S, k \in Nat : Next1(c, k) \in S BY <1>2
  <2> HIDE DEF Next1, S
  <2> QED BY <2>1 DEF Steps
<1>4. \A k \in 1 .. height, c \in S : round[<<k - 1, c>>] = read_bucket_into_stash(c, node_index(k - 1, leaf))
  <2>1. \A k \in 1 .. height : k - 1 \in Nat /\ (k - 1) + 1 = k BY <1>1
  <2> HIDE DEF S
  <2> QED BY <2>1
<1>5. b \in S BY DEF Holds
<1>6. PICK g : LoopOf(g, S, b, round, height)
  <2> HIDE DEF S, round
  <2> QED BY <1>1, <1>3, <1>5, Loop
<1>7. ASSUME NEW k \in 0 .. height, k # 0, NEW c \in S
      PROVE  The({read_bucket_into_stash(e, node_index(k - 1, leaf)) : e \in {c}}) = round[<<k - 1, c>>]
  <2>1. k \in 1 .. height BY <1>1, <1>7
  <2>2. {read_bucket_into_stash(e, node_index(k - 1, leaf)) : e \in {c}}
          = {read_bucket_into_stash(c, node_index(k - 1, leaf))} OBVIOUS
  <2> HIDE DEF round, S
  <2> QED BY <1>4, <2>1, <2>2, TheOne
<1>8. g = [k \in 0 .. height |->
             IF k = 0 THEN b
             ELSE The({read_bucket_into_stash(c, node_index(k - 1, leaf)) : c \in {g[k - 1]}})]
  <2>1. \A k \in 0 .. height : k # 0 => k - 1 \in 0 .. height BY <1>1
  <2> HIDE DEF round, S
  <2> QED BY <1>6, <1>7, <2>1 DEF LoopOf
<1>9. f = [k \in 0 .. height |->
             IF k = 0 THEN b
             ELSE The({read_bucket_into_stash(c, node_index(k - 1, leaf)) : c \in {f[k - 1]}})]
  BY <1>8
<1>10. read_path_into_stash(b, leaf) = f[height] BY DEF read_path_into_stash
<1> HIDE DEF f
<1>11. f[0] = b BY <1>1, <1>9
<1>12. \A k \in 1 .. height : f[k] = read_bucket_into_stash(f[k - 1], node_index(k - 1, leaf))
  <2> TAKE k \in 1 .. height
  <2>1. k \in 0 .. height /\ k # 0 BY <1>1
  <2>2. f[k] = The({read_bucket_into_stash(c, node_index(k - 1, leaf)) : c \in {f[k - 1]}}) BY <1>9, <2>1
  <2>3. {read_bucket_into_stash(c, node_index(k - 1, leaf)) : c \in {f[k - 1]}}
          = {read_bucket_into_stash(f[k - 1], node_index(k - 1, leaf))} OBVIOUS
  <2> QED BY <2>2, <2>3, TheOne
<1>13. \A k \in 0 .. height : Holds(f[k], H)
  <2> DEFINE P == {k \in Nat : f[k] \in S}
  <2>1. 0 \in P BY <1>5, <1>11
  <2>2. ASSUME NEW k \in 1 .. height, k - 1 \in P PROVE k \in P
    <3>1. k \in Nat BY <1>1
    <3> HIDE DEF S
    <3> QED BY <1>2, <1>12, <2>2, <3>1
  <2>3. \A k \in 0 .. height : k \in P
    <3> HIDE DEF P
    <3> QED BY <1>1, <2>1, <2>2, BoundedInduction
  <2> QED BY <2>3
<1> QED BY <1>10, <1>11, <1>12, <1>13

\* write_path_from_stash, bucket by bucket.
LEMMA WritePathLoop ==
  ASSUME NEW b, NEW H, Holds(b, H), NEW leaf \in Leaf
  PROVE  \E f : /\ f[0] = b
                /\ \A k \in 1 .. height : f[k] = write_bucket_from_stash(f[k - 1], height - k, node_index(height - k, leaf))
                /\ \A k \in 0 .. height : Holds(f[k], H)
                /\ write_path_from_stash(b, leaf) = f[height]
<1> DEFINE S == {c \in SimType : Holds(c, H)}
           Next1(c, k) == IF k \in 1 .. height THEN write_bucket_from_stash(c, height - k, node_index(height - k, leaf)) ELSE c
           round == [x \in Nat \X S |-> Next1(x[2], x[1] + 1)]
           f == CHOOSE f : f = [k \in 0 .. height |->
                  IF k = 0 THEN b
                  ELSE The({write_bucket_from_stash(c, height - k, node_index(height - k, leaf)) : c \in {f[k - 1]}})]
<1>1. height \in Nat BY ParamsAssumption DEF height
<1>2. \A c \in S, k \in 1 .. height : write_bucket_from_stash(c, height - k, node_index(height - k, leaf)) \in S
  <2>1. \A k \in 1 .. height : height - k \in Depth BY ParamsAssumption DEF height, Depth
  <2>2. \A k \in 1 .. height : node_index(height - k, leaf) \in Node BY <2>1, NodeIndexType
  <2> QED BY <2>1, <2>2, WriteBucketHolds DEF Holds
<1>3. round \in Steps(S)
  <2>1. \A c \in S, k \in Nat : Next1(c, k) \in S BY <1>2
  <2> HIDE DEF Next1, S
  <2> QED BY <2>1 DEF Steps
<1>4. \A k \in 1 .. height, c \in S : round[<<k - 1, c>>] = write_bucket_from_stash(c, height - k, node_index(height - k, leaf))
  <2>1. \A k \in 1 .. height : k - 1 \in Nat /\ (k - 1) + 1 = k BY <1>1
  <2> HIDE DEF S
  <2> QED BY <2>1
<1>5. b \in S BY DEF Holds
<1>6. PICK g : LoopOf(g, S, b, round, height)
  <2> HIDE DEF S, round
  <2> QED BY <1>1, <1>3, <1>5, Loop
<1>7. ASSUME NEW k \in 0 .. height, k # 0, NEW c \in S
      PROVE  The({write_bucket_from_stash(e, height - k, node_index(height - k, leaf)) : e \in {c}}) = round[<<k - 1, c>>]
  <2>1. k \in 1 .. height BY <1>1, <1>7
  <2>2. {write_bucket_from_stash(e, height - k, node_index(height - k, leaf)) : e \in {c}}
          = {write_bucket_from_stash(c, height - k, node_index(height - k, leaf))} OBVIOUS
  <2> HIDE DEF round, S
  <2> QED BY <1>4, <2>1, <2>2, TheOne
<1>8. g = [k \in 0 .. height |->
             IF k = 0 THEN b
             ELSE The({write_bucket_from_stash(c, height - k, node_index(height - k, leaf)) : c \in {g[k - 1]}})]
  <2>1. \A k \in 0 .. height : k # 0 => k - 1 \in 0 .. height BY <1>1
  <2> HIDE DEF round, S
  <2> QED BY <1>6, <1>7, <2>1 DEF LoopOf
<1>9. f = [k \in 0 .. height |->
             IF k = 0 THEN b
             ELSE The({write_bucket_from_stash(c, height - k, node_index(height - k, leaf)) : c \in {f[k - 1]}})]
  BY <1>8
<1>10. write_path_from_stash(b, leaf) = f[height] BY DEF write_path_from_stash
<1> HIDE DEF f
<1>11. f[0] = b BY <1>1, <1>9
<1>12. \A k \in 1 .. height : f[k] = write_bucket_from_stash(f[k - 1], height - k, node_index(height - k, leaf))
  <2> TAKE k \in 1 .. height
  <2>1. k \in 0 .. height /\ k # 0 BY <1>1
  <2>2. f[k] = The({write_bucket_from_stash(c, height - k, node_index(height - k, leaf)) : c \in {f[k - 1]}}) BY <1>9, <2>1
  <2>3. {write_bucket_from_stash(c, height - k, node_index(height - k, leaf)) : c \in {f[k - 1]}}
          = {write_bucket_from_stash(f[k - 1], height - k, node_index(height - k, leaf))} OBVIOUS
  <2> QED BY <2>2, <2>3, TheOne
<1>13. \A k \in 0 .. height : Holds(f[k], H)
  <2> DEFINE P == {k \in Nat : f[k] \in S}
  <2>1. 0 \in P BY <1>5, <1>11
  <2>2. ASSUME NEW k \in 1 .. height, k - 1 \in P PROVE k \in P
    <3>1. k \in Nat BY <1>1
    <3> HIDE DEF S
    <3> QED BY <1>2, <1>12, <2>2, <3>1
  <2>3. \A k \in 0 .. height : k \in P
    <3> HIDE DEF P
    <3> QED BY <1>1, <2>1, <2>2, BoundedInduction
  <2> QED BY <2>3
<1> QED BY <1>10, <1>11, <1>12, <1>13

\* Evicting a path keeps all blocks.
LEMMA EvictPathHolds ==
  ASSUME NEW b, NEW H, Holds(b, H), NEW leaf \in Leaf
  PROVE  /\ Holds(read_path_into_stash(b, leaf), H)
         /\ Holds(evict_path(b, leaf), H)
         /\ evict_path(b, leaf) = write_path_from_stash(read_path_into_stash(b, leaf), leaf)
<1> DEFINE r == read_path_into_stash(b, leaf)
<1>1. height \in 0 .. height BY ParamsAssumption DEF height
<1>2. Holds(r, H) BY <1>1, ReadPathLoop
<1>3. evict_path(b, leaf) = write_path_from_stash(r, leaf)
  <2>1. {write_path_from_stash(c, leaf) : c \in {r}} = {write_path_from_stash(r, leaf)} OBVIOUS
  <2> QED BY <2>1, TheOne DEF evict_path
<1> HIDE DEF r
<1>4. Holds(write_path_from_stash(r, leaf), H) BY <1>1, <1>2, WritePathLoop
<1> QED BY <1>2, <1>3, <1>4 DEF r

\* reshuffle_bucket keeps all blocks.
LEMMA ReshuffleHolds ==
  ASSUME NEW b, NEW H, Holds(b, H), NEW depth \in Depth, NEW node \in Node
  PROVE  Holds(reshuffle_bucket(b, depth, node), H)
<1> DEFINE r == read_bucket_into_stash(b, node)
<1>1. Holds(r, H) BY ReadBucketHolds
<1>2. {write_bucket_from_stash(c, depth, node) : c \in {r}} = {write_bucket_from_stash(r, depth, node)}
  OBVIOUS
<1>3. reshuffle_bucket(b, depth, node) = write_bucket_from_stash(r, depth, node)
  BY <1>2, TheOne DEF reshuffle_bucket
<1> QED BY <1>1, <1>3, WriteBucketHolds

\* A new simulator holds every block: the blocks are placed one by one.
LEMMA NewSimHolds ==
  ASSUME NEW pm \in [Id -> Leaf]
  PROVE  Holds(NewSim(pm), Id)
<1> DEFINE b == [slots |-> [node \in Node |-> EmptyBucket], position_map |-> pm, stash |-> <<>>]
           n == LogicalBlocks
           Fit(c, k) == Holds(c, 0 .. k - 1) /\ c.position_map = pm
           Next1(c, k) == IF k \in 1 .. n /\ Fit(c, k - 1)
                          THEN place_or_stash(c, k - 1, pm[k - 1]) ELSE c
           round == [x \in Nat \X SimType |-> Next1(x[2], x[1] + 1)]
           f == CHOOSE f : f = [k \in 0 .. n |->
                  IF k = 0 THEN b
                  ELSE The({place_or_stash(c, k - 1, pm[k - 1]) : c \in {f[k - 1]}})]
<1>1. n \in Nat /\ Id = 0 .. n - 1 BY ParamsAssumption DEF Id
<1>2. Fit(b, 0)
  <2>1. 0 .. 0 - 1 = {} OBVIOUS
  <2>2. [node \in Node |-> EmptyBucket] \in SimSlots BY DEF SimSlots, EmptyBucket
  <2>3. \A node \in Node, s \in BucketSlot : [m \in Node |-> EmptyBucket][node][s] = EMPTY_BLOCK
    BY DEF EmptyBucket
  <2>4. <<>> \in Seq(StashBlock) /\ DOMAIN <<>> = {} BY EmptySeq, LenProperties
  <2> DEFINE slots == [m \in Node |-> EmptyBucket]
  <2> HIDE DEF slots
  <2>5. Holding(slots, pm, <<>>, {})
    BY <2>2, <2>3, <2>4 DEF Holding, StashLabels, TreeLabels, TreeOnce, StashOnce, NotBoth,
                            OnlyThese, AllThese, NotEmpty, slots
  <2>6. Holds([slots |-> slots, position_map |-> pm, stash |-> <<>>], {}) BY <2>5, SimOf
  <2>7. b.position_map = pm OBVIOUS
  <2> QED BY <2>1, <2>6, <2>7 DEF slots
<1> HIDE DEF b
<1>3. ASSUME NEW c, NEW k \in 1 .. n, Fit(c, k - 1)
      PROVE  Fit(place_or_stash(c, k - 1, pm[k - 1]), k)
  <2>1. k - 1 \in Id /\ k - 1 \notin 0 .. (k - 1) - 1 BY <1>1
  <2>2. (0 .. (k - 1) - 1) \cup {k - 1} = 0 .. k - 1 BY <1>1
  <2> DEFINE id == k - 1
             H == 0 .. id - 1
  <2>3. Holds(c, H) /\ c.position_map = pm BY <1>3
  <2>4. id \in Id /\ id \notin H /\ H \cup {id} = 0 .. k - 1 BY <2>1, <2>2
  <2> HIDE DEF id, H
  <2>5. /\ Holds(place_or_stash(c, id, pm[id]), H \cup {id})
        /\ place_or_stash(c, id, pm[id]).position_map = pm
    BY <2>3, <2>4, PlaceHolds
  <2> QED BY <2>4, <2>5 DEF id
<1>4. round \in Steps(SimType)
  <2>1. \A c \in SimType, k \in Nat : Next1(c, k) \in SimType BY <1>3 DEF Holds
  <2> HIDE DEF Next1
  <2> QED BY <2>1 DEF Steps
<1>5. b \in SimType BY <1>2 DEF Holds
<1>6. PICK g : LoopOf(g, SimType, b, round, n)
  <2> HIDE DEF round
  <2> QED BY <1>1, <1>4, <1>5, Loop
<1>7. \A k \in 1 .. n : g[k] = Next1(g[k - 1], k)
  <2> TAKE k \in 1 .. n
  <2>1. k \in 0 .. n /\ k # 0 /\ k - 1 \in 0 .. n /\ k - 1 \in Nat /\ (k - 1) + 1 = k BY <1>1
  <2>2. g[k] = round[<<k - 1, g[k - 1]>>] /\ g[k - 1] \in SimType
    <3> HIDE DEF round
    <3> QED BY <1>6, <2>1 DEF LoopOf
  <2> HIDE DEF Next1
  <2> QED BY <2>1, <2>2
<1>8. \A k \in 0 .. n : Fit(g[k], k)
  <2> DEFINE P == {k \in Nat : Fit(g[k], k)}
  <2> HIDE DEF Fit
  <2>1. 0 \in P
    <3>1. g[0] = b BY <1>1, <1>6 DEF LoopOf
    <3> QED BY <1>2, <3>1
  <2>2. ASSUME NEW k \in 1 .. n, k - 1 \in P PROVE k \in P
    <3>1. k \in Nat BY <1>1
    <3> QED BY <1>3, <1>7, <2>2, <3>1
  <2>3. \A k \in 0 .. n : k \in P
    <3> HIDE DEF P
    <3> QED BY <1>1, <2>1, <2>2, BoundedInduction
  <2> QED BY <2>3
<1>9. ASSUME NEW k \in 1 .. n
      PROVE  g[k] = The({place_or_stash(c, k - 1, pm[k - 1]) : c \in {g[k - 1]}})
  <2>1. k - 1 \in 0 .. n BY <1>1
  <2> HIDE DEF Fit
  <2>2. g[k] = place_or_stash(g[k - 1], k - 1, pm[k - 1]) BY <1>7, <1>8, <2>1
  <2>3. {place_or_stash(c, k - 1, pm[k - 1]) : c \in {g[k - 1]}}
          = {place_or_stash(g[k - 1], k - 1, pm[k - 1])} OBVIOUS
  <2> QED BY <2>2, <2>3, TheOne
<1>10. g = [k \in 0 .. n |->
              IF k = 0 THEN b
              ELSE The({place_or_stash(c, k - 1, pm[k - 1]) : c \in {g[k - 1]}})]
  <2>1. g[0] = b /\ g = [k \in 0 .. n |-> g[k]] BY <1>1, <1>6 DEF LoopOf
  <2>2. \A k \in 0 .. n : k # 0 => k \in 1 .. n BY <1>1
  <2> QED BY <1>9, <2>1, <2>2
<1>11. f = [k \in 0 .. n |->
              IF k = 0 THEN b
              ELSE The({place_or_stash(c, k - 1, pm[k - 1]) : c \in {f[k - 1]}})]
  BY <1>10
<1>12. NewSim(pm) = f[n] BY DEF NewSim, b
<1> HIDE DEF f, Fit
<1>13. \A k \in 0 .. n : Fit(f[k], k)
  <2> DEFINE P == {k \in Nat : Fit(f[k], k)}
  <2>1. 0 \in P
    <3>1. f[0] = b BY <1>1, <1>11
    <3> QED BY <1>2, <3>1
  <2>2. ASSUME NEW k \in 1 .. n, k - 1 \in P PROVE k \in P
    <3>1. k \in 0 .. n /\ k # 0 /\ k \in Nat BY <1>1
    <3>2. f[k] = The({place_or_stash(c, k - 1, pm[k - 1]) : c \in {f[k - 1]}})
      BY <1>11, <3>1
    <3>3. {place_or_stash(c, k - 1, pm[k - 1]) : c \in {f[k - 1]}}
            = {place_or_stash(f[k - 1], k - 1, pm[k - 1])} OBVIOUS
    <3>4. f[k] = place_or_stash(f[k - 1], k - 1, pm[k - 1]) BY <3>2, <3>3, TheOne
    <3> QED BY <1>3, <2>2, <3>1, <3>4
  <2>3. \A k \in 0 .. n : k \in P
    <3> HIDE DEF P
    <3> QED BY <1>1, <2>1, <2>2, BoundedInduction
  <2> QED BY <2>3
<1>14. Fit(f[n], n) BY <1>1, <1>13
<1> QED BY <1>1, <1>12, <1>14 DEF Fit

-----------------------------------------------------------------------------
(* No block is lost.                                                       *)

\* The two runs keep every block, and the counters that name paths are in range.
HeldInv ==
  /\ Holds(sim, Id)
  /\ issued \in Nat /\ completed \in Nat
  /\ step \in Nat /\ ring_evictions \in Nat
  /\ scan \in SUBSET Depth /\ read_leaf \in Leaf

\* What an access of the circuit run or of the ring run may ask for is a block.
LEMMA NextIdIsBlock ==
  ASSUME NEW op \in Nat, NEW id \in next_logical_id(op) PROVE id \in Id
<1>1. op % LogicalBlocks \in 0 .. LogicalBlocks - 1 BY ParamsAssumption
<1> QED BY <1>1 DEF next_logical_id, Id

LEMMA ScanMax ==
  ASSUME NEW S \in SUBSET Depth, S # {} PROVE Max(S) \in S
<1>1. S \subseteq 0 .. LeafBits /\ LeafBits \in Nat /\ S \subseteq Nat
  BY ParamsAssumption DEF Depth
<1>2. PICK x \in S : \A y \in S : y <= x BY <1>1, GreatestNatural
<1>3. \A y \in S : x >= y BY <1>1, <1>2
<1> QED BY <1>3 DEF Max

LEMMA HeldInit == RunsInit => HeldInv
<1> SUFFICES ASSUME RunsInit PROVE HeldInv OBVIOUS
<1>1. sim \in NewSims BY DEF RunsInit, StressInit, RingInit
<1>2. PICK pm \in [Id -> Leaf] : sim = NewSim(pm) BY <1>1 DEF NewSims
<1>3. Holds(sim, Id) BY <1>2, NewSimHolds
<1>4. 0 \in Leaf BY LeavesType DEF Leaf
<1> QED BY <1>3, <1>4 DEF RunsInit, StressInit, RingInit, HeldInv

\* One access, eviction or end of a stage of stress_circuit.
LEMMA HeldCircuit == HeldInv /\ circuit_step => HeldInv'
<1> SUFFICES ASSUME HeldInv, circuit_step PROVE HeldInv' OBVIOUS
<1>0. /\ scan' = scan /\ read_leaf' = read_leaf /\ step' = step
      /\ ring_evictions' = ring_evictions
  BY DEF circuit_step, ringOnly
<1>1. CASE Access
  <2>1. PICK id \in next_logical_id(issued), leaf \in Leaf :
          IF Found(sim, id)
          THEN sim' = access(sim, id, leaf) /\ issued' = issued + 1
          ELSE UNCHANGED <<sim, issued>>
    BY <1>1 DEF Access
  <2>2. id \in Id BY <2>1, NextIdIsBlock DEF HeldInv
  <2>3. Holds(access(sim, id, leaf), Id) BY <2>2, AccessHolds DEF HeldInv
  <2>4. Holds(sim', Id) /\ issued' \in Nat
    <3>1. CASE Found(sim, id) BY <2>1, <2>3, <3>1 DEF HeldInv
    <3>2. CASE ~Found(sim, id) BY <2>1, <3>2 DEF HeldInv
    <3> QED BY <3>1, <3>2
  <2>5. completed' = completed BY <1>1 DEF Access
  <2> QED BY <1>0, <2>4, <2>5 DEF HeldInv
<1>2. CASE EvictOne
  <2>1. /\ sim' = evict_path(sim, eviction_leaf_at(completed))
        /\ completed' = completed + 1 /\ issued' = issued
    BY <1>2 DEF EvictOne
  <2>2. eviction_leaf_at(completed) \in Leaf BY EvictionLeafType DEF HeldInv
  <2>3. Holds(sim', Id) BY <2>1, <2>2, EvictPathHolds DEF HeldInv
  <2> QED BY <1>0, <2>1, <2>3 DEF HeldInv
<1>3. CASE EndDrain \/ EndBurst \/ EndStep
  <2>1. sim' = sim /\ issued' = issued /\ completed' = completed
    BY <1>3 DEF EndDrain, EndBurst, EndStep
  <2> QED BY <1>0, <2>1 DEF HeldInv
<1> QED BY <1>1, <1>2, <1>3 DEF circuit_step, StressNext

\* One access with its eviction, or one bucket of the scan, of stress_ring.
LEMMA HeldRing == HeldInv /\ ring_step => HeldInv'
<1> SUFFICES ASSUME HeldInv, ring_step PROVE HeldInv' OBVIOUS
<1>0. issued' = issued /\ completed' = completed BY DEF ring_step, circuitOnly
<1>1. CASE RingAccess
  <2>1. PICK id \in next_logical_id(step), leaf \in Leaf :
          /\ read_leaf' = sim.position_map[id]
          /\ \E accessed \in {access(sim, id, leaf)}, counters \in {CountReads(read_leaf')} :
               IF EvictionDue
               THEN /\ sim' = AfterEvictPath(accessed, counters,
                                             eviction_leaf_at(ring_evictions)).sim
                    /\ ring_evictions' = ring_evictions + 1
               ELSE sim' = accessed /\ UNCHANGED ring_evictions
    BY <1>1 DEF RingAccess
  <2>2. id \in Id BY <2>1, NextIdIsBlock DEF HeldInv
  <2>3. read_leaf' \in Leaf BY <2>1, <2>2 DEF HeldInv, Holds, SimType
  <2> DEFINE a == access(sim, id, leaf)
             p == eviction_leaf_at(ring_evictions)
  <2>4. Holds(a, Id) BY <2>2, AccessHolds DEF HeldInv
  <2>5. p \in Leaf BY EvictionLeafType DEF HeldInv
  <2>6. /\ sim' = a \/ sim' = evict_path(a, p)
        /\ ring_evictions' \in {ring_evictions, ring_evictions + 1}
    BY <2>1 DEF AfterEvictPath
  <2> HIDE DEF a, p
  <2>7. Holds(sim', Id) BY <2>4, <2>5, <2>6, EvictPathHolds
  <2>8. scan' = Depth /\ step' = step + 1 BY <1>1 DEF RingAccess
  <2>9. ring_evictions' \in Nat BY <2>6 DEF HeldInv
  <2> QED BY <1>0, <2>3, <2>7, <2>8, <2>9 DEF HeldInv
<1>2. CASE EarlyReshuffle
  <2> DEFINE depth == Max(scan)
             node == node_index(depth, read_leaf)
  <2>1. /\ scan # {} /\ scan' = scan \ {depth}
        /\ sim' = sim \/ sim' = reshuffle_bucket(sim, depth, node)
        /\ UNCHANGED <<ring_evictions, step, read_leaf>>
    BY <1>2 DEF EarlyReshuffle
  <2>2. depth \in Depth BY <2>1, ScanMax DEF HeldInv
  <2> HIDE DEF depth
  <2>3. node \in Node BY <2>2, NodeIndexType DEF HeldInv
  <2>4. Holds(reshuffle_bucket(sim, depth, node), Id) BY <2>2, <2>3, ReshuffleHolds DEF HeldInv
  <2>5. Holds(sim', Id) BY <2>1, <2>4 DEF HeldInv
  <2> QED BY <1>0, <2>1, <2>5 DEF HeldInv
<1> QED BY <1>1, <1>2 DEF ring_step, RingNext

\* A simulator that holds every block has each of them in exactly one place.
LEMMA HeldMeansOnPath ==
  ASSUME NEW b, Holds(b, Id) PROVE EveryBlockOnItsPath(b)
<1>1. b \in SimType /\ Holding(b.slots, b.position_map, b.stash, Id) BY DEF Holds
<1> SUFFICES ASSUME NEW id \in Id
             PROVE  /\ \A i \in InStash(b, id) : b.stash[i].leaf = b.position_map[id]
                    /\ LET cells == {cell \in Node \X BucketSlot : b.slots[cell[1]][cell[2]] = id}
                       IN \/ /\ InStash(b, id) = {}
                             /\ \E cell \in cells :
                                  /\ cells = {cell}
                                  /\ \E depth \in Depth :
                                       node_contains_leaf(depth, cell[1], b.position_map[id])
                          \/ cells = {} /\ \E i \in InStash(b, id) : InStash(b, id) = {i}
  BY DEF EveryBlockOnItsPath
<1> DEFINE cells == {cell \in Node \X BucketSlot : b.slots[cell[1]][cell[2]] = id}
<1>2. \A i \in InStash(b, id) : b.stash[i].leaf = b.position_map[id]
  BY <1>1 DEF Holding, StashLabels, InStash
<1>3. NotEmpty(id) BY EmptyAssumption DEF NotEmpty
<1>4. CASE \E n \in Node, s \in BucketSlot : b.slots[n][s] = id
  <2>1. PICK n \in Node, s \in BucketSlot : b.slots[n][s] = id BY <1>4
  <2>2. InStash(b, id) = {} BY <1>1, <2>1 DEF Holding, NotBoth, InStash
  <2>3. <<n, s>> \in cells BY <2>1
  <2>4. cells = {<<n, s>>} BY <1>1, <1>3, <2>1 DEF Holding, TreeOnce
  <2>5. \E depth \in Depth : node_contains_leaf(depth, n, b.position_map[id])
    BY <1>1, <1>3, <2>1 DEF Holding, TreeLabels, node_contains_leaf
  <2>6. <<n, s>>[1] = n OBVIOUS
  <2>7. \E cell \in cells :
          /\ cells = {cell}
          /\ \E depth \in Depth : node_contains_leaf(depth, cell[1], b.position_map[id])
    <3> HIDE DEF cells
    <3> QED BY <2>3, <2>4, <2>5, <2>6
  <2> QED BY <1>2, <2>2, <2>7
<1>5. CASE ~\E n \in Node, s \in BucketSlot : b.slots[n][s] = id
  <2>1. cells = {} BY <1>5
  <2>2. PICK i \in DOMAIN b.stash : b.stash[i].id = id
    BY <1>1, <1>5 DEF Holding, AllThese
  <2>3. i \in InStash(b, id) /\ InStash(b, id) = {i}
    BY <1>1, <2>2 DEF Holding, StashOnce, InStash
  <2> QED BY <1>2, <2>1, <2>3
<1> QED BY <1>4, <1>5

\* The stash and the tree of both simulators keep every block exactly once, on
\* the path of its label or in the stash, whatever the run's options: no access
\* of a stress run fails with BlockNotFound.
THEOREM StressKeepsEveryBlock == RunsSpec => []NoBlockIsLost
<1>1. RunsInit => HeldInv BY HeldInit
<1>2. HeldInv /\ [circuit_step \/ ring_step]_runVars => HeldInv'
  <2>1. HeldInv /\ UNCHANGED runVars => HeldInv'
    BY DEF HeldInv, runVars, stressVars, ringOnly
  <2> QED BY <2>1, HeldCircuit, HeldRing
<1>3. HeldInv => NoBlockIsLost BY HeldMeansOnPath DEF HeldInv, NoBlockIsLost
<1> QED BY <1>1, <1>2, <1>3, PTL DEF RunsSpec

-----------------------------------------------------------------------------
(* The eviction debt of stress_circuit.                                    *)

CircuitConfig ==
  [pattern : {"random", "round_robin"}, drain_per_access : Drains,
   burst_interval : BurstIntervals, burst_budget : BurstBudgets, max_debt : DebtCaps]

DebtTypes ==
  /\ config \in CircuitConfig
  /\ issued \in Nat /\ completed \in Nat /\ budget \in Nat /\ max_debt \in Nat
  /\ pending_evictions \in Nat
  /\ stage \in {"access", "drain", "burst", "cap", "failed"}

CapKept == config.max_debt # NoCap => max_debt <= config.max_debt

\* A drain that covers its access leaves no debt behind.
PaidEachAccess ==
  config.drain_per_access >= EvictionsPerAccess =>
    /\ max_debt = 0
    /\ stage \in {"access", "burst", "cap"} => pending_evictions = 0
    /\ stage = "drain" => pending_evictions <= budget

\* Debt that one access leaves unpaid.
Unpaid == EvictionsPerAccess - config.drain_per_access

BurstCovers ==
  /\ config.drain_per_access < EvictionsPerAccess
  /\ config.burst_interval # 0
  /\ config.burst_budget >= config.burst_interval * Unpaid

\* Within an interval the debt grows by the unpaid part of each access, and the
\* burst at its end covers the sum.
PaidEachInterval ==
  BurstCovers =>
    /\ stage \in {"access", "cap"} =>
         pending_evictions <= (issued % config.burst_interval) * Unpaid
    /\ stage = "drain" =>
         /\ issued >= 1
         /\ pending_evictions
              <= (((issued - 1) % config.burst_interval) + 1) * Unpaid + budget
    /\ stage = "burst" => issued % config.burst_interval = 0 /\ pending_evictions <= budget

DebtInv == simulator = "circuit" => DebtTypes /\ CapKept /\ PaidEachAccess /\ PaidEachInterval

\* The remainder of the step counter in its interval.
LEMMA NextRemainder ==
  ASSUME NEW i \in Nat, i >= 1, NEW n \in Nat \ {0}
  PROVE  /\ (i - 1) % n \in 0 .. n - 1 /\ i % n \in 0 .. n - 1
         /\ i % n # 0 => i % n = ((i - 1) % n) + 1
         /\ i % n = 0 => ((i - 1) % n) + 1 = n
<1> DEFINE j == i - 1
           q == j \div n
           r == j % n
<1>1. j \in Nat /\ i = j + 1 OBVIOUS
<1>2. r \in 0 .. n - 1 /\ j = n * q + r BY <1>1, DivMod
<1>3. q \in Nat BY <1>1, DivBounds
<1> HIDE DEF q, r
<1>4. CASE r + 1 < n
  <2>1. i = n * q + (r + 1) /\ r + 1 \in 0 .. n - 1 BY <1>1, <1>2, <1>3, <1>4
  <2>2. i % n = r + 1 BY <1>3, <2>1, ModUnique
  <2> QED BY <1>2, <1>4, <2>2 DEF r
<1>5. CASE r + 1 = n
  <2>1. n * (q + 1) = n * q + n BY <1>3
  <2>2. n * q \in Nat BY <1>3
  <2>3. i = n * (q + 1) + 0 BY <1>1, <1>2, <1>5, <2>1, <2>2
  <2>4. i % n = 0 BY <1>3, <2>3, ModUnique
  <2> QED BY <1>2, <1>5, <2>4 DEF r
<1>6. r + 1 < n \/ r + 1 = n BY <1>2
<1> QED BY <1>4, <1>5, <1>6

\* Numbers of a configuration.
LEMMA ConfigNumbers ==
  ASSUME config \in CircuitConfig
  PROVE  /\ config.drain_per_access \in Nat /\ config.burst_interval \in Nat
         /\ config.burst_budget \in Nat
         /\ config.max_debt # NoCap => config.max_debt \in Nat
         /\ EvictionsPerAccess \in Nat /\ Unpaid \in Int
  BY StressAssumption, RateAssumption DEF CircuitConfig, Unpaid

LEMMA DebtInit == RunsInit => DebtInv
<1> SUFFICES ASSUME RunsInit, simulator = "circuit"
             PROVE  DebtTypes /\ CapKept /\ PaidEachAccess /\ PaidEachInterval
  BY DEF DebtInv
<1>1. StressInit BY DEF RunsInit
<1>2. /\ config \in CircuitConfig
      /\ issued = 0 /\ completed = 0 /\ stage = "access" /\ budget = 0 /\ max_debt = 0
  BY <1>1 DEF StressInit, CircuitConfig
<1>3. pending_evictions = 0 BY <1>2, RateAssumption DEF pending_evictions, Debt
<1>4. DebtTypes BY <1>2, <1>3 DEF DebtTypes
<1>5. CapKept /\ PaidEachAccess BY <1>2, <1>3, ConfigNumbers DEF CapKept, PaidEachAccess
<1>6. PaidEachInterval
  <2> SUFFICES ASSUME BurstCovers
               PROVE  pending_evictions <= (issued % config.burst_interval) * Unpaid
    BY <1>2 DEF PaidEachInterval
  <2>1. config.burst_interval \in Nat \ {0} /\ Unpaid \in Int
    BY <1>2, ConfigNumbers DEF BurstCovers
  <2>2. 0 % config.burst_interval = 0 BY <2>1
  <2> QED BY <1>2, <1>3, <2>1, <2>2
<1> QED BY <1>4, <1>5, <1>6

\* The debt after an access and after an eviction.
LEMMA DebtSteps ==
  ASSUME NEW i \in Nat, NEW c \in Nat
  PROVE  /\ Debt(i + 1, c) = Debt(i, c) + EvictionsPerAccess
         /\ Debt(i, c + 1) = Debt(i, c) - 1
  BY RateAssumption DEF Debt

LEMMA DebtAccess ==
  ASSUME simulator = "circuit", DebtTypes, CapKept, PaidEachAccess, PaidEachInterval, Access
  PROVE  DebtTypes' /\ CapKept' /\ PaidEachAccess' /\ PaidEachInterval'
<1>1. /\ stage = "access"
      /\ \/ issued' = issued + 1 /\ stage' = "drain" /\ budget' = config.drain_per_access
         \/ stage' = "failed" /\ issued' = issued /\ budget' = budget
      /\ config' = config /\ completed' = completed /\ max_debt' = max_debt
  BY DEF Access
<1>c. Unpaid' = Unpaid /\ (BurstCovers)' = BurstCovers BY <1>1 DEF Unpaid, BurstCovers
<1>2. CapKept' BY <1>1 DEF CapKept
<1>3. CASE stage' = "failed" /\ issued' = issued /\ budget' = budget
  <2>1. pending_evictions' = pending_evictions BY <1>1, <1>3 DEF pending_evictions, Debt
  <2> QED BY <1>1, <1>2, <1>3, <1>c, <2>1
      DEF DebtTypes, PaidEachAccess, PaidEachInterval
<1>4. CASE issued' = issued + 1 /\ stage' = "drain" /\ budget' = config.drain_per_access
  <2>1. pending_evictions' = pending_evictions + EvictionsPerAccess
    BY <1>1, <1>4, DebtSteps DEF pending_evictions, DebtTypes
  <2>2. /\ config.drain_per_access \in Nat /\ config.burst_interval \in Nat
        /\ EvictionsPerAccess \in Nat /\ Unpaid \in Int
    BY ConfigNumbers DEF DebtTypes
  <2>3. DebtTypes' BY <1>1, <1>4, <2>1, <2>2 DEF DebtTypes
  <2>4. PaidEachAccess' BY <1>1, <1>4, <2>1, <2>2 DEF PaidEachAccess, DebtTypes
  <2>5. PaidEachInterval'
    <3> SUFFICES ASSUME BurstCovers
                 PROVE  /\ issued' >= 1
                        /\ pending_evictions' <= (((issued' - 1) % config.burst_interval) + 1) * Unpaid
                                                 + config.drain_per_access
      BY <1>1, <1>4, <1>c DEF PaidEachInterval
    <3> DEFINE r == issued % config.burst_interval
    <3>1. issued' >= 1 /\ issued' - 1 = issued BY <1>4 DEF DebtTypes
    <3>2. r \in Nat BY <2>2 DEF DebtTypes, BurstCovers
    <3>3. pending_evictions <= r * Unpaid BY <1>1 DEF PaidEachInterval
    <3>4. Unpaid + config.drain_per_access = EvictionsPerAccess BY <2>2 DEF Unpaid
    <3> HIDE DEF r
    <3>5. (r + 1) * Unpaid = r * Unpaid + Unpaid BY <2>2, <3>2
    <3>6. r * Unpaid \in Int BY <2>2, <3>2
    <3>7. pending_evictions' <= (r + 1) * Unpaid + config.drain_per_access
      BY <2>1, <2>2, <3>3, <3>4, <3>5, <3>6 DEF DebtTypes
    <3> QED BY <3>1, <3>7 DEF r
  <2> QED BY <1>2, <2>3, <2>4, <2>5
<1> QED BY <1>1, <1>3, <1>4

LEMMA DebtEvict ==
  ASSUME simulator = "circuit", DebtTypes, CapKept, PaidEachAccess, PaidEachInterval, EvictOne
  PROVE  DebtTypes' /\ CapKept' /\ PaidEachAccess' /\ PaidEachInterval'
<1>1. /\ stage \in {"drain", "burst", "cap"} /\ pending_evictions > 0
      /\ stage # "cap" => budget > 0
      /\ completed' = completed + 1
      /\ budget' = IF stage = "cap" THEN 0 ELSE budget - 1
      /\ UNCHANGED <<config, issued, stage, max_debt>>
  BY DEF EvictOne
<1>c. Unpaid' = Unpaid /\ (BurstCovers)' = BurstCovers BY <1>1 DEF Unpaid, BurstCovers
<1>2. pending_evictions' = pending_evictions - 1
  BY <1>1, DebtSteps DEF pending_evictions, DebtTypes
<1>3. DebtTypes' BY <1>1, <1>2 DEF DebtTypes
<1>4. CapKept' BY <1>1 DEF CapKept
<1>5. PaidEachAccess' BY <1>1, <1>2 DEF PaidEachAccess, DebtTypes
<1>6. PaidEachInterval'
  <2> SUFFICES ASSUME BurstCovers
               PROVE  /\ stage = "cap" =>
                           pending_evictions' <= (issued % config.burst_interval) * Unpaid
                      /\ stage = "drain" =>
                           /\ issued >= 1
                           /\ pending_evictions'
                                <= (((issued - 1) % config.burst_interval) + 1) * Unpaid + budget'
                      /\ stage = "burst" =>
                           issued % config.burst_interval = 0 /\ pending_evictions' <= budget'
    BY <1>1, <1>c DEF PaidEachInterval
  <2>1. /\ config.burst_interval \in Nat \ {0} /\ Unpaid \in Int
    BY ConfigNumbers DEF DebtTypes, BurstCovers
  <2> DEFINE x == (issued % config.burst_interval) * Unpaid
             y == (((issued - 1) % config.burst_interval) + 1) * Unpaid
  <2>2. x \in Int BY <2>1 DEF DebtTypes
  <2>3. issued >= 1 => y \in Int
    <3>1. issued >= 1 => issued - 1 \in Nat BY DEF DebtTypes
    <3> QED BY <2>1, <3>1
  <2>4. /\ stage = "cap" => pending_evictions <= x
        /\ stage = "drain" => issued >= 1 /\ pending_evictions <= y + budget
        /\ stage = "burst" => issued % config.burst_interval = 0 /\ pending_evictions <= budget
    BY DEF PaidEachInterval
  <2> HIDE DEF x, y
  <2>5. stage = "cap" => pending_evictions' <= x
    BY <1>2, <2>2, <2>4 DEF DebtTypes
  <2>6. stage = "drain" => issued >= 1 /\ pending_evictions' <= y + budget'
    BY <1>1, <1>2, <2>3, <2>4 DEF DebtTypes
  <2>7. stage = "burst" =>
          issued % config.burst_interval = 0 /\ pending_evictions' <= budget'
    BY <1>1, <1>2, <2>4 DEF DebtTypes
  <2> QED BY <2>5, <2>6, <2>7 DEF x, y
<1> QED BY <1>3, <1>4, <1>5, <1>6

LEMMA DebtEndOfStage ==
  ASSUME simulator = "circuit", DebtTypes, CapKept, PaidEachAccess, PaidEachInterval,
         EndDrain \/ EndBurst \/ EndStep
  PROVE  DebtTypes' /\ CapKept' /\ PaidEachAccess' /\ PaidEachInterval'
<1>1. config' = config /\ issued' = issued /\ completed' = completed
  BY DEF EndDrain, EndBurst, EndStep
<1>c. /\ Unpaid' = Unpaid /\ (BurstCovers)' = BurstCovers
      /\ pending_evictions' = pending_evictions
  BY <1>1 DEF Unpaid, BurstCovers, pending_evictions, Debt
<1>n. /\ config.drain_per_access \in Nat /\ config.burst_interval \in Nat
      /\ config.burst_budget \in Nat
      /\ config.max_debt # NoCap => config.max_debt \in Nat
      /\ EvictionsPerAccess \in Nat /\ Unpaid \in Int
  BY ConfigNumbers DEF DebtTypes
<1>2. CASE EndDrain
  <2>1. /\ stage = "drain" /\ Drained /\ max_debt' = max_debt
        /\ \/ BurstDue /\ stage' = "burst" /\ budget' = config.burst_budget
           \/ ~BurstDue /\ stage' = "cap" /\ budget' = 0
    BY <1>2 DEF EndDrain
  <2>2. DebtTypes' BY <1>1, <1>c, <1>n, <2>1 DEF DebtTypes
  <2>3. CapKept' BY <1>1, <2>1 DEF CapKept
  <2>4. PaidEachAccess' BY <1>1, <1>c, <2>1 DEF PaidEachAccess, DebtTypes, Drained
  <2>5. PaidEachInterval'
    <3> SUFFICES ASSUME BurstCovers
                 PROVE  /\ stage' = "cap" =>
                             pending_evictions <= (issued % config.burst_interval) * Unpaid
                        /\ stage' = "burst" =>
                             issued % config.burst_interval = 0 /\ pending_evictions <= budget'
      BY <1>1, <1>c, <2>1 DEF PaidEachInterval
    <3> DEFINE n == config.burst_interval
               r == (issued - 1) % n
    <3>1. n \in Nat \ {0} /\ Unpaid \in Nat BY <1>n DEF BurstCovers, Unpaid
    <3>2. issued \in Nat /\ issued >= 1 /\ pending_evictions <= (r + 1) * Unpaid + budget
      BY <2>1 DEF PaidEachInterval, DebtTypes
    <3>3. /\ r \in 0 .. n - 1
          /\ issued % n # 0 => issued % n = r + 1
          /\ issued % n = 0 => r + 1 = n
      <4> HIDE DEF n
      <4> QED BY <3>1, <3>2, NextRemainder
    <3>4. BurstDue <=> issued % n = 0 BY <3>1 DEF BurstDue
    <3>5. n * Unpaid <= config.burst_budget BY <1>n, <3>1 DEF BurstCovers
    <3> DEFINE y == (r + 1) * Unpaid
    <3> HIDE DEF r, n
    <3>6. y \in Nat BY <3>1, <3>3
    <3> HIDE DEF y
    <3>7. pending_evictions <= y
      <4>1. pending_evictions <= y + budget /\ (budget = 0 \/ pending_evictions = 0)
        BY <2>1, <3>2 DEF Drained, y
      <4> QED BY <3>6, <4>1 DEF DebtTypes
    <3>8. CASE BurstDue
      <4>1. stage' = "burst" /\ budget' = config.burst_budget BY <2>1, <3>8
      <4>2. y = n * Unpaid BY <3>3, <3>4, <3>8 DEF y
      <4>3. pending_evictions <= config.burst_budget BY <1>n, <3>5, <3>6, <3>7, <4>2 DEF DebtTypes
      <4> QED BY <3>4, <3>8, <4>1, <4>3 DEF n
    <3>9. CASE ~BurstDue
      <4>1. stage' = "cap" BY <2>1, <3>9
      <4>2. y = (issued % n) * Unpaid BY <3>3, <3>4, <3>9 DEF y
      <4> QED BY <3>7, <4>1, <4>2 DEF n
    <3> QED BY <3>8, <3>9
  <2> QED BY <2>2, <2>3, <2>4, <2>5
<1>3. CASE EndBurst
  <2>1. stage = "burst" /\ Drained /\ max_debt' = max_debt /\ stage' = "cap" /\ budget' = 0
    BY <1>3 DEF EndBurst
  <2>2. DebtTypes' BY <1>1, <1>c, <2>1 DEF DebtTypes
  <2>3. CapKept' BY <1>1, <2>1 DEF CapKept
  <2>4. PaidEachAccess' BY <1>1, <1>c, <2>1 DEF PaidEachAccess
  <2>5. PaidEachInterval'
    <3> SUFFICES ASSUME BurstCovers
                 PROVE  pending_evictions <= (issued % config.burst_interval) * Unpaid
      BY <1>1, <1>c, <2>1 DEF PaidEachInterval
    <3>1. issued % config.burst_interval = 0 /\ pending_evictions <= budget
      BY <2>1 DEF PaidEachInterval
    <3>2. pending_evictions = 0 BY <2>1, <3>1 DEF Drained, DebtTypes
    <3> QED BY <1>n, <3>1, <3>2
  <2> QED BY <2>2, <2>3, <2>4, <2>5
<1>4. CASE EndStep
  <2>1. /\ stage = "cap" /\ stage' = "access" /\ budget' = budget
        /\ config.max_debt # NoCap => pending_evictions <= config.max_debt
        /\ max_debt' = IF pending_evictions > max_debt THEN pending_evictions ELSE max_debt
    BY <1>4 DEF EndStep
  <2>2. DebtTypes' BY <1>1, <1>c, <2>1 DEF DebtTypes
  <2>3. CapKept' BY <1>1, <2>1 DEF CapKept
  <2>4. PaidEachAccess' BY <1>1, <1>c, <2>1 DEF PaidEachAccess, DebtTypes
  <2>5. PaidEachInterval' BY <1>1, <1>c, <2>1 DEF PaidEachInterval
  <2> QED BY <2>2, <2>3, <2>4, <2>5
<1> QED BY <1>2, <1>3, <1>4

\* The invariant gives the three promises about the debt.
LEMMA DebtPromises == DebtInv => DebtStaysPaid
<1> SUFFICES ASSUME simulator = "circuit", stage = "access",
                    DebtTypes, CapKept, PaidEachAccess, PaidEachInterval
             PROVE  /\ config.max_debt # NoCap => max_debt <= config.max_debt
                    /\ config.drain_per_access >= EvictionsPerAccess => max_debt = 0
                    /\ LET unpaid == config.burst_interval * (EvictionsPerAccess - config.drain_per_access)
                       IN /\ config.burst_interval # 0 /\ issued % config.burst_interval = 0
                          /\ config.burst_budget >= unpaid
                          => pending_evictions = 0
  BY DEF DebtInv, DebtStaysPaid, DebtIsPaid
<1>n. /\ config.drain_per_access \in Nat /\ EvictionsPerAccess \in Nat /\ Unpaid \in Int
  BY ConfigNumbers DEF DebtTypes
<1>1. ASSUME config.burst_interval # 0, issued % config.burst_interval = 0,
             config.burst_budget >= config.burst_interval * Unpaid
      PROVE  pending_evictions = 0
  <2>1. CASE config.drain_per_access >= EvictionsPerAccess
    BY <2>1 DEF PaidEachAccess
  <2>2. CASE config.drain_per_access < EvictionsPerAccess
    <3>1. BurstCovers BY <1>1, <2>2 DEF BurstCovers
    <3>2. pending_evictions <= (issued % config.burst_interval) * Unpaid
      BY <3>1 DEF PaidEachInterval
    <3>3. pending_evictions <= 0 BY <1>1, <1>n, <3>2
    <3> QED BY <3>3 DEF DebtTypes
  <2> QED BY <1>n, <2>1, <2>2
<1> QED BY <1>1 DEF CapKept, PaidEachAccess, Unpaid

\* Whatever the options of stress_circuit: between two accesses the recorded debt
\* is within the cap, zero when each access is paid for at once, and zero after
\* a burst large enough for its interval.
THEOREM StressDebtStaysPaid == RunsSpec => []DebtStaysPaid
<1>1. RunsInit => DebtInv BY DebtInit
<1>2. DebtInv /\ [circuit_step \/ ring_step]_runVars => DebtInv'
  <2> SUFFICES ASSUME DebtInv, [circuit_step \/ ring_step]_runVars, simulator' = "circuit"
               PROVE  DebtTypes' /\ CapKept' /\ PaidEachAccess' /\ PaidEachInterval'
    BY DEF DebtInv
  <2>1. simulator = "circuit" /\ (StressNext \/ UNCHANGED runVars)
    BY DEF circuit_step, ring_step, runVars
  <2>2. DebtTypes /\ CapKept /\ PaidEachAccess /\ PaidEachInterval BY <2>1 DEF DebtInv
  <2>3. CASE UNCHANGED runVars
    <3>1. UNCHANGED <<config, issued, completed, stage, budget, max_debt>>
      BY <2>3 DEF runVars, stressVars
    <3> QED BY <2>2, <3>1 DEF DebtTypes, CapKept, PaidEachAccess, PaidEachInterval,
                              BurstCovers, Unpaid, pending_evictions, Debt
  <2>4. CASE StressNext
    BY <2>1, <2>2, <2>4, DebtAccess, DebtEvict, DebtEndOfStage DEF StressNext
  <2> QED BY <2>1, <2>3, <2>4
<1>3. DebtInv => DebtStaysPaid BY DebtPromises
<1> QED BY <1>1, <1>2, <1>3, PTL DEF RunsSpec

-----------------------------------------------------------------------------
(* The reserved dummies of stress_ring.                                    *)

\* A bucket whose dummies are used up is still ahead of the reshuffle scan.
DummyInv ==
  simulator = "ring" =>
    /\ config.dummy_slots \in Nat \ {0}
    /\ read_counters \in [Node -> Nat]
    /\ max_read_counter \in Nat /\ max_read_counter <= config.dummy_slots
    /\ \A node \in Node :
         \/ read_counters[node] < config.dummy_slots
         \/ /\ read_counters[node] = config.dummy_slots
            /\ \E depth \in scan : node_index(depth, read_leaf) = node

LEMMA DummyInit == RunsInit => DummyInv
<1> SUFFICES ASSUME RunsInit, simulator = "ring" PROVE DummyInv BY DEF DummyInv
<1>1. RingInit BY DEF RunsInit
<1>2. config.dummy_slots \in DummySlots /\ config.dummy_slots > 0
  BY <1>1 DEF RingInit, RingAccepted
<1>3. config.dummy_slots \in Nat \ {0} BY <1>2, RingAssumption
<1> QED BY <1>1, <1>3 DEF RingInit, DummyInv

LEMMA DummyAccess ==
  ASSUME HeldInv, DummyInv, simulator = "ring", simulator' = "ring", RingAccess
  PROVE  DummyInv'
<1> DEFINE d == config.dummy_slots
           now == CountReads(read_leaf')
           top == {max_read_counter} \cup {now[node] : node \in path(read_leaf')}
<1>1. PICK id \in next_logical_id(step), leaf \in Leaf :
        /\ read_leaf' = sim.position_map[id]
        /\ \E accessed \in {access(sim, id, leaf)}, counters \in {CountReads(read_leaf')} :
             /\ max_read_counter' =
                  Max({max_read_counter} \cup {counters[node] : node \in path(read_leaf')})
             /\ \/ /\ read_counters' = AfterEvictPath(accessed, counters,
                                         eviction_leaf_at(ring_evictions)).counters
                \/ read_counters' = counters
  BY DEF RingAccess
<1>2. scan = {} /\ scan' = Depth /\ config' = config BY DEF RingAccess
<1>3. id \in Id /\ read_leaf' \in Leaf
  <2>1. id \in Id BY <1>1, NextIdIsBlock DEF HeldInv
  <2> QED BY <1>1, <2>1 DEF HeldInv, Holds, SimType
<1>4. /\ d \in Nat \ {0} /\ max_read_counter \in Nat /\ max_read_counter <= d
      /\ read_counters \in [Node -> Nat]
      /\ \A node \in Node : read_counters[node] < d
  BY <1>2 DEF DummyInv
<1>5. /\ now \in [Node -> Nat]
      /\ \A node \in Node : /\ now[node] <= d
                            /\ now[node] < d \/ node \in path(read_leaf')
  BY <1>4 DEF CountReads
<1>6. path(read_leaf') \subseteq Node BY <1>3, NodeIndexType DEF path
<1>7. /\ max_read_counter' = Max(top)
      /\ \A node \in Node : read_counters'[node] \in {0, now[node]}
      /\ read_counters' \in [Node -> Nat]
  <2>1. max_read_counter' = Max(top) BY <1>1
  <2>2. \/ read_counters' = [node \in Node |->
               IF node \in path(eviction_leaf_at(ring_evictions)) THEN 0 ELSE now[node]]
        \/ read_counters' = now
    BY <1>1 DEF AfterEvictPath
  <2> HIDE DEF now
  <2> QED BY <1>5, <2>1, <2>2
<1> HIDE DEF now
<1>8. top \subseteq 0 .. d /\ top # {} BY <1>4, <1>5, <1>6
<1> HIDE DEF top
<1>9. Max(top) \in top
  <2>1. PICK x \in top : \A y \in top : y <= x BY <1>4, <1>8, GreatestNatural
  <2>2. \A y \in top : x >= y BY <1>8, <2>1
  <2> QED BY <2>2 DEF Max
<1>10. max_read_counter' \in Nat /\ max_read_counter' <= d
  <2>1. max_read_counter' \in 0 .. d BY <1>7, <1>8, <1>9
  <2> QED BY <1>4, <2>1
<1>11. ASSUME NEW node \in Node
       PROVE  \/ read_counters'[node] < d
              \/ /\ read_counters'[node] = d
                 /\ \E depth \in scan' : node_index(depth, read_leaf') = node
  <2>1. CASE read_counters'[node] = 0 BY <1>4, <2>1
  <2>2. CASE read_counters'[node] = now[node]
    <3>1. CASE now[node] < d BY <2>2, <3>1
    <3>2. CASE ~(now[node] < d)
      <4>1. now[node] \in Nat /\ now[node] <= d BY <1>5
      <4>2. now[node] = d BY <1>4, <3>2, <4>1
      <4>3. node \in path(read_leaf') BY <1>5, <3>2
      <4>4. \E depth \in Depth : node_index(depth, read_leaf') = node BY <4>3 DEF path
      <4> QED BY <1>2, <2>2, <4>2, <4>4
    <3> QED BY <3>1, <3>2
  <2> QED BY <1>7, <2>1, <2>2
<1>12. config'.dummy_slots = d BY <1>2
<1>13. read_counters' \in [Node -> Nat] BY <1>7
<1> HIDE DEF d
<1> QED BY <1>4, <1>10, <1>11, <1>12, <1>13 DEF DummyInv

LEMMA DummyReshuffle ==
  ASSUME HeldInv, DummyInv, simulator = "ring", simulator' = "ring", EarlyReshuffle
  PROVE  DummyInv'
<1> DEFINE d == config.dummy_slots
           depth == Max(scan)
           node == node_index(depth, read_leaf)
<1>1. /\ scan # {} /\ scan' = scan \ {depth}
      /\ IF Exhausted(node) THEN read_counters' = [read_counters EXCEPT ![node] = 0]
         ELSE read_counters' = read_counters
      /\ UNCHANGED <<config, max_read_counter, read_leaf>>
  BY DEF EarlyReshuffle
<1>2. depth \in Depth BY <1>1, ScanMax DEF HeldInv
<1> HIDE DEF depth
<1>3. node \in Node BY <1>2, NodeIndexType DEF HeldInv
<1>4. /\ d \in Nat \ {0} /\ max_read_counter \in Nat /\ max_read_counter <= d
      /\ read_counters \in [Node -> Nat]
  BY DEF DummyInv
<1>5. /\ read_counters' \in [Node -> Nat]
      /\ read_counters'[node] < d
      /\ \A n \in Node : n # node => read_counters'[n] = read_counters[n]
  <2> HIDE DEF node
  <2>1. CASE Exhausted(node) BY <1>1, <1>3, <1>4, <2>1
  <2>2. CASE ~Exhausted(node)
    <3>1. read_counters[node] \in Nat /\ ~(read_counters[node] >= d)
      BY <1>3, <1>4, <2>2 DEF Exhausted
    <3> QED BY <1>1, <1>4, <2>2, <3>1
  <2> QED BY <2>1, <2>2
<1>6. ASSUME NEW n \in Node
      PROVE  \/ read_counters'[n] < d
             \/ /\ read_counters'[n] = d
                /\ \E e \in scan' : node_index(e, read_leaf) = n
  <2>1. CASE n = node BY <1>5, <2>1
  <2>2. CASE n # node
    <3>1. \/ read_counters[n] < d
          \/ read_counters[n] = d /\ \E e \in scan : node_index(e, read_leaf) = n
      BY DEF DummyInv
    <3>2. ASSUME NEW e \in scan, node_index(e, read_leaf) = n PROVE e \in scan'
      BY <1>1, <2>2, <3>2
    <3> QED BY <1>5, <2>2, <3>1, <3>2
  <2> QED BY <2>1, <2>2
<1> QED BY <1>1, <1>4, <1>5, <1>6 DEF DummyInv

\* Ring ORAM's promise, for every number of reserved dummies, every eviction
\* period and every pattern of accesses: no bucket is read more often than it has
\* dummies before it is rewritten, and every access finds a dummy in every bucket.
THEOREM RingDummiesLast == RunsSpec => []DummiesLast
<1> DEFINE Inv == HeldInv /\ DummyInv
<1>1. RunsInit => Inv BY HeldInit, DummyInit
<1>2. Inv /\ [circuit_step \/ ring_step]_runVars => Inv'
  <2> SUFFICES ASSUME HeldInv, DummyInv, [circuit_step \/ ring_step]_runVars
               PROVE  HeldInv' /\ DummyInv'
    OBVIOUS
  <2>1. CASE circuit_step
    <3>1. simulator' # "ring" BY <2>1 DEF circuit_step
    <3>2. DummyInv' BY <3>1 DEF DummyInv
    <3> QED BY <2>1, <3>2, HeldCircuit
  <2>2. CASE ring_step
    <3>1. simulator = "ring" /\ simulator' = "ring" /\ (RingAccess \/ EarlyReshuffle)
      BY <2>2 DEF ring_step, RingNext
    <3> QED BY <2>2, <3>1, HeldRing, DummyAccess, DummyReshuffle
  <2>3. CASE UNCHANGED runVars
    BY <2>3 DEF HeldInv, DummyInv, runVars, stressVars, ringOnly
  <2> QED BY <2>1, <2>2, <2>3
<1>3. Inv => DummiesLast
  BY DEF DummyInv, HeldInv, DummiesLast, DummiesNeverRunOut
<1> QED BY <1>1, <1>2, <1>3, PTL DEF RunsSpec

-----------------------------------------------------------------------------
(* Greedy eviction packs the path it rewrites.                             *)

\* The bucket has no block left.
Cleared(b, node) == \A s \in BucketSlot : b.slots[node][s] = EMPTY_BLOCK

\* c is b after some free slots of the bucket were filled from the stash.
Refilled(b, c, node) ==
  /\ c.position_map = b.position_map
  /\ \A n \in Node \ {node} : c.slots[n] = b.slots[n]
  /\ \A s \in BucketSlot :
       /\ NotEmpty(b.slots[node][s]) => c.slots[node][s] = b.slots[node][s]
       /\ NotEmpty(c.slots[node][s]) =>
            \/ c.slots[node][s] = b.slots[node][s]
            \/ \E i \in DOMAIN b.stash : b.stash[i].id = c.slots[node][s]
  /\ \A j \in DOMAIN c.stash : \E i \in DOMAIN b.stash : c.stash[j] = b.stash[i]

LEMMA RefilledAgain ==
  ASSUME NEW b, NEW c, NEW e, NEW node, Refilled(b, c, node), Refilled(c, e, node)
  PROVE  Refilled(b, e, node)
<1>1. e.position_map = b.position_map BY DEF Refilled
<1>2. \A n \in Node \ {node} : e.slots[n] = b.slots[n] BY DEF Refilled
<1>3. \A j \in DOMAIN e.stash : \E i \in DOMAIN b.stash : e.stash[j] = b.stash[i] BY DEF Refilled
<1>4. ASSUME NEW s \in BucketSlot
      PROVE  /\ NotEmpty(b.slots[node][s]) => e.slots[node][s] = b.slots[node][s]
             /\ NotEmpty(e.slots[node][s]) =>
                  \/ e.slots[node][s] = b.slots[node][s]
                  \/ \E i \in DOMAIN b.stash : b.stash[i].id = e.slots[node][s]
  <2>1. NotEmpty(b.slots[node][s]) => e.slots[node][s] = b.slots[node][s] BY DEF Refilled
  <2>2. ASSUME NotEmpty(e.slots[node][s])
        PROVE  \/ e.slots[node][s] = b.slots[node][s]
               \/ \E i \in DOMAIN b.stash : b.stash[i].id = e.slots[node][s]
    <3>1. CASE e.slots[node][s] = c.slots[node][s] BY <2>2, <3>1 DEF Refilled
    <3>2. CASE \E j \in DOMAIN c.stash : c.stash[j].id = e.slots[node][s] BY <3>2 DEF Refilled
    <3> QED BY <2>2, <3>1, <3>2 DEF Refilled
  <2> QED BY <2>1, <2>2
<1> QED BY <1>1, <1>2, <1>3, <1>4 DEF Refilled

\* Blocks that leave the stash stay eligible nowhere.
LEMMA RefilledEligible ==
  ASSUME NEW b, NEW c, NEW node, Refilled(b, c, node), NEW depth, NEW n,
         Eligible(b, depth, n) = {}
  PROVE  Eligible(c, depth, n) = {}
<1> SUFFICES ASSUME NEW j \in Eligible(c, depth, n) PROVE FALSE OBVIOUS
<1>1. j \in DOMAIN c.stash /\ node_contains_leaf(depth, n, c.stash[j].leaf) BY DEF Eligible
<1>2. PICK i \in DOMAIN b.stash : c.stash[j] = b.stash[i] BY <1>1 DEF Refilled
<1> QED BY <1>1, <1>2 DEF Eligible

\* One slot: filled, or no block of the stash may live in the bucket.
LEMMA FillSlotFills ==
  ASSUME NEW b, NEW H, Holds(b, H), NEW depth \in Depth, NEW node \in Node, NEW s \in BucketSlot
  PROVE  LET c == FillSlot(b, depth, node, s)
         IN /\ Refilled(b, c, node)
            /\ NotEmpty(c.slots[node][s]) \/ Eligible(c, depth, node) = {}
<1> DEFINE c == FillSlot(b, depth, node, s)
           eligible == Eligible(b, depth, node)
           i == Lowest(eligible)
<1>1. b \in SimType /\ Holding(b.slots, b.position_map, b.stash, H) BY DEF Holds
<1>2. CASE NotEmpty(b.slots[node][s]) \/ eligible = {}
  <2>1. c = b BY <1>2 DEF FillSlot
  <2> HIDE DEF c
  <2>2. Refilled(b, c, node) BY <2>1 DEF Refilled
  <2>3. NotEmpty(c.slots[node][s]) \/ Eligible(c, depth, node) = {} BY <1>2, <2>1
  <2> QED BY <2>2, <2>3 DEF c
<1>3. CASE ~NotEmpty(b.slots[node][s]) /\ eligible # {}
  <2>1. c = [slots |-> Put(b.slots, node, s, b.stash[i].id), position_map |-> b.position_map,
             stash |-> swap_remove(b.stash, i)]
    BY <1>3 DEF FillSlot
  <2>2. eligible \subseteq Nat BY <1>1, LenProperties DEF Eligible, Holding
  <2>3. i \in eligible BY <1>3, <2>2, LowestIs
  <2> HIDE DEF i
  <2>4. i \in DOMAIN b.stash BY <2>3 DEF Eligible
  <2>5. b.stash[i].id \in Id BY <1>1, <2>4, StashElements DEF Holding
  <2>6. NotEmpty(b.stash[i].id) BY <2>5, EmptyAssumption DEF NotEmpty
  <2>7. /\ \A n \in Node \ {node} : c.slots[n] = b.slots[n]
        /\ \A t \in BucketSlot :
             c.slots[node][t] = IF t = s THEN b.stash[i].id ELSE b.slots[node][t]
    BY <1>1, <2>1 DEF Holding, SimSlots, Put
  <2>8. \A j \in DOMAIN c.stash : \E k \in DOMAIN b.stash : c.stash[j] = b.stash[k]
    <3>1. c.stash = swap_remove(b.stash, i) BY <2>1
    <3>2. b.stash \in Seq(StashBlock) BY <1>1 DEF Holding
    <3>3. Len(b.stash) \in Nat /\ DOMAIN b.stash = 1 .. Len(b.stash) BY <3>2, LenProperties
    <3>4. DOMAIN c.stash = 1 .. Len(b.stash) - 1
          /\ \A j \in 1 .. Len(b.stash) - 1 :
               c.stash[j] = IF j = i THEN b.stash[Len(b.stash)] ELSE b.stash[j]
      BY <2>4, <3>1, <3>2, SwapRemove
    <3>5. \A j \in 1 .. Len(b.stash) - 1 :
            j \in DOMAIN b.stash /\ Len(b.stash) \in DOMAIN b.stash BY <3>3
    <3> HIDE DEF c
    <3> QED BY <3>4, <3>5
  <2>9. c.position_map = b.position_map BY <2>1
  <2> HIDE DEF c
  <2>10. Refilled(b, c, node)
    BY <1>3, <2>4, <2>7, <2>8, <2>9 DEF Refilled
  <2>11. NotEmpty(c.slots[node][s]) BY <2>6, <2>7
  <2> QED BY <2>10, <2>11 DEF c
<1> QED BY <1>2, <1>3

\* write_bucket_from_stash leaves a free slot only when no block of the stash
\* may live in the bucket.
LEMMA WriteBucketFills ==
  ASSUME NEW b, NEW H, Holds(b, H), NEW depth \in Depth, NEW node \in Node
  PROVE  LET c == write_bucket_from_stash(b, depth, node)
         IN /\ Refilled(b, c, node)
            /\ HasRoom(c, node) => Eligible(c, depth, node) = {}
<1>1. PICK f : /\ f[0] = b
               /\ \A k \in 1 .. BucketSize : f[k] = FillSlot(f[k - 1], depth, node, k)
               /\ \A k \in 0 .. BucketSize : Holds(f[k], H)
               /\ write_bucket_from_stash(b, depth, node) = f[BucketSize]
  BY WriteBucketLoop
<1>0. BucketSize \in Nat /\ BucketSlot = 1 .. BucketSize BY ParamsAssumption DEF BucketSlot
<1> DEFINE Done(k) == /\ Refilled(b, f[k], node)
                      /\ \A s \in 1 .. k : NotEmpty(f[k].slots[node][s])
                                           \/ Eligible(f[k], depth, node) = {}
           P == {k \in Nat : Done(k)}
<1>2. 0 \in P
  <2>1. Refilled(b, b, node) BY DEF Refilled
  <2> QED BY <1>1, <2>1
<1>3. ASSUME NEW k \in 1 .. BucketSize, k - 1 \in P PROVE k \in P
  <2> DEFINE c == f[k - 1]
             e == f[k]
  <2>1. k \in BucketSlot /\ k \in Nat /\ k - 1 \in 0 .. BucketSize BY <1>0
  <2>2. e = FillSlot(c, depth, node, k) /\ Holds(c, H) BY <1>1, <2>1
  <2>3. /\ Refilled(c, e, node)
        /\ NotEmpty(e.slots[node][k]) \/ Eligible(e, depth, node) = {}
    <3> HIDE DEF c, e
    <3> QED BY <2>1, <2>2, FillSlotFills
  <2>4. Refilled(b, c, node) BY <1>3
  <2>5. \A s \in 1 .. k - 1 : NotEmpty(c.slots[node][s]) \/ Eligible(c, depth, node) = {}
    BY <1>3
  <2> HIDE DEF c, e
  <2>6. Refilled(b, e, node) BY <2>3, <2>4, RefilledAgain
  <2>7. ASSUME NEW s \in 1 .. k PROVE NotEmpty(e.slots[node][s]) \/ Eligible(e, depth, node) = {}
    <3>1. CASE s = k BY <2>3, <3>1
    <3>2. CASE s # k
      <4>1. s \in 1 .. k - 1 /\ s \in BucketSlot BY <1>0, <2>1, <3>2
      <4>2. CASE NotEmpty(c.slots[node][s]) BY <2>3, <4>1, <4>2 DEF Refilled
      <4>3. CASE Eligible(c, depth, node) = {} BY <2>3, <4>3, RefilledEligible
      <4> QED BY <2>5, <4>1, <4>2, <4>3
    <3> QED BY <3>1, <3>2
  <2> QED BY <2>1, <2>6, <2>7 DEF e
<1>4. Done(BucketSize)
  <2>1. \A k \in 0 .. BucketSize : k \in P
    <3> HIDE DEF P
    <3> QED BY <1>0, <1>2, <1>3, BoundedInduction
  <2> HIDE DEF Done
  <2> QED BY <1>0, <2>1
<1> DEFINE c == f[BucketSize]
<1>5. HasRoom(c, node) => Eligible(c, depth, node) = {}
  BY <1>0, <1>4 DEF HasRoom, NotEmpty
<1> QED BY <1>1, <1>4, <1>5

\* read_bucket_into_stash clears its bucket and no block enters another.
LEMMA ReadBucketClears ==
  ASSUME NEW b, NEW H, Holds(b, H), NEW node \in Node
  PROVE  LET c == read_bucket_into_stash(b, node)
         IN \A n \in Node : n = node \/ Cleared(b, n) => Cleared(c, n)
<1>1. PICK f : /\ f[0] = b
               /\ \A k \in 1 .. BucketSize : f[k] = EmptySlot(f[k - 1], node, k)
               /\ \A k \in 0 .. BucketSize : Holds(f[k], H)
               /\ read_bucket_into_stash(b, node) = f[BucketSize]
  BY ReadBucketLoop
<1>0. BucketSize \in Nat /\ BucketSlot = 1 .. BucketSize BY ParamsAssumption DEF BucketSlot
<1> DEFINE Done(k) == /\ \A n \in Node : Cleared(b, n) => Cleared(f[k], n)
                      /\ \A s \in 1 .. k : f[k].slots[node][s] = EMPTY_BLOCK
           P == {k \in Nat : Done(k)}
<1>2. 0 \in P BY <1>1
<1>3. ASSUME NEW k \in 1 .. BucketSize, k - 1 \in P PROVE k \in P
  <2> DEFINE c == f[k - 1]
             e == f[k]
  <2>1. k \in BucketSlot /\ k \in Nat /\ k - 1 \in 0 .. BucketSize BY <1>0
  <2>2. e = EmptySlot(c, node, k) /\ Holds(c, H) BY <1>1, <2>1
  <2>3. \A n \in Node, s \in BucketSlot :
          e.slots[n][s] = IF n = node /\ s = k THEN EMPTY_BLOCK ELSE c.slots[n][s]
    <3> HIDE DEF c, e
    <3>1. c.slots \in SimSlots BY <2>2 DEF Holds, Holding
    <3>2. CASE NotEmpty(c.slots[node][k])
      <4>1. e.slots = Put(c.slots, node, k, EMPTY_BLOCK) BY <2>2, <3>2 DEF EmptySlot
      <4> QED BY <2>1, <3>1, <4>1 DEF SimSlots, Put
    <3>3. CASE ~NotEmpty(c.slots[node][k])
      <4>1. e = c BY <2>2, <3>3 DEF EmptySlot
      <4> QED BY <3>3, <4>1 DEF NotEmpty
    <3> QED BY <3>2, <3>3
  <2>4. /\ \A n \in Node : Cleared(b, n) => Cleared(c, n)
        /\ \A s \in 1 .. k - 1 : c.slots[node][s] = EMPTY_BLOCK
    BY <1>3
  <2> HIDE DEF c, e
  <2>5. \A n \in Node : Cleared(b, n) => Cleared(e, n) BY <2>3, <2>4 DEF Cleared
  <2>6. ASSUME NEW s \in 1 .. k PROVE e.slots[node][s] = EMPTY_BLOCK
    <3>1. s \in BucketSlot /\ (s = k \/ s \in 1 .. k - 1) BY <1>0, <2>1
    <3> QED BY <2>3, <2>4, <3>1
  <2> QED BY <2>1, <2>5, <2>6 DEF e
<1>4. Done(BucketSize)
  <2>1. \A k \in 0 .. BucketSize : k \in P
    <3> HIDE DEF P
    <3> QED BY <1>0, <1>2, <1>3, BoundedInduction
  <2> HIDE DEF Done
  <2> QED BY <1>0, <2>1
<1> QED BY <1>0, <1>1, <1>4 DEF Cleared

\* read_path_into_stash clears every bucket of the path.
LEMMA ReadPathClears ==
  ASSUME NEW b, NEW H, Holds(b, H), NEW leaf \in Leaf, NEW depth \in Depth
  PROVE  Cleared(read_path_into_stash(b, leaf), node_index(depth, leaf))
<1>1. PICK f : /\ f[0] = b
               /\ \A k \in 1 .. height : f[k] = read_bucket_into_stash(f[k - 1], node_index(k - 1, leaf))
               /\ \A k \in 0 .. height : Holds(f[k], H)
               /\ read_path_into_stash(b, leaf) = f[height]
  BY ReadPathLoop
<1>0. height \in Nat /\ Depth = 0 .. height - 1 BY ParamsAssumption DEF height, Depth
<1> DEFINE P == {k \in Nat : depth < k => Cleared(f[k], node_index(depth, leaf))}
<1>2. 0 \in P BY <1>0
<1>3. ASSUME NEW k \in 1 .. height, k - 1 \in P PROVE k \in P
  <2> DEFINE c == f[k - 1]
             e == f[k]
             node == node_index(k - 1, leaf)
  <2>1. k \in Nat /\ k - 1 \in Depth /\ k - 1 \in 0 .. height BY <1>0
  <2>2. e = read_bucket_into_stash(c, node) /\ Holds(c, H) BY <1>1, <2>1
  <2>3. node \in Node /\ node_index(depth, leaf) \in Node BY <2>1, NodeIndexType
  <2>4. depth < k - 1 => Cleared(c, node_index(depth, leaf)) BY <1>3
  <2>5. depth < k => depth = k - 1 \/ depth < k - 1 BY <1>0, <2>1
  <2>6. \A n \in Node : n = node \/ Cleared(c, n) => Cleared(e, n)
    <3> HIDE DEF c, e, node
    <3> QED BY <2>2, <2>3, ReadBucketClears
  <2> HIDE DEF c
  <2>7. depth < k => Cleared(e, node_index(depth, leaf))
    <3> HIDE DEF e
    <3> QED BY <2>3, <2>4, <2>5, <2>6
  <2> QED BY <2>1, <2>7
<1>4. \A k \in 0 .. height : k \in P
  <2> HIDE DEF P
  <2> QED BY <1>0, <1>2, <1>3, BoundedInduction
<1>5. height \in P /\ depth < height BY <1>0, <1>4
<1> QED BY <1>1, <1>5

\* The buckets of the path from depth `from` down are packed, the ones above are
\* still clear.
PackedFrom(b, leaf, from) ==
  /\ \A depth \in Depth :
       LET node == node_index(depth, leaf) IN
       /\ depth < from => Cleared(b, node)
       /\ depth >= from /\ HasRoom(b, node) =>
            /\ Eligible(b, depth, node) = {}
            /\ \A above \in Depth, s \in BucketSlot :
                 LET id == b.slots[node_index(above, leaf)][s]
                 IN from <= above /\ above < depth /\ NotEmpty(id)
                    => ~node_contains_leaf(depth, node, b.position_map[id])

\* Filling the next bucket up keeps the buckets below packed.
LEMMA PackOneMore ==
  ASSUME NEW b, NEW H, Holds(b, H), NEW leaf \in Leaf, NEW d \in Depth,
         PackedFrom(b, leaf, d + 1)
  PROVE  PackedFrom(write_bucket_from_stash(b, d, node_index(d, leaf)), leaf, d)
<1> DEFINE node == node_index(d, leaf)
           c == write_bucket_from_stash(b, d, node)
           At(e) == node_index(e, leaf)
<1>0. Depth \subseteq Nat BY ParamsAssumption DEF Depth
<1>1. \A e \in Depth : At(e) \in Node /\ (e # d => At(e) # node)
  BY NodeIndexType, LevelsDisjoint
<1>2. /\ Refilled(b, c, node)
      /\ HasRoom(c, node) => Eligible(c, d, node) = {}
  <2>1. node \in Node BY NodeIndexType
  <2> HIDE DEF node
  <2> QED BY <2>1, WriteBucketFills
<1>3. \A e \in Depth : e # d => c.slots[At(e)] = b.slots[At(e)]
  BY <1>1, <1>2 DEF Refilled
<1>4. c.position_map = b.position_map BY <1>2 DEF Refilled
<1>5. b.stash \in Seq(StashBlock) /\ StashLabels(b.position_map, b.stash)
  BY DEF Holds, Holding
<1> HIDE DEF c
<1>6. ASSUME NEW e \in Depth, e < d PROVE Cleared(c, At(e))
  <2>1. e # d /\ e < d + 1 BY <1>0, <1>6
  <2>2. Cleared(b, At(e)) BY <2>1 DEF PackedFrom
  <2> QED BY <1>3, <2>1, <2>2 DEF Cleared
<1>7. ASSUME NEW e \in Depth, e >= d, HasRoom(c, At(e))
      PROVE  /\ Eligible(c, e, At(e)) = {}
             /\ \A above \in Depth, s \in BucketSlot :
                  LET id == c.slots[At(above)][s]
                  IN d <= above /\ above < e /\ NotEmpty(id)
                     => ~node_contains_leaf(e, At(e), c.position_map[id])
  <2>1. CASE e = d
    <3>1. \A above \in Depth : ~(d <= above /\ above < e) BY <1>0, <2>1
    <3>2. Eligible(c, e, At(e)) = {} BY <1>2, <1>7, <2>1
    <3> QED BY <3>1, <3>2
  <2>2. CASE e # d
    <3>1. e >= d + 1 BY <1>0, <1>7, <2>2
    <3>2. HasRoom(b, At(e)) BY <1>3, <1>7, <2>2 DEF HasRoom
    <3>3. Eligible(b, e, At(e)) = {} BY <3>1, <3>2 DEF PackedFrom
    <3>4. Eligible(c, e, At(e)) = {} BY <1>2, <3>3, RefilledEligible
    <3>5. ASSUME NEW above \in Depth, NEW s \in BucketSlot,
                 d <= above, above < e, NotEmpty(c.slots[At(above)][s])
          PROVE  ~node_contains_leaf(e, At(e), c.position_map[c.slots[At(above)][s]])
      <4> DEFINE id == c.slots[At(above)][s]
      <4>1. CASE above = d
        <5>1. b.slots[node][s] = EMPTY_BLOCK
          <6>1. d < d + 1 BY <1>0
          <6> QED BY <6>1 DEF PackedFrom, Cleared
        <5>2. PICK i \in DOMAIN b.stash : b.stash[i].id = id
          BY <1>2, <3>5, <4>1, <5>1 DEF Refilled, NotEmpty
        <5>3. b.stash[i].leaf = b.position_map[id] BY <1>5, <5>2 DEF StashLabels
        <5> HIDE DEF id
        <5>4. ~node_contains_leaf(e, At(e), b.position_map[id])
          BY <3>3, <5>2, <5>3 DEF Eligible
        <5> QED BY <1>4, <5>4 DEF id
      <4>2. CASE above # d
        <5>1. c.slots[At(above)] = b.slots[At(above)] BY <1>3, <4>2
        <5>2. d + 1 <= above BY <1>0, <3>5, <4>2
        <5> QED BY <1>4, <3>1, <3>2, <3>5, <5>1, <5>2 DEF PackedFrom
      <4> QED BY <4>1, <4>2
    <3> QED BY <3>4, <3>5
  <2> QED BY <2>1, <2>2
<1>8. PackedFrom(c, leaf, d) BY <1>6, <1>7 DEF PackedFrom
<1> QED BY <1>8 DEF c

\* evict_path leaves the path packed.
LEMMA EvictPathPacks ==
  ASSUME NEW b, NEW H, Holds(b, H), NEW leaf \in Leaf
  PROVE  PathIsPacked(evict_path(b, leaf), leaf)
<1> DEFINE r == read_path_into_stash(b, leaf)
<1>0. height \in Nat /\ Depth = 0 .. height - 1 BY ParamsAssumption DEF height, Depth
<1>1. Holds(r, H) /\ evict_path(b, leaf) = write_path_from_stash(r, leaf) BY EvictPathHolds
<1>2. \A depth \in Depth : Cleared(r, node_index(depth, leaf)) BY ReadPathClears
<1> HIDE DEF r
<1>3. PICK f : /\ f[0] = r
               /\ \A k \in 1 .. height :
                    f[k] = write_bucket_from_stash(f[k - 1], height - k, node_index(height - k, leaf))
               /\ \A k \in 0 .. height : Holds(f[k], H)
               /\ write_path_from_stash(r, leaf) = f[height]
  BY <1>1, WritePathLoop
<1> DEFINE P == {k \in Nat : PackedFrom(f[k], leaf, height - k)}
<1>4. 0 \in P
  <2>1. \A depth \in Depth : ~(depth >= height - 0) BY <1>0
  <2>2. PackedFrom(r, leaf, height - 0) BY <1>2, <2>1 DEF PackedFrom
  <2> QED BY <1>3, <2>2
<1>5. ASSUME NEW k \in 1 .. height, k - 1 \in P PROVE k \in P
  <2> DEFINE d == height - k
             c == f[k - 1]
  <2>1. k \in Nat /\ d \in Depth /\ height - (k - 1) = d + 1 /\ k - 1 \in 0 .. height BY <1>0
  <2>2. PackedFrom(c, leaf, d + 1) BY <1>5, <2>1
  <2>3. Holds(c, H) /\ f[k] = write_bucket_from_stash(c, d, node_index(d, leaf)) BY <1>3, <2>1
  <2> HIDE DEF c, d
  <2>4. PackedFrom(f[k], leaf, d) BY <2>1, <2>2, <2>3, PackOneMore
  <2> QED BY <2>1, <2>4 DEF d
<1>6. \A k \in 0 .. height : k \in P
  <2> HIDE DEF P
  <2> QED BY <1>0, <1>4, <1>5, BoundedInduction
<1>7. PackedFrom(f[height], leaf, 0)
  <2>1. height \in P /\ height - height = 0 BY <1>0, <1>6
  <2> QED BY <2>1
<1> DEFINE e == f[height]
<1>8. PathIsPacked(e, leaf)
  <2> HIDE DEF e
  <2> SUFFICES ASSUME NEW depth \in Depth, HasRoom(e, node_index(depth, leaf))
               PROVE  /\ Eligible(e, depth, node_index(depth, leaf)) = {}
                      /\ \A above \in 0 .. depth - 1, s \in BucketSlot :
                           LET id == e.slots[node_index(above, leaf)][s]
                           IN NotEmpty(id)
                              => ~node_contains_leaf(depth, node_index(depth, leaf), e.position_map[id])
    BY DEF PathIsPacked
  <2>1. depth >= 0 BY <1>0
  <2>2. \A above \in 0 .. depth - 1 : above \in Depth /\ 0 <= above /\ above < depth BY <1>0
  <2>3. PackedFrom(e, leaf, 0) BY <1>7 DEF e
  <2> QED BY <2>1, <2>2, <2>3 DEF PackedFrom
<1> QED BY <1>1, <1>3, <1>8

\* Every eviction of stress_circuit, from every state its run reaches, leaves the
\* path it rewrote packed: no free slot that a block of the stash or a block
\* higher up could have taken.
THEOREM StressEvictionsPack == RunsSpec => EvictionsPack
<1>1. RunsInit => HeldInv BY HeldInit
<1>2. HeldInv /\ [circuit_step \/ ring_step]_runVars => HeldInv'
  <2>1. HeldInv /\ UNCHANGED runVars => HeldInv'
    BY DEF HeldInv, runVars, stressVars, ringOnly
  <2> QED BY <2>1, HeldCircuit, HeldRing
<1>3. HeldInv /\ [circuit_step \/ ring_step]_runVars
      => [completed' # completed => PathIsPacked(sim', eviction_leaf_at(completed))]_runVars
  <2> SUFFICES ASSUME HeldInv, [circuit_step \/ ring_step]_runVars, completed' # completed
               PROVE  PathIsPacked(sim', eviction_leaf_at(completed))
    OBVIOUS
  <2>1. EvictOne
    BY DEF circuit_step, ring_step, StressNext, circuitOnly, runVars, stressVars,
           Access, EndDrain, EndBurst, EndStep
  <2>2. sim' = evict_path(sim, eviction_leaf_at(completed)) BY <2>1 DEF EvictOne
  <2>3. eviction_leaf_at(completed) \in Leaf BY EvictionLeafType DEF HeldInv
  <2> QED BY <2>2, <2>3, EvictPathPacks DEF HeldInv
<1> QED BY <1>1, <1>2, <1>3, PTL DEF RunsSpec, EvictionsPack

=============================================================================

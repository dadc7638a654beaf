---------------------------- MODULE TablesProofs ----------------------------
(***************************************************************************)
(* The tables answer what their files hold, for every number of records,   *)
(* bins, slots, hash functions, kicks, items and packings.                 *)
(***************************************************************************)
EXTENDS Tables, InductionLemmas, FiniteSetTheorems

-----------------------------------------------------------------------------
(* Packed blocks and the eviction debt.                                    *)

\* Every item below the total has a block of the image, and the packed block
\* holds it at the place Locate names: locate and the packing loop of the
\* source agree.
LEMMA PackedItem ==
  ASSUME NEW n \in Nat, NEW per_block \in Nat \ {0}, NEW item \in 0 .. n - 1
  PROVE  /\ Locate(per_block, item).block \in 0 .. DivCeil(n, per_block) - 1
         /\ Locate(per_block, item).offset \in 0 .. per_block - 1
         /\ Locate(per_block, item).block * per_block + Locate(per_block, item).offset = item
<1> DEFINE q == item \div per_block
           o == item % per_block
           c == (n + per_block - 1) \div per_block
<1>1. item \in Nat /\ item < n OBVIOUS
<1>2. q \in Nat /\ o \in 0 .. per_block - 1 /\ item = per_block * q + o
  BY <1>1, DivBounds, DivMod
<1>3. q * per_block = per_block * q BY <1>2
<1>4. (item + per_block) \div per_block = q + 1
  <2> HIDE DEF q, o
  <2>1. per_block * (q + 1) = per_block * q + per_block /\ per_block * q \in Nat BY <1>2
  <2>2. item + per_block \in Nat /\ q + 1 \in Nat BY <1>1, <1>2
  <2>3. per_block * (q + 1) <= item + per_block BY <1>2, <2>1
  <2>4. item + per_block < per_block * (q + 1) + per_block BY <1>2, <2>1
  <2> QED BY <2>2, <2>3, <2>4, DivUnique
<1>5. c \in Nat /\ q + 1 <= c
  <2>1. item + per_block \in Nat /\ n + per_block - 1 \in Nat
        /\ item + per_block <= n + per_block - 1
    BY <1>1
  <2>2. (item + per_block) \div per_block <= c BY <2>1, DivMonotone
  <2>3. c \in Nat BY <2>1, DivBounds
  <2> QED BY <1>4, <2>2, <2>3
<1>6. Locate(per_block, item).block = q /\ Locate(per_block, item).offset = o
      /\ DivCeil(n, per_block) = c
  BY DEF Locate, DivCeil
<1> HIDE DEF q, o, c
<1> QED BY <1>2, <1>3, <1>5, <1>6

\* A read of a packed image returns the item of the table that was packed.
LEMMA ReadPacked ==
  ASSUME NEW T, NEW n \in Nat, NEW per_block \in Nat \ {0}, NEW item \in 0 .. n - 1
  PROVE  ItemIn(PackedImage(T, n, per_block), per_block, item) = T[item]
<1> DEFINE b == Locate(per_block, item).block
           o == Locate(per_block, item).offset
<1>1. /\ b \in 0 .. DivCeil(n, per_block) - 1 /\ o \in 0 .. per_block - 1
      /\ b * per_block + o = item
  BY PackedItem
<1> HIDE DEF b, o
<1>2. PackedImage(T, n, per_block)[b] = PackBlock(T, n, per_block, b) BY <1>1 DEF PackedImage
<1>3. PackBlock(T, n, per_block, b)[o] = T[item] BY <1>1 DEF PackBlock
<1> QED BY <1>2, <1>3 DEF ItemIn, b, o

\* The debt one round leaves: what is due beyond the budget, and never less
\* than nothing.
LEMMA DrainedLeaves ==
  ASSUME NEW due \in Nat, NEW budget \in Nat
  PROVE  due - Drained(due, budget) = IF budget <= due THEN due - budget ELSE 0
  BY DEF Drained

\* Draining after each of k accesses leaves the debt that k budgets after all of
\* them leave, whatever the rate and the budget.
LEMMA RoundsAreABatch ==
  ASSUME NEW d \in Nat, NEW budget \in Nat
  PROVE  \A k \in Nat : /\ DebtAfterRounds(d, budget)[k] = DebtAfterBatch(d, budget, k)
                        /\ DebtAfterBatch(d, budget, k) \in Nat
<1> DEFINE Round(x) == (x + EvictionsPerAccess) - Drained(x + EvictionsPerAccess, budget)
           step == [x \in Nat \X Nat |-> Round(x[2])]
           after == CHOOSE after : after = [k \in Nat |->
                      IF k = 0 THEN d ELSE Round(after[k - 1])]
<1>0. EvictionsPerAccess \in Nat BY DebtAssumption
<1>1. DebtAfterRounds(d, budget) = after BY DEF DebtAfterRounds
<1>2. ASSUME NEW x \in Nat
      PROVE  /\ Round(x) \in Nat
             /\ Round(x) = IF budget <= x + EvictionsPerAccess
                           THEN (x + EvictionsPerAccess) - budget ELSE 0
  <2>1. x + EvictionsPerAccess \in Nat BY <1>0
  <2> QED BY <2>1, DrainedLeaves
<1> HIDE DEF Round
<1>3. step \in Steps(Nat) BY <1>2 DEF Steps
<1>4. PICK f : IteratesFrom(f, Nat, d, step)
  <2> HIDE DEF step
  <2> QED BY <1>3, Iteration
<1>5. f = [k \in Nat |-> IF k = 0 THEN d ELSE Round(f[k - 1])]
  <2>1. ASSUME NEW k \in Nat, k # 0 PROVE step[<<k - 1, f[k - 1]>>] = Round(f[k - 1])
    <3>1. k - 1 \in Nat BY <2>1
    <3>2. <<k - 1, f[k - 1]>> \in Nat \X Nat BY <1>4, <3>1 DEF IteratesFrom
    <3> QED BY <3>2
  <2> HIDE DEF step
  <2>2. f = [k \in Nat |-> IF k = 0 THEN d ELSE step[<<k - 1, f[k - 1]>>]]
    BY <1>4, RecursiveFunction
  <2> QED BY <2>1, <2>2
<1>6. after = [k \in Nat |-> IF k = 0 THEN d ELSE Round(after[k - 1])] BY <1>5
<1> HIDE DEF after
<1>7. ASSUME NEW k \in Nat PROVE after[k + 1] = Round(after[k])
  <2>1. k + 1 \in Nat /\ k + 1 # 0 /\ (k + 1) - 1 = k OBVIOUS
  <2> QED BY <1>6, <2>1
<1> DEFINE Due(k) == d + k * EvictionsPerAccess
           Left(k) == IF k * budget <= Due(k) THEN Due(k) - k * budget ELSE 0
<1>8. ASSUME NEW k \in Nat
      PROVE  /\ Due(k) \in Nat /\ k * budget \in Nat
             /\ DebtAfterBatch(d, budget, k) = Left(k) /\ Left(k) \in Nat
  <2>1. k * EvictionsPerAccess \in Nat /\ k * budget \in Nat BY <1>0
  <2>2. Due(k) \in Nat BY <2>1
  <2>3. DebtAfterBatch(d, budget, k) = Due(k) - Drained(Due(k), k * budget)
    BY DEF DebtAfterBatch
  <2> HIDE DEF Due
  <2> QED BY <2>1, <2>2, <2>3, DrainedLeaves
<1> DEFINE P == {k \in Nat : after[k] = Left(k)}
<1>9. 0 \in P
  <2>1. 0 * EvictionsPerAccess = 0 /\ 0 * budget = 0 BY <1>0
  <2> QED BY <1>6, <2>1
<1>10. ASSUME NEW k \in Nat, k \in P PROVE k + 1 \in P
  <2>1. /\ (k + 1) * EvictionsPerAccess = k * EvictionsPerAccess + EvictionsPerAccess
        /\ (k + 1) * budget = k * budget + budget
    BY <1>0
  <2> DEFINE a == k * budget
             e == Due(k)
  <2>2. a \in Nat /\ e \in Nat BY <1>8
  <2>3. Due(k + 1) = e + EvictionsPerAccess
    <3>1. k * EvictionsPerAccess \in Nat BY <1>0
    <3> QED BY <1>0, <2>1, <3>1
  <2>4. after[k] = IF a <= e THEN e - a ELSE 0 BY <1>10
  <2>5. after[k + 1] = Round(after[k]) BY <1>7
  <2>6. Left(k + 1) = IF a + budget <= e + EvictionsPerAccess
                      THEN (e + EvictionsPerAccess) - (a + budget) ELSE 0
    BY <2>1, <2>3
  <2> HIDE DEF a, e, Left
  <2>7. after[k] \in Nat BY <2>2, <2>4
  <2>8. Round(after[k]) = IF budget <= after[k] + EvictionsPerAccess
                          THEN (after[k] + EvictionsPerAccess) - budget ELSE 0
    BY <1>2, <2>7
  <2>9. ASSUME a <= e PROVE after[k + 1] = Left(k + 1)
    BY <1>0, <2>2, <2>4, <2>5, <2>6, <2>8, <2>9
  <2>10. ASSUME ~(a <= e) PROVE after[k + 1] = Left(k + 1)
    \* The rounds paid more than was due, so the budget exceeds the rate.
    <3>1. after[k] = 0 BY <2>4, <2>10
    <3>2. ASSUME budget <= EvictionsPerAccess PROVE FALSE
      <4>1. PICK more \in Nat : EvictionsPerAccess = budget + more
        <5>1. EvictionsPerAccess - budget \in Nat
              /\ EvictionsPerAccess = budget + (EvictionsPerAccess - budget)
          BY <1>0, <3>2
        <5> QED BY <5>1
      <4>2. k * EvictionsPerAccess = k * budget + k * more /\ k * more \in Nat BY <4>1
      <4> QED BY <2>2, <2>10, <4>2 DEF a, e
    <3> QED BY <1>0, <2>2, <2>5, <2>6, <2>8, <2>10, <3>1, <3>2
  <2>11. after[k + 1] = Left(k + 1) BY <2>9, <2>10
  <2> QED BY <2>11
<1>11. \A k \in Nat : k \in P
  <2> HIDE DEF P
  <2> QED BY <1>9, <1>10, SetInduction
<1> QED BY <1>1, <1>8, <1>11

-----------------------------------------------------------------------------
(* The cuckoo placement.                                                   *)

Placements == [Bin -> [Slot -> Record \cup {Empty}]]

\* The bin is one of the record's candidates, all of which were drawn.
CandidateOf(r, b) ==
  /\ Hashed(hash[r])
  /\ \E i \in 1 .. HashFns : CandidateBins(r)[i] = b

Holds(t, r) == \E b \in Bin, s \in Slot : t[b][s] = r

\* Every record in the table is in one of its candidate bins, and only once.
InCandidates(t) ==
  \A b \in Bin, s \in Slot : t[b][s] # Empty => CandidateOf(t[b][s], b)

NoCopies(t) ==
  \A b, c \in Bin, s, u \in Slot : t[b][s] # Empty /\ t[b][s] = t[c][u] => b = c /\ s = u

WellPlaced(t) == t \in Placements /\ InCandidates(t) /\ NoCopies(t)

IndexTypeOK ==
  /\ hash \in [Record -> Hashes]
  /\ bins \in [Hashes -> Seq(Bin)]
  /\ phase \in {"place", "kick", "done", "failed", "open"}
  /\ record_idx \in Nat
  /\ kick \in Nat

\* Where the build stands: the record in hand, and the bin it is kicked into.
Progress ==
  /\ phase = "place" => record_idx < Records /\ current = record_idx
  /\ phase \in {"kick", "failed"} =>
       /\ record_idx < Records
       /\ current \in 0 .. record_idx
       /\ current_bin \in Bin /\ CandidateOf(current, current_bin)
  /\ phase \in {"done", "open"} => record_idx = Records

\* The table holds the records read so far, without the one in hand.
HoldsSettled == \A r \in Record : Holds(placement, r) <=> Settled(r)

BuildInv == IndexTypeOK /\ Progress /\ WellPlaced(placement) /\ HoldsSettled

Write(t, b, s, r) == [t EXCEPT ![b][s] = r]

\* Writing a record that the table lacks into a slot of a candidate bin keeps the
\* table well placed; the record joins it and the slot's old record leaves.
LEMMA WriteSlot ==
  ASSUME NEW t, WellPlaced(t), NEW r \in Record, ~Holds(t, r),
         NEW b \in Bin, NEW s \in Slot, CandidateOf(r, b),
         NEW t2, t2 = Write(t, b, s, r)
  PROVE  /\ WellPlaced(t2)
         /\ \A x \in Record : Holds(t2, x) <=> (x = r \/ (Holds(t, x) /\ x # t[b][s]))
         /\ \A c \in Bin : c # b => t2[c] = t[c]
<1>1. t \in Placements BY DEF WellPlaced
<1> USE DEF Write
<1>2. t2 \in Placements BY <1>1 DEF Placements
<1>3. ASSUME NEW c \in Bin, NEW u \in Slot
      PROVE  t2[c][u] = IF c = b /\ u = s THEN r ELSE t[c][u]
  BY <1>1 DEF Placements
<1>4. ASSUME NEW c \in Bin, c # b PROVE t2[c] = t[c]
  BY <1>1, <1>4 DEF Placements
<1>5. InCandidates(t2) BY <1>3 DEF WellPlaced, InCandidates
<1>6. NoCopies(t2) BY <1>3 DEF WellPlaced, NoCopies, Holds
<1>7. ASSUME NEW x \in Record
      PROVE  Holds(t2, x) <=> (x = r \/ (Holds(t, x) /\ x # t[b][s]))
  <2>1. x # Empty BY IndexAssumption DEF Record, Empty
  <2>2. ASSUME Holds(t2, x), x # r PROVE Holds(t, x) /\ x # t[b][s]
    <3>1. PICK c \in Bin, u \in Slot : t2[c][u] = x BY <2>2 DEF Holds
    <3>2. ~(c = b /\ u = s) /\ t[c][u] = x BY <1>3, <2>2, <3>1
    <3>3. x # t[b][s] BY <2>1, <3>2 DEF WellPlaced, NoCopies
    <3> QED BY <3>2, <3>3 DEF Holds
  <2>3. ASSUME Holds(t, x), x # t[b][s] PROVE Holds(t2, x)
    <3>1. PICK c \in Bin, u \in Slot : t[c][u] = x BY <2>3 DEF Holds
    <3>2. t2[c][u] = x BY <1>3, <2>3, <3>1
    <3> QED BY <3>2 DEF Holds
  <2>4. t2[b][s] = r BY <1>3
  <2>5. Holds(t2, r) BY <2>4 DEF Holds
  <2> QED BY <2>2, <2>3, <2>5
<1> QED BY <1>2, <1>4, <1>5, <1>6, <1>7 DEF WellPlaced

\* CHOOSE of the least member of a set of positions or slots.
LEMMA LeastIs ==
  ASSUME NEW S, S \subseteq Nat, S # {}
  PROVE  Least(S) \in S /\ \A j \in S : Least(S) <= j
  BY LeastNatural DEF Least

\* The candidate bins of a drawn hash are bins.
LEMMA CandidatesAreBins ==
  ASSUME IndexTypeOK, NEW h \in Hashes, Hashed(h), NEW i \in 1 .. HashFns
  PROVE  bins[h][i] \in Bin
<1>1. bins[h] \in Seq(Bin) /\ Len(bins[h]) = HashFns BY DEF IndexTypeOK, Hashed
<1> QED BY <1>1

\* place_in_empty_slot writes a slot that is free in the table looked at.
LEMMA PlaceWritesAFreeSlot ==
  ASSUME IndexTypeOK, placement \in Placements, NEW r \in Record, Hashed(hash[r]),
         NEW except, Open(r, except) # {}, NEW t
  PROVE  \E b \in Bin, s \in Slot :
           /\ b # except /\ CandidateOf(r, b)
           /\ placement[b][s] = Empty
           /\ PlaceInCandidate(t, r, except) = Write(t, b, s, r)
<1> DEFINE i == Least(Open(r, except))
           b == CandidateBins(r)[i]
           s == Least(FreeIn(b))
<1>1. Open(r, except) \subseteq Nat BY IndexAssumption DEF Open
<1>2. i \in Open(r, except) BY <1>1, LeastIs
<1> HIDE DEF i
<1>3. i \in 1 .. HashFns /\ b # except /\ FreeIn(b) # {} BY <1>2 DEF Open
<1>4. hash[r] \in Hashes BY DEF IndexTypeOK
<1>5. b \in Bin BY <1>3, <1>4, CandidatesAreBins DEF CandidateBins
<1>6. FreeIn(b) \subseteq Nat BY IndexAssumption DEF FreeIn, Slot
<1>7. s \in FreeIn(b) BY <1>3, <1>6, LeastIs
<1>8. PlaceInCandidate(t, r, except) = Write(t, b, s, r) BY DEF PlaceInCandidate, Write, i
<1>9. CandidateOf(r, b) BY <1>3 DEF CandidateOf
<1> HIDE DEF b, s
<1>10. s \in Slot /\ placement[b][s] = Empty BY <1>7 DEF FreeIn
<1> QED BY <1>3, <1>5, <1>8, <1>9, <1>10

\* The bin after `bin` in the cyclic order is a candidate bin.
LEMMA AlternateIsACandidate ==
  ASSUME IndexTypeOK, NEW r \in Record, Hashed(hash[r]), NEW bin, NEW k \in Nat
  PROVE  /\ alternate_candidate_bin(r, bin, k) \in Bin
         /\ CandidateOf(r, alternate_candidate_bin(r, bin, k))
<1> DEFINE at == CHOOSE i \in 1 .. HashFns : CandidateBins(r)[i] = bin
<1>1. ASSUME NEW j \in Nat PROVE (j % HashFns) + 1 \in 1 .. HashFns
  BY DivMod, IndexAssumption
<1>2. \E i \in 1 .. HashFns : alternate_candidate_bin(r, bin, k) = CandidateBins(r)[i]
  <2>1. CASE \E i \in 1 .. HashFns : CandidateBins(r)[i] = bin
    <3>1. at \in Nat BY <2>1
    <3>2. alternate_candidate_bin(r, bin, k) = CandidateBins(r)[(at % HashFns) + 1]
      BY <2>1 DEF alternate_candidate_bin
    <3> HIDE DEF at
    <3> QED BY <1>1, <3>1, <3>2
  <2>2. CASE ~ \E i \in 1 .. HashFns : CandidateBins(r)[i] = bin
    <3>1. alternate_candidate_bin(r, bin, k) = CandidateBins(r)[(k % HashFns) + 1]
      BY <2>2 DEF alternate_candidate_bin
    <3> QED BY <1>1, <3>1
  <2> QED BY <2>1, <2>2
<1>3. hash[r] \in Hashes BY DEF IndexTypeOK
<1>4. PICK i \in 1 .. HashFns : alternate_candidate_bin(r, bin, k) = CandidateBins(r)[i] BY <1>2
<1>5. CandidateBins(r)[i] \in Bin BY <1>3, CandidatesAreBins DEF CandidateBins
<1> QED BY <1>4, <1>5 DEF CandidateOf

-----------------------------------------------------------------------------
(* The steps of the build.                                                 *)

\* Init: nothing is placed and no record was read.
LEMMA BuildInit ==
  ASSUME Init PROVE BuildInv
<1> USE IndexAssumption DEF Init
<1>1. IndexTypeOK
  <2>1. bins \in [Hashes -> Seq(Bin)] OBVIOUS
  <2> QED BY <2>1 DEF IndexTypeOK
<1>2. Progress BY DEF Progress
<1>3. \A b \in Bin, s \in Slot : placement[b][s] = Empty OBVIOUS
<1>4. placement \in Placements BY DEF Placements
<1>5. WellPlaced(placement) BY <1>3, <1>4 DEF WellPlaced, InCandidates, NoCopies
<1>6. ASSUME NEW r \in Record PROVE ~Holds(placement, r) /\ ~Settled(r)
  <2>1. r # Empty /\ r \in Nat /\ Records # 0 BY DEF Record, Empty
  <2> QED BY <1>3, <2>1 DEF Holds, Settled
<1> QED BY <1>1, <1>2, <1>5, <1>6 DEF BuildInv, HoldsSettled

\* draw adds to the bins of a hash that has not all of them, so no record in the
\* table is concerned.
LEMMA DrawStep ==
  ASSUME BuildInv, NEW h \in Hashes, NEW bin \in Bin, draw(h, bin)
  PROVE  BuildInv'
<1> USE DEF BuildInv
<1>1. bins' \in [Hashes -> Seq(Bin)]
  <2>1. bins[h] \in Seq(Bin) BY DEF IndexTypeOK
  <2>2. Append(bins[h], bin) \in Seq(Bin) BY <2>1
  <2> QED BY <2>1, <2>2 DEF IndexTypeOK, draw
<1>2. IndexTypeOK' BY <1>1 DEF IndexTypeOK, draw
<1>3. ASSUME NEW r \in Record, NEW b, CandidateOf(r, b) PROVE CandidateOf(r, b)'
  <2>1. hash[r] # h /\ hash[r] \in Hashes
    <3>1. Len(bins[hash[r]]) = HashFns BY <1>3 DEF CandidateOf, Hashed
    <3>2. Len(bins[h]) < HashFns BY DEF draw
    <3> QED BY <3>1, <3>2, IndexAssumption DEF IndexTypeOK
  <2>2. hash' = hash /\ bins'[hash[r]] = bins[hash[r]] BY <2>1 DEF draw, IndexTypeOK
  <2> QED BY <1>3, <2>2 DEF CandidateOf, Hashed, CandidateBins
<1>4. UNCHANGED <<hash, placement, phase, record_idx, current, current_bin>> BY DEF draw
<1>5. WellPlaced(placement)'
  <2>1. ASSUME NEW b \in Bin, NEW s \in Slot, placement[b][s] # Empty
        PROVE  CandidateOf(placement[b][s], b)'
    <3>1. PICK r \in Record : r = placement[b][s] BY <2>1 DEF WellPlaced, Placements
    <3>2. CandidateOf(r, b) BY <2>1, <3>1 DEF WellPlaced, InCandidates
    <3>3. CandidateOf(r, b)' BY <1>3, <3>2
    <3>4. r = placement'[b][s] BY <1>4, <3>1
    <3> QED BY <3>3, <3>4 DEF CandidateOf, Hashed, CandidateBins
  <2> QED BY <1>4, <2>1 DEF WellPlaced, InCandidates, NoCopies, Placements
<1>6. Progress'
  <2>1. ASSUME phase \in {"kick", "failed"} PROVE CandidateOf(current, current_bin)'
    <3>1. PICK r \in Record, b \in Bin : r = current /\ b = current_bin
      BY <2>1, IndexAssumption DEF Progress, Record, IndexTypeOK
    <3>2. CandidateOf(r, b)' BY <1>3, <2>1, <3>1 DEF Progress
    <3> QED BY <1>4, <3>1, <3>2 DEF CandidateOf, Hashed, CandidateBins
  <2> QED BY <1>4, <2>1 DEF Progress
<1>7. HoldsSettled' BY <1>4 DEF HoldsSettled, Holds, Settled
<1> QED BY <1>2, <1>5, <1>6, <1>7

\* A table that is well placed stays so when the bins do not change.
LEMMA WellPlacedKept ==
  ASSUME NEW t, WellPlaced(t), UNCHANGED <<hash, bins>>, placement' = t
  PROVE  WellPlaced(placement)'
  BY DEF WellPlaced, InCandidates, NoCopies, Placements, CandidateOf, Hashed, CandidateBins

\* An insertion ends with every record up to the one read last in the table.
LEMMA PlacedStep ==
  ASSUME BuildInv, phase \in {"place", "kick"}, Placed, UNCHANGED <<hash, bins>>,
         NEW t, WellPlaced(t), placement' = t,
         \A x \in Record : Holds(t, x) <=> x <= record_idx
  PROVE  BuildInv'
<1> USE IndexAssumption DEF BuildInv
<1>1. record_idx \in Nat /\ record_idx < Records BY DEF IndexTypeOK, Progress
<1>2. IndexTypeOK' BY <1>1 DEF IndexTypeOK, Placed
<1>3. WellPlaced(placement)' BY WellPlacedKept
<1>4. Progress' BY <1>1 DEF Progress, Placed
<1>5. HoldsSettled'
  <2>1. ASSUME NEW x \in Record PROVE Holds(t, x) <=> Settled(x)'
    <3>1. x \in Nat /\ x < Records BY DEF Record
    <3>2. CASE record_idx + 1 = Records
      BY <1>1, <3>1, <3>2 DEF Settled, Placed
    <3>3. CASE record_idx + 1 # Records
      BY <1>1, <3>1, <3>3 DEF Settled, Placed
    <3> QED BY <3>2, <3>3
  <2> QED BY <2>1 DEF HoldsSettled, Holds
<1> QED BY <1>2, <1>3, <1>4, <1>5

\* insert_index_record fills a free slot of a candidate bin, or starts to kick.
LEMMA InsertStep ==
  ASSUME BuildInv, insert_index_record
  PROVE  BuildInv'
<1> USE IndexAssumption DEF BuildInv
<1>1. /\ phase = "place" /\ Hashed(hash[current]) /\ UNCHANGED <<hash, bins>>
      /\ current = record_idx /\ current \in Record /\ current \in Nat
  BY DEF insert_index_record, Progress, IndexTypeOK, Record
<1>2. \A x \in Record : Holds(placement, x) <=> x < record_idx
  <2>1. \A x \in Record : x \in Nat BY DEF Record
  <2> QED BY <1>1, <2>1 DEF HoldsSettled, Settled
<1>3. ~Holds(placement, current) BY <1>1, <1>2
<1>4. CASE Open(current, Empty) # {}
  <2>1. PICK b \in Bin, s \in Slot :
          /\ CandidateOf(current, b) /\ placement[b][s] = Empty
          /\ PlaceInCandidate(placement, current, Empty) = Write(placement, b, s, current)
    <3>1. IndexTypeOK /\ placement \in Placements BY DEF WellPlaced
    <3> HIDE DEF BuildInv
    <3> QED BY <1>1, <1>4, <3>1, PlaceWritesAFreeSlot
  <2>2. PICK t : t = Write(placement, b, s, current) OBVIOUS
  <2>3. /\ WellPlaced(t)
        /\ \A x \in Record :
             Holds(t, x) <=> (x = current \/ (Holds(placement, x) /\ x # placement[b][s]))
    <3>1. WellPlaced(placement) OBVIOUS
    <3> HIDE DEF BuildInv
    <3> QED BY <1>1, <1>3, <2>1, <2>2, <3>1, WriteSlot
  <2>4. \A x \in Record : x \in Nat /\ x # Empty BY DEF Record, Empty
  <2>5. \A x \in Record : Holds(t, x) <=> x <= record_idx
    <3>1. placement[b][s] = Empty BY <2>1
    <3>2. record_idx \in Nat BY <1>1
    <3>3. \A x \in Record : Holds(t, x) <=> (x = record_idx \/ x < record_idx)
      BY <1>1, <1>2, <2>3, <2>4, <3>1
    <3> QED BY <2>4, <3>2, <3>3
  <2>6. placement' = t /\ Placed BY <1>4, <2>1, <2>2 DEF insert_index_record
  <2> QED BY <1>1, <2>3, <2>5, <2>6, PlacedStep
<1>5. CASE Open(current, Empty) = {}
  <2>1. /\ phase' = "kick" /\ current_bin' = CandidateBins(current)[1] /\ kick' = 0
        /\ UNCHANGED <<placement, record_idx, current, hash, bins>>
    BY <1>5 DEF insert_index_record
  <2>2. IndexTypeOK' BY <2>1 DEF IndexTypeOK
  <2>3. WellPlaced(placement)' BY <2>1, WellPlacedKept
  <2>4. hash[current] \in Hashes /\ 1 \in 1 .. HashFns BY <1>1 DEF IndexTypeOK
  <2>5. CandidateBins(current)[1] \in Bin BY <1>1, <2>4, CandidatesAreBins DEF CandidateBins
  <2>6. CandidateOf(current, current_bin)'
    BY <1>1, <2>1, <2>4 DEF CandidateOf, Hashed, CandidateBins
  <2>7. Progress' BY <1>1, <2>1, <2>5, <2>6 DEF Progress, IndexTypeOK
  <2>8. HoldsSettled'
    <3>1. \A x \in Record : x \in Nat BY DEF Record
    <3>2. \A x \in Record : Settled(x)' <=> x < record_idx BY <1>1, <2>1, <3>1 DEF Settled
    <3>3. \A x \in Record : Holds(placement, x)' <=> Holds(placement, x) BY <2>1 DEF Holds
    <3> QED BY <1>2, <3>2, <3>3 DEF HoldsSettled
  <2> QED BY <2>2, <2>3, <2>7, <2>8
<1> QED BY <1>4, <1>5

\* kick_out: the record in hand takes the slot of the evicted one, which goes to
\* another of its bins or is the new record in hand.
LEMMA KickStep ==
  ASSUME BuildInv, NEW slot \in Slot, kick_out(slot)
  PROVE  BuildInv'
<1> USE IndexAssumption DEF BuildInv
<1>1. /\ phase = "kick" /\ UNCHANGED <<hash, bins>>
      /\ record_idx \in Nat /\ record_idx < Records /\ kick \in Nat
      /\ current \in 0 .. record_idx /\ current \in Record
      /\ current_bin \in Bin /\ CandidateOf(current, current_bin)
  BY DEF kick_out, Progress, IndexTypeOK, Record
<1>2. \A x \in Record : x \in Nat /\ x # Empty BY DEF Record, Empty
<1>3. \A x \in Record : Holds(placement, x) <=> (x <= record_idx /\ x # current)
  BY <1>1, <1>2 DEF HoldsSettled, Settled
<1>4. PICK evicted, t :
        /\ evicted = placement[current_bin][slot]
        /\ t = Write(placement, current_bin, slot, current)
        /\ IF evicted = Empty
           THEN placement' = t /\ Placed
           ELSE IF Open(evicted, current_bin) # {}
           THEN placement' = PlaceInCandidate(t, evicted, current_bin) /\ Placed
           ELSE /\ placement' = t
                /\ current' = evicted
                /\ current_bin' = alternate_candidate_bin(evicted, current_bin, kick + 1)
                /\ kick' = kick + 1
                /\ UNCHANGED <<phase, record_idx>>
  BY DEF kick_out, Write
<1>5. /\ WellPlaced(t)
      /\ \A x \in Record : Holds(t, x) <=> (x = current \/ (Holds(placement, x) /\ x # evicted))
      /\ \A c \in Bin : c # current_bin => t[c] = placement[c]
  <2>1. WellPlaced(placement) /\ ~Holds(placement, current) BY <1>1, <1>3
  <2>2. t = Write(placement, current_bin, slot, current)
        /\ evicted = placement[current_bin][slot]
    BY <1>4
  <2> HIDE DEF BuildInv
  <2> QED BY <1>1, <2>1, <2>2, WriteSlot
<1>6. CASE evicted = Empty
  <2>1. \A x \in Record : Holds(t, x) <=> x <= record_idx BY <1>1, <1>2, <1>3, <1>5, <1>6
  <2> QED BY <1>1, <1>4, <1>5, <1>6, <2>1, PlacedStep
<1>7. ASSUME evicted # Empty
      PROVE  /\ evicted \in Record /\ Holds(placement, evicted) /\ Hashed(hash[evicted])
             /\ evicted <= record_idx /\ evicted # current
             /\ ~Holds(t, evicted)
  <2>1. evicted \in Record BY <1>1, <1>4, <1>7 DEF WellPlaced, Placements
  <2>2. Holds(placement, evicted) BY <1>1, <1>4 DEF Holds
  <2>3. Hashed(hash[evicted])
    BY <1>1, <1>4, <1>7 DEF WellPlaced, InCandidates, CandidateOf
  <2> QED BY <1>3, <1>5, <2>1, <2>2, <2>3
<1>8. CASE evicted # Empty /\ Open(evicted, current_bin) # {}
  <2>1. PICK b \in Bin, s \in Slot :
          /\ b # current_bin /\ CandidateOf(evicted, b) /\ placement[b][s] = Empty
          /\ PlaceInCandidate(t, evicted, current_bin) = Write(t, b, s, evicted)
    <3>1. IndexTypeOK /\ placement \in Placements BY DEF WellPlaced
    <3> HIDE DEF BuildInv
    <3> QED BY <1>7, <1>8, <3>1, PlaceWritesAFreeSlot
  <2>2. t[b][s] = Empty BY <1>5, <2>1
  <2>3. PICK t2 : t2 = Write(t, b, s, evicted) OBVIOUS
  <2>4. /\ WellPlaced(t2)
        /\ \A x \in Record : Holds(t2, x) <=> (x = evicted \/ (Holds(t, x) /\ x # t[b][s]))
    <3>1. WellPlaced(t) /\ evicted \in Record /\ ~Holds(t, evicted) BY <1>5, <1>7, <1>8
    <3> HIDE DEF BuildInv
    <3> QED BY <2>1, <2>3, <3>1, WriteSlot
  <2>5. \A x \in Record : Holds(t2, x) <=> x <= record_idx
    BY <1>1, <1>2, <1>3, <1>5, <1>7, <1>8, <2>2, <2>4
  <2>6. placement' = t2 /\ Placed BY <1>4, <1>8, <2>1, <2>3
  <2> QED BY <1>1, <2>4, <2>5, <2>6, PlacedStep
<1>9. CASE evicted # Empty /\ Open(evicted, current_bin) = {}
  <2> DEFINE bin == alternate_candidate_bin(evicted, current_bin, kick + 1)
  <2>1. /\ placement' = t /\ current' = evicted /\ current_bin' = bin /\ kick' = kick + 1
        /\ UNCHANGED <<phase, record_idx, hash, bins>>
    BY <1>1, <1>4, <1>9
  <2>2. bin \in Bin /\ CandidateOf(evicted, bin)
    <3>1. kick + 1 \in Nat BY <1>1
    <3> QED BY <1>7, <1>9, <3>1, AlternateIsACandidate
  <2> HIDE DEF bin
  <2>3. IndexTypeOK' BY <1>1, <2>1 DEF IndexTypeOK
  <2>4. WellPlaced(placement)' BY <1>5, <2>1, WellPlacedKept
  <2>5. CandidateOf(current, current_bin)'
    BY <2>1, <2>2 DEF CandidateOf, Hashed, CandidateBins
  <2>6. evicted \in 0 .. record_idx
    <3>1. evicted \in Record /\ evicted <= record_idx BY <1>7, <1>9
    <3> QED BY <1>1, <1>2, <3>1
  <2>7. Progress' BY <1>1, <2>1, <2>2, <2>5, <2>6 DEF Progress
  <2>8. HoldsSettled'
    <3>1. \A x \in Record : Settled(x)' <=> (x <= record_idx /\ x # evicted)
      BY <1>1, <1>2, <2>1 DEF Settled
    <3>2. \A x \in Record : Holds(placement, x)' <=> Holds(t, x) BY <2>1 DEF Holds
    <3>3. \A x \in Record : Holds(t, x) <=> (x <= record_idx /\ x # evicted)
      BY <1>1, <1>2, <1>3, <1>5, <1>7, <1>9
    <3> QED BY <3>1, <3>2, <3>3 DEF HoldsSettled
  <2> QED BY <2>3, <2>4, <2>7, <2>8
<1> QED BY <1>6, <1>8, <1>9

-----------------------------------------------------------------------------
(* The reader.                                                             *)

RightFor(h, r) ==
  IF \E x \in Record : hash[x] = h THEN r # Empty /\ hash[r] = h ELSE r = Empty

ReaderInv ==
  /\ debt \in Nat
  /\ phase = "open" =>
       pack \in Nat \ {0} /\ image = PackedImage(EncodedBin, Bins, pack)
  /\ \A i \in 1 .. Len(reply.asked) : RightFor(reply.asked[i], reply.records[i])

IndexInv == BuildInv /\ ReaderInv

\* The scan order of the slots read has a first member.
LEMMA FirstFoundIs ==
  ASSUME NEW S, S \subseteq (1 .. HashFns) \X Slot, S # {}
  PROVE  FirstFound(S) \in S
<1> DEFINE I == {i \in 1 .. HashFns : \E s \in Slot : <<i, s>> \in S}
<1>1. \A p \in S : p = <<p[1], p[2]>> /\ p[1] \in 1 .. HashFns /\ p[2] \in Slot OBVIOUS
<1>2. I # {} BY <1>1
<1>3. PICK i \in I : \A j \in I : i <= j
  <2>1. I \subseteq Nat BY IndexAssumption
  <2> HIDE DEF I
  <2> QED BY <1>2, <2>1, LeastNatural
<1> DEFINE J == {s \in Slot : <<i, s>> \in S}
<1>4. J # {} OBVIOUS
<1>5. PICK s \in J : \A j \in J : s <= j
  <2>1. J \subseteq Nat BY IndexAssumption DEF Slot
  <2> HIDE DEF J
  <2> QED BY <1>4, <2>1, LeastNatural
<1>6. <<i, s>> \in S OBVIOUS
<1>7. ASSUME NEW q \in S PROVE i < q[1] \/ (i = q[1] /\ s <= q[2])
  <2>1. q[1] \in I BY <1>1
  <2>2. i <= q[1] BY <1>3, <2>1
  <2>3. ASSUME i = q[1] PROVE s <= q[2]
    <3>1. q[2] \in J BY <1>1, <2>3
    <3> QED BY <1>5, <3>1
  <2>4. i \in Int /\ q[1] \in Int BY <2>1, IndexAssumption
  <2> QED BY <2>2, <2>3, <2>4
<1>8. \E p \in S : \A q \in S : p[1] < q[1] \/ (p[1] = q[1] /\ p[2] <= q[2])
  <2>1. <<i, s>>[1] = i /\ <<i, s>>[2] = s OBVIOUS
  <2> QED BY <1>6, <1>7, <2>1
<1> QED BY <1>8 DEF FirstFound

\* An index that is open answers with a record of the script hash when the file
\* has one, and with nothing when it has none.
LEMMA AnswerIsRight ==
  ASSUME IndexInv, NEW h \in Hashes, Ask(h)
  PROVE  RightFor(h, Answer(h))
<1> USE IndexAssumption DEF IndexInv, BuildInv
<1>1. phase = "open" /\ Hashed(h) BY DEF Ask
<1>2. pack \in Nat \ {0} /\ image = PackedImage(EncodedBin, Bins, pack) BY <1>1 DEF ReaderInv
<1>3. ASSUME NEW i \in 1 .. HashFns
      PROVE  bins[h][i] \in Bin /\ ItemIn(image, pack, bins[h][i]) = placement[bins[h][i]]
  <2>1. bins[h][i] \in Bin BY <1>1, CandidatesAreBins
  <2>2. ItemIn(image, pack, bins[h][i]) = EncodedBin[bins[h][i]]
    BY <1>2, <2>1, ReadPacked DEF Bin
  <2> QED BY <2>1, <2>2 DEF EncodedBin
<1>4. Found(h) = {p \in (1 .. HashFns) \X Slot :
                    /\ placement[bins[h][p[1]]][p[2]] # Empty
                    /\ hash[placement[bins[h][p[1]]][p[2]]] = h}
  BY <1>3 DEF Found
<1>5. ASSUME NEW x \in Record, hash[x] = h PROVE Found(h) # {}
  <2>1. Holds(placement, x) BY <1>1, <1>5 DEF HoldsSettled, Settled
  <2>2. PICK b \in Bin, s \in Slot : placement[b][s] = x BY <2>1 DEF Holds
  <2>3. x # Empty BY DEF Record, Empty
  <2>4. CandidateOf(x, b) BY <2>2, <2>3 DEF WellPlaced, InCandidates
  <2>5. PICK i \in 1 .. HashFns : bins[h][i] = b BY <1>5, <2>4 DEF CandidateOf, CandidateBins
  <2>6. <<i, s>> \in Found(h)
    <3>1. <<i, s>> \in (1 .. HashFns) \X Slot /\ <<i, s>>[1] = i /\ <<i, s>>[2] = s OBVIOUS
    <3> QED BY <1>4, <1>5, <2>2, <2>3, <2>5, <3>1
  <2> QED BY <2>6
<1>6. CASE Found(h) = {}
  BY <1>5, <1>6 DEF Answer, RightFor
<1>7. CASE Found(h) # {}
  <2>1. Found(h) \subseteq (1 .. HashFns) \X Slot BY DEF Found
  <2>2. PICK p \in Found(h) : p = FirstFound(Found(h)) BY <1>7, <2>1, FirstFoundIs
  <2>3. p[1] \in 1 .. HashFns /\ p[2] \in Slot BY <2>1
  <2>4. Answer(h) = placement[bins[h][p[1]]][p[2]] BY <1>3, <1>7, <2>2, <2>3 DEF Answer
  <2>5. Answer(h) # Empty /\ hash[Answer(h)] = h BY <1>4, <2>4
  <2>6. Answer(h) \in Record BY <1>3, <2>3, <2>4, <2>5 DEF WellPlaced, Placements
  <2> QED BY <2>5, <2>6 DEF RightFor
<1> QED BY <1>6, <1>7

\* The steps that keep the reply and the debt keep the reader's invariant while
\* the index is being built.
LEMMA ReaderKept ==
  ASSUME ReaderInv, UNCHANGED <<hash, placement, pack, image, debt, reply>>,
         phase' = "open" => phase = "open"
  PROVE  ReaderInv'
  BY DEF ReaderInv, RightFor, EncodedBin

\* draw, insert_index_record, kick_out and give_up leave the image alone, which
\* is written only once the table is complete.
LEMMA BuildKeepsReader ==
  ASSUME IndexInv,
         \/ \E h \in Hashes, bin \in Bin : draw(h, bin)
         \/ insert_index_record
         \/ \E slot \in Slot : kick_out(slot)
         \/ give_up
  PROVE  IndexInv'
<1> USE DEF IndexInv
<1>1. CASE \E h \in Hashes, bin \in Bin : draw(h, bin)
  <2>1. BuildInv' BY <1>1, DrawStep
  <2>2. ReaderInv' BY <1>1, ReaderKept DEF draw, reader_vars
  <2> QED BY <2>1, <2>2
<1>2. ASSUME phase # "open", phase' # "open", UNCHANGED <<hash, pack, image, debt, reply>>
      PROVE  ReaderInv'
  BY <1>2 DEF ReaderInv, RightFor
<1>3. CASE insert_index_record
  <2>1. BuildInv' BY <1>3, InsertStep
  <2>2. phase # "open" /\ phase' # "open" /\ UNCHANGED <<hash, pack, image, debt, reply>>
    BY <1>3 DEF insert_index_record, reader_vars, Placed
  <2> QED BY <1>2, <2>1, <2>2
<1>4. CASE \E slot \in Slot : kick_out(slot)
  <2>1. BuildInv' BY <1>4, KickStep
  <2>2. phase # "open" /\ phase' # "open" /\ UNCHANGED <<hash, pack, image, debt, reply>>
    BY <1>4 DEF kick_out, reader_vars, Placed
  <2> QED BY <1>2, <2>1, <2>2
<1>5. CASE give_up
  <2>1. /\ phase = "kick" /\ phase' = "failed"
        /\ UNCHANGED <<hash, bins, placement, record_idx, current, current_bin, kick>>
        /\ UNCHANGED <<pack, image, debt, reply>>
    BY <1>5 DEF give_up, reader_vars
  <2>2. WellPlaced(placement)' BY <2>1, WellPlacedKept DEF BuildInv
  <2>3. Progress' BY <2>1 DEF BuildInv, Progress, CandidateOf, Hashed, CandidateBins
  <2>4. HoldsSettled' BY <2>1 DEF BuildInv, HoldsSettled, Holds, Settled
  <2>5. IndexTypeOK' BY <2>1 DEF BuildInv, IndexTypeOK
  <2> QED BY <1>2, <2>1, <2>2, <2>3, <2>4, <2>5 DEF BuildInv
<1> QED BY <1>1, <1>3, <1>4, <1>5

\* A step that changes no variable of the build keeps its invariant.
LEMMA BuildKept ==
  ASSUME BuildInv, UNCHANGED build_vars PROVE BuildInv'
<1>1. UNCHANGED <<hash, bins, placement, phase, record_idx, current, current_bin, kick>>
  BY DEF build_vars
<1>2. WellPlaced(placement)' BY <1>1, WellPlacedKept DEF BuildInv
<1>3. Progress' BY <1>1 DEF BuildInv, Progress, CandidateOf, Hashed, CandidateBins
<1>4. HoldsSettled' BY <1>1 DEF BuildInv, HoldsSettled, Holds, Settled
<1>5. IndexTypeOK' BY <1>1 DEF BuildInv, IndexTypeOK
<1> QED BY <1>2, <1>3, <1>4, <1>5 DEF BuildInv

\* build_image encodes the finished table.
LEMMA ImageStep ==
  ASSUME IndexInv, NEW per_block \in PackFactors, build_image(per_block)
  PROVE  IndexInv'
<1> USE DEF IndexInv
<1>1. /\ phase = "done" /\ phase' = "open" /\ pack' = per_block
      /\ image' = PackedImage(EncodedBin, Bins, per_block)
      /\ UNCHANGED <<hash, bins, placement, record_idx, current, current_bin, kick>>
      /\ UNCHANGED <<debt, reply>>
  BY DEF build_image
<1>2. WellPlaced(placement)' BY <1>1, WellPlacedKept DEF BuildInv
<1>3. Progress' BY <1>1 DEF BuildInv, Progress
<1>4. HoldsSettled' BY <1>1 DEF BuildInv, HoldsSettled, Holds, Settled
<1>5. IndexTypeOK' BY <1>1 DEF BuildInv, IndexTypeOK
<1>6. per_block \in Nat \ {0} BY IndexAssumption
<1>7. EncodedBin' = EncodedBin BY <1>1 DEF EncodedBin
<1>8. ReaderInv'
  <2>1. debt' \in Nat BY <1>1 DEF ReaderInv
  <2>2. pack' \in Nat \ {0} /\ image' = PackedImage(EncodedBin', Bins, pack')
    BY <1>1, <1>6, <1>7
  <2>3. (\A i \in 1 .. Len(reply.asked) : RightFor(reply.asked[i], reply.records[i]))'
    BY <1>1 DEF ReaderInv, RightFor
  <2> QED BY <2>1, <2>2, <2>3 DEF ReaderInv
<1> QED BY <1>2, <1>3, <1>4, <1>5, <1>8 DEF BuildInv

\* A read changes the debt and the reply only; the reply is right when each of
\* its records is.
LEMMA ReadKeeps ==
  ASSUME IndexInv, UNCHANGED <<build_vars, pack, image>>, debt' \in Nat,
         \A i \in 1 .. Len(reply'.asked) : RightFor(reply'.asked[i], reply'.records[i])
  PROVE  IndexInv'
<1>1. BuildInv' BY BuildKept DEF IndexInv
<1>2. UNCHANGED <<hash, placement, phase>> BY DEF build_vars
<1>3. ReaderInv' BY <1>2 DEF IndexInv, ReaderInv, RightFor, EncodedBin
<1> QED BY <1>1, <1>3 DEF IndexInv

LEMMA RefusedKeeps ==
  Refused.asked = <<>> /\ Len(Refused.asked) = 0
  BY DEF Refused, Replies

LEMMA PairsCount ==
  ASSUME NEW a \in Nat, NEW b \in Nat
  PROVE  Cardinality((1 .. a) \X (1 .. b)) = b * a
<1> DEFINE A == 1 .. a
           B == 1 .. b
<1>1. IsFiniteSet(A) /\ Cardinality(A) = a BY FS_Interval
<1>2. IsFiniteSet(B) /\ Cardinality(B) = b BY FS_Interval
<1> HIDE DEF A, B
<1>3. Cardinality(A \X B) = Cardinality(A) * Cardinality(B) BY <1>1, <1>2, FS_Product
<1>4. Cardinality(A \X B) = b * a BY <1>1, <1>2, <1>3
<1> QED BY <1>4 DEF A, B

\* Lists of candidate bins that are complete are read in full.
LEMMA ReadsOfFullLists ==
  ASSUME NEW hs, NEW k \in Nat, Len(hs) = k, \A i \in 1 .. k : Hashed(hs[i])
  PROVE  CandidateReads(hs) = HashFns * k
<1> DEFINE P == (1 .. k) \X (1 .. HashFns)
<1>0. HashFns \in Nat BY IndexAssumption
<1>1. {p \in (1 .. Len(hs)) \X (1 .. HashFns) : p[2] <= Len(bins[hs[p[1]]])} = P
  <2>1. ASSUME NEW p \in P PROVE p[2] <= Len(bins[hs[p[1]]])
    <3>1. p[1] \in 1 .. k /\ p[2] \in 1 .. HashFns OBVIOUS
    <3>2. Len(bins[hs[p[1]]]) = HashFns BY <3>1 DEF Hashed
    <3> QED BY <1>0, <3>1, <3>2
  <2> QED BY <2>1
<1>2. Cardinality(P) = HashFns * k BY <1>0, PairsCount
<1>3. CandidateReads(hs) =
        Cardinality({p \in (1 .. Len(hs)) \X (1 .. HashFns) : p[2] <= Len(bins[hs[p[1]]])})
  BY DEF CandidateReads
<1> HIDE DEF P
<1> QED BY <1>1, <1>2, <1>3

\* What n reads and the drains that come with them cost, however they are
\* interleaved.
LEMMA PaysOff ==
  ASSUME debt \in Nat, NEW n \in Nat, NEW budget \in Nat,
         \/ debt' = DebtAfterRounds(debt, budget)[n]
         \/ debt' = DebtAfterBatch(debt, budget, n)
  PROVE  /\ debt' \in Nat
         /\ PaidOff(n) = Drained(debt + n * EvictionsPerAccess, n * budget)
<1> DEFINE due == debt + n * EvictionsPerAccess
           most == n * budget
<1>0. EvictionsPerAccess \in Nat BY DebtAssumption
<1>1. /\ DebtAfterRounds(debt, budget)[n] = DebtAfterBatch(debt, budget, n)
      /\ DebtAfterBatch(debt, budget, n) \in Nat
  BY RoundsAreABatch
<1>2. debt' = DebtAfterBatch(debt, budget, n) /\ debt' \in Nat BY <1>1
<1>3. due \in Nat /\ most \in Nat BY <1>0
<1>4. debt' = due - Drained(due, most) BY <1>2 DEF DebtAfterBatch
<1>5. PaidOff(n) = due - debt' BY <1>0, <1>2 DEF PaidOff
<1>6. PaidOff(n) = Drained(due, most)
  <2> HIDE DEF due, most
  <2>1. Drained(due, most) \in Nat BY <1>3 DEF Drained
  <2> QED BY <1>3, <1>4, <1>5, <2>1
<1> QED BY <1>2, <1>6

\* A reply with the cost of n lookups is as SameCostStep asks.
LEMMA CostIsPublic ==
  ASSUME debt \in Nat, NEW n \in Nat, NEW budget \in Nat,
         \/ debt' = DebtAfterRounds(debt, budget)[HashFns * n]
         \/ debt' = DebtAfterBatch(debt, budget, HashFns * n),
         reply'.cost = Cost(n, budget, HashFns * n, PaidOff(HashFns * n))
  PROVE  debt' \in Nat /\ SameCostStep
<1>1. HashFns * n \in Nat BY IndexAssumption
<1>2. PICK reads \in Nat : reads = HashFns * n BY <1>1
<1>3. debt' \in Nat /\ PaidOff(reads) = Drained(debt + reads * EvictionsPerAccess, reads * budget)
  BY <1>2, PaysOff
<1>4. reply'.cost = PublicCost(n, budget) BY <1>2, <1>3 DEF PublicCost
<1>5. reply'.cost.lookups = n /\ reply'.cost.budget = budget BY DEF Cost
<1> QED BY <1>3, <1>4, <1>5 DEF SameCostStep

LEMMA RefusedIsFree == ASSUME reply' = Refused PROVE SameCostStep
<1>1. reply'.cost.lookups = 0 BY DEF Refused, Replies, Cost
<1> QED BY <1>1 DEF SameCostStep

\* lookup, answered or refused after some of its reads.
LEMMA LookupReads ==
  ASSUME IndexInv, NEW h \in Hashes, NEW budget \in Budgets, NEW reads \in 0 .. HashFns,
         lookup(h, budget, reads)
  PROVE  IndexInv' /\ SameCostStep
<1> USE IndexAssumption
<1>0. PICK n \in {CandidateReads(<<h>>)} :
        /\ Ask(h)
        /\ debt' = DebtAfterRounds(debt, budget)[reads]
        /\ reply' = IF reads < n THEN Refused
                    ELSE Replies(<<h>>, <<Answer(h)>>, Cost(1, budget, n, PaidOff(n)))
        /\ UNCHANGED <<build_vars, pack, image>>
  BY DEF lookup
<1>1. Ask(h) /\ UNCHANGED <<build_vars, pack, image>> BY <1>0
<1>2. debt \in Nat /\ budget \in Nat /\ reads \in Nat BY DEF IndexInv, ReaderInv
<1>3. n = HashFns * 1
  <2>1. Len(<<h>>) = 1 /\ <<h>>[1] = h OBVIOUS
  <2>2. \A i \in 1 .. 1 : Hashed(<<h>>[i]) BY <1>1, <2>1 DEF Ask
  <2>3. CandidateReads(<<h>>) = HashFns * 1 BY <2>1, <2>2, ReadsOfFullLists
  <2> QED BY <1>0, <2>3
<1>4. debt' \in Nat BY <1>0, <1>2, PaysOff
<1>5. CASE reads < n
  <2>1. reply' = Refused BY <1>0, <1>5
  <2> QED BY <1>1, <1>4, <2>1, RefusedKeeps, RefusedIsFree, ReadKeeps
<1>6. CASE ~(reads < n)
  <2>1. reply' = Replies(<<h>>, <<Answer(h)>>, Cost(1, budget, n, PaidOff(n))) BY <1>0, <1>6
  <2>2. reply'.asked = <<h>> /\ reply'.records = <<Answer(h)>> BY <2>1 DEF Replies
  <2>3. RightFor(h, Answer(h)) BY <1>1, AnswerIsRight
  <2>4. ASSUME NEW i \in 1 .. Len(reply'.asked)
        PROVE  reply'.asked[i] = h /\ reply'.records[i] = Answer(h)
    BY <2>2
  <2>5. \A i \in 1 .. Len(reply'.asked) : RightFor(reply'.asked[i], reply'.records[i])
    BY <2>3, <2>4
  <2>6. reads = HashFns * 1 BY <1>2, <1>3, <1>6
  <2>7. reply'.cost = Cost(1, budget, HashFns * 1, PaidOff(HashFns * 1))
    BY <1>3, <2>1 DEF Replies
  <2>8. SameCostStep BY <1>0, <1>2, <2>6, <2>7, CostIsPublic
  <2> QED BY <1>1, <1>4, <2>5, <2>8, ReadKeeps
<1> QED BY <1>5, <1>6

\* lookup_many_batched, answered or refused after some of its reads.
LEMMA BatchedReads ==
  ASSUME IndexInv, NEW g \in Hashes, NEW h \in Hashes, NEW budget \in Budgets,
         NEW reads \in 0 .. 2 * HashFns, lookup_many_batched(<<g, h>>, budget, reads)
  PROVE  IndexInv' /\ SameCostStep
<1> USE IndexAssumption
<1>1. Len(<<g, h>>) = 2 /\ <<g, h>>[1] = g /\ <<g, h>>[2] = h OBVIOUS
<1>2. PICK n \in {CandidateReads(<<g, h>>)} :
        /\ \A i \in 1 .. 2 : Ask(<<g, h>>[i])
        /\ IF reads < n
           THEN debt' = debt + reads * EvictionsPerAccess /\ reply' = Refused
           ELSE /\ debt' = DebtAfterBatch(debt, budget, n)
                /\ reply' = Replies(<<g, h>>, [i \in 1 .. 2 |-> Answer(<<g, h>>[i])],
                                    Cost(2, budget, n, PaidOff(n)))
        /\ UNCHANGED <<build_vars, pack, image>>
  BY <1>1 DEF lookup_many_batched
<1>3. Ask(g) /\ Ask(h) BY <1>1, <1>2
<1>4. debt \in Nat /\ budget \in Nat /\ reads \in Nat BY DEF IndexInv, ReaderInv
<1>5. n = HashFns * 2
  <2>1. \A i \in 1 .. 2 : Hashed(<<g, h>>[i]) BY <1>2 DEF Ask
  <2>2. CandidateReads(<<g, h>>) = HashFns * 2 BY <1>1, <2>1, ReadsOfFullLists
  <2> QED BY <1>2, <2>2
<1>6. CASE reads < n
  <2>1. reads * EvictionsPerAccess \in Nat BY <1>4, DebtAssumption
  <2>2. debt' \in Nat BY <1>2, <1>4, <1>6, <2>1
  <2>3. reply' = Refused BY <1>2, <1>6
  <2> QED BY <1>2, <2>2, <2>3, RefusedKeeps, RefusedIsFree, ReadKeeps
<1>7. CASE ~(reads < n)
  <2>1. /\ debt' = DebtAfterBatch(debt, budget, HashFns * 2)
        /\ reply' = Replies(<<g, h>>, [i \in 1 .. 2 |-> Answer(<<g, h>>[i])],
                            Cost(2, budget, HashFns * 2, PaidOff(HashFns * 2)))
    BY <1>2, <1>5, <1>7
  <2>2. reply'.cost = Cost(2, budget, HashFns * 2, PaidOff(HashFns * 2)) BY <2>1 DEF Replies
  <2>3. debt' \in Nat /\ SameCostStep BY <1>4, <2>1, <2>2, CostIsPublic
  <2>4. RightFor(g, Answer(g)) /\ RightFor(h, Answer(h)) BY <1>3, AnswerIsRight
  <2>5. ASSUME NEW i \in 1 .. Len(reply'.asked)
        PROVE  RightFor(reply'.asked[i], reply'.records[i])
    <3>1. /\ reply'.asked = <<g, h>>
          /\ reply'.records = [k \in 1 .. 2 |-> Answer(<<g, h>>[k])]
      BY <2>1 DEF Replies
    <3>2. \/ reply'.asked[i] = g /\ reply'.records[i] = Answer(g)
          \/ reply'.asked[i] = h /\ reply'.records[i] = Answer(h)
      BY <3>1
    <3> QED BY <2>4, <3>2
  <2> QED BY <1>2, <2>3, <2>5, ReadKeeps
<1> QED BY <1>6, <1>7

\* lookup_dummy_many answers nothing.
LEMMA DummyReads ==
  ASSUME IndexInv, NEW lookups \in 1 .. 2, NEW budget \in Budgets,
         lookup_dummy_many(lookups, budget)
  PROVE  IndexInv' /\ SameCostStep
<1>1. debt \in Nat /\ budget \in Nat /\ lookups \in Nat
  BY IndexAssumption DEF IndexInv, ReaderInv
<1>2. /\ debt' = DebtAfterBatch(debt, budget, HashFns * lookups)
      /\ reply' = Replies(<<>>, <<>>, Cost(lookups, budget, HashFns * lookups,
                                           PaidOff(HashFns * lookups)))
      /\ UNCHANGED <<build_vars, pack, image>>
  BY DEF lookup_dummy_many, read_dummy_candidates
<1>3. /\ reply'.cost = Cost(lookups, budget, HashFns * lookups, PaidOff(HashFns * lookups))
      /\ Len(reply'.asked) = 0
  BY <1>2 DEF Replies
<1>4. debt' \in Nat /\ SameCostStep BY <1>1, <1>2, <1>3, CostIsPublic
<1> QED BY <1>2, <1>3, <1>4, ReadKeeps

\* Every step of the index keeps its invariant.
LEMMA IndexStep ==
  ASSUME IndexInv, Next PROVE IndexInv'
<1>1. CASE \E h \in Hashes, bin \in Bin : draw(h, bin) BY <1>1, BuildKeepsReader
<1>2. CASE insert_index_record BY <1>2, BuildKeepsReader
<1>3. CASE \E slot \in Slot : kick_out(slot) BY <1>3, BuildKeepsReader
<1>4. CASE give_up BY <1>4, BuildKeepsReader
<1>5. CASE \E per_block \in PackFactors : build_image(per_block) BY <1>5, ImageStep
<1>6. CASE \E h \in Hashes, budget \in Budgets, reads \in 0 .. HashFns : lookup(h, budget, reads)
  BY <1>6, LookupReads
<1>7. CASE \E g, h \in Hashes, budget \in Budgets, reads \in 0 .. 2 * HashFns :
             lookup_many_batched(<<g, h>>, budget, reads)
  BY <1>7, BatchedReads
<1>8. CASE \E lookups \in 1 .. 2, budget \in Budgets : lookup_dummy_many(lookups, budget)
  BY <1>8, DummyReads
<1> QED BY <1>1, <1>2, <1>3, <1>4, <1>5, <1>6, <1>7, <1>8 DEF Next

-----------------------------------------------------------------------------
\* What the invariant says of a behaviour that is about the index.
WhenIndex == table \in {"index", "items"} /\ (table = "index" => IndexInv)

LEMMA WhenIndexHolds == TablesSpec => []WhenIndex
<1>1. TablesInit => WhenIndex
  <2>1. ASSUME Init PROVE IndexInv
    <3>1. BuildInv BY <2>1, BuildInit
    <3>2. ReaderInv BY <2>1, RefusedKeeps DEF Init, ReaderInv
    <3> QED BY <3>1, <3>2 DEF IndexInv
  <2> QED BY <2>1 DEF TablesInit, WhenIndex
<1>2. WhenIndex /\ [index_step \/ item_step]_tableVars => WhenIndex'
  <2> SUFFICES ASSUME WhenIndex, [index_step \/ item_step]_tableVars PROVE WhenIndex'
    OBVIOUS
  <2>1. CASE index_step BY <2>1, IndexStep DEF index_step, WhenIndex
  <2>2. CASE item_step BY <2>2 DEF item_step, WhenIndex
  <2>3. CASE UNCHANGED tableVars
    <3>1. UNCHANGED <<build_vars, pack, image, debt, reply, hash, table>>
      BY <2>3 DEF tableVars, vars, reader_vars, build_vars
    <3>2. ASSUME IndexInv PROVE IndexInv'
      <4>1. debt' \in Nat
            /\ \A i \in 1 .. Len(reply'.asked) : RightFor(reply'.asked[i], reply'.records[i])
        BY <3>1, <3>2 DEF IndexInv, ReaderInv
      <4> QED BY <3>1, <3>2, <4>1, ReadKeeps
    <3> QED BY <3>1, <3>2 DEF WhenIndex
  <2> QED BY <2>1, <2>2, <2>3
<1> QED BY <1>1, <1>2, PTL DEF TablesSpec

\* For every number of bins, slots, hash functions and kicks: while the records
\* are inserted and kicked about (insert_index_record in src/src/direct.rs) each
\* record read so far is in exactly one slot, of one of its candidate bins.
THEOREM KicksLoseNoRecord == TablesSpec => []RecordsInCandidateBins
<1>1. WhenIndex => RecordsInCandidateBins
  <2> SUFFICES ASSUME IndexInv PROVE EveryRecordInACandidateBin
    BY DEF WhenIndex, RecordsInCandidateBins
  <2> USE IndexAssumption DEF IndexInv, BuildInv
  <2>1. ASSUME NEW r \in Record, Settled(r)
        PROVE  \E b \in Bin, s \in Slot :
                 /\ Copies(r) = {<<b, s>>}
                 /\ \E i \in 1 .. HashFns : CandidateBins(r)[i] = b
    <3>1. r # Empty BY DEF Record, Empty
    <3>2. PICK b \in Bin, s \in Slot : placement[b][s] = r BY <2>1 DEF HoldsSettled, Holds
    <3>3. CandidateOf(r, b) BY <3>1, <3>2 DEF WellPlaced, InCandidates
    <3>4. ASSUME NEW p \in Bin \X Slot PROVE placement[p[1]][p[2]] = r <=> p = <<b, s>>
      <4>1. p = <<p[1], p[2]>> /\ p[1] \in Bin /\ p[2] \in Slot OBVIOUS
      <4>2. ASSUME placement[p[1]][p[2]] = r PROVE p[1] = b /\ p[2] = s
        BY <3>1, <3>2, <4>1, <4>2 DEF WellPlaced, NoCopies
      <4> QED BY <3>2, <4>1, <4>2
    <3>5. Copies(r) = {<<b, s>>} BY <3>4 DEF Copies
    <3> QED BY <3>3, <3>5 DEF CandidateOf
  <2>2. ASSUME phase \in {"kick", "failed"} PROVE Copies(current) = {}
    <3>1. current \in Record BY <2>2 DEF Progress, IndexTypeOK, Record
    <3>2. ~Settled(current) BY <2>2 DEF Settled
    <3>3. ~Holds(placement, current) BY <3>1, <3>2 DEF HoldsSettled
    <3> QED BY <3>3 DEF Copies, Holds
  <2> QED BY <2>1, <2>2 DEF EveryRecordInACandidateBin
<1> QED BY <1>1, WhenIndexHolds, PTL

\* For every rate of evictions, number of hash functions, budget and debt: what a
\* lookup, a batch of lookups or dummies that complete read and drain is a
\* function of how many they are, the budget and the debt (lookup,
\* lookup_many_batched and lookup_dummy_many of src/src/direct.rs).
THEOREM DummiesAreNotToldApart == TablesSpec => LookupsCostTheSame
<1>1. ASSUME IndexInv, Next PROVE SameCostStep \/ UNCHANGED <<debt, reply>>
  <2>1. CASE \/ \E h \in Hashes, bin \in Bin : draw(h, bin)
             \/ insert_index_record
             \/ \E slot \in Slot : kick_out(slot)
             \/ give_up
             \/ \E per_block \in PackFactors : build_image(per_block)
    BY <2>1 DEF draw, insert_index_record, kick_out, give_up, build_image, reader_vars
  <2>2. CASE \E h \in Hashes, budget \in Budgets, reads \in 0 .. HashFns : lookup(h, budget, reads)
    BY <1>1, <2>2, LookupReads
  <2>3. CASE \E g, h \in Hashes, budget \in Budgets, reads \in 0 .. 2 * HashFns :
               lookup_many_batched(<<g, h>>, budget, reads)
    BY <1>1, <2>3, BatchedReads
  <2>4. CASE \E lookups \in 1 .. 2, budget \in Budgets : lookup_dummy_many(lookups, budget)
    BY <1>1, <2>4, DummyReads
  <2> QED BY <1>1, <2>1, <2>2, <2>3, <2>4 DEF Next
<1>2. WhenIndex /\ [index_step \/ item_step]_tableVars
        => [table = "index" => SameCostStep]_<<debt, reply>>
  <2> SUFFICES ASSUME WhenIndex, [index_step \/ item_step]_tableVars, table = "index"
               PROVE  SameCostStep \/ UNCHANGED <<debt, reply>>
    OBVIOUS
  <2>1. CASE index_step BY <1>1, <2>1 DEF index_step, WhenIndex
  <2>2. CASE item_step BY <2>2 DEF item_step
  <2>3. CASE UNCHANGED tableVars BY <2>3 DEF tableVars, vars, reader_vars
  <2> QED BY <2>1, <2>2, <2>3
<1> QED BY <1>2, WhenIndexHolds, PTL DEF TablesSpec, LookupsCostTheSame

\* For every file and every draw of candidate bins: a lookup that is answered
\* finds a record of the script hash exactly when the file has one.
THEOREM LookupsFindTheRecord == TablesSpec => IndexAnswersTheFile
<1>1. WhenIndex /\ WhenIndex' /\ [index_step \/ item_step]_tableVars
        => [table = "index" => LookupStep]_tableVars
  <2> SUFFICES ASSUME WhenIndex', [index_step \/ item_step]_tableVars, table = "index"
               PROVE  LookupStep
    OBVIOUS
  <2>1. UNCHANGED <<hash, table>>
    <3>1. CASE index_step
      <4>1. hash' = hash
        BY <3>1 DEF index_step, Next, draw, insert_index_record, kick_out, give_up, build_image,
                    lookup, lookup_many_batched, lookup_dummy_many, read_dummy_candidates, build_vars
      <4> QED BY <3>1, <4>1 DEF index_step
    <3>2. CASE item_step BY <3>2 DEF item_step
    <3>3. CASE UNCHANGED tableVars BY <3>3 DEF tableVars, vars, build_vars
    <3> QED BY <3>1, <3>2, <3>3
  <2>2. ReaderInv' BY <2>1 DEF WhenIndex, IndexInv
  <2> QED BY <2>1, <2>2 DEF ReaderInv, RightFor, LookupStep
<1> QED BY <1>1, WhenIndexHolds, PTL DEF TablesSpec, IndexAnswersTheFile

-----------------------------------------------------------------------------
(* Items that are addressed by number.                                     *)

PackedBlock(block) == Items!PackBlock(mapped, total, pack, block)

\* The image holds the blocks of the map, each of which the map covers.
ImageIsTheMap ==
  /\ image \in Seq({PackedBlock(block) : block \in Nat})
  /\ \A block \in 0 .. Len(image) - 1 :
       /\ image[block + 1] = PackedBlock(block)
       /\ \A i \in Items!Wanted(block) : ~(i >= Items!Count(mapped))

ItemReplyRight ==
  \A i \in 1 .. Len(reply.asked) :
    /\ reply.asked[i] < Items!Count(mapped)
    /\ reply.items[i] = mapped[reply.asked[i]]

ItemsInv ==
  /\ phase \in {"measure", "map", "pack", "built", "open", "failed"}
  /\ Items!Count(file) \in Nat /\ total \in Nat /\ Items!Count(mapped) \in Nat
  /\ pack \in Nat \ {0}
  /\ phase \in {"measure", "map"} => image = <<>>
  /\ phase \in {"pack", "built", "open"} => ImageIsTheMap
  /\ phase \in {"built", "open"} => Len(image) = Items!DivCeil(total, pack)
  /\ phase = "open" => per = pack
  /\ phase # "open" => Len(reply.asked) = 0
  /\ ItemReplyRight

\* A file of n items has n items, and the map of an empty file has none.
LEMMA FilesAreCounted ==
  ASSUME NEW v, NEW n \in Nat PROVE Items!Count(Items!File(v, n)) \in Nat
<1>1. DOMAIN Items!File(v, n) = 0 .. n - 1 BY DEF Items!File
<1>2. IsFiniteSet(0 .. n - 1) BY FS_Interval
<1>3. Cardinality(0 .. n - 1) \in Nat BY <1>2, FS_CardinalityType
<1>4. Items!Cardinality(0 .. n - 1) = Cardinality(0 .. n - 1)
  BY DEF Items!Cardinality, Cardinality
<1> QED BY <1>1, <1>3, <1>4 DEF Items!Count

\* An item that the reader accepts is in the map, and the read returns it.
LEMMA ItemIsInTheMap ==
  ASSUME ItemsInv, phase = "open", NEW item \in Nat, Items!InRange(item)
  PROVE  /\ item < Items!Count(mapped)
         /\ Items!ItemIn(Items!Image, per, item) = mapped[item]
<1> DEFINE b == Locate(pack, item).block
           o == Locate(pack, item).offset
<1>1. item \in 0 .. total - 1 BY DEF Items!InRange, ItemsInv
<1>2. /\ b \in 0 .. DivCeil(total, pack) - 1 /\ o \in 0 .. pack - 1 /\ b * pack + o = item
  BY <1>1, PackedItem DEF ItemsInv
<1>3. Items!Locate(per, item).block = b /\ Items!Locate(per, item).offset = o
  BY DEF Items!Locate, Locate, ItemsInv
<1>4. b \in 0 .. Len(image) - 1 BY <1>2 DEF ItemsInv, Items!DivCeil, DivCeil
<1>5. item \in Items!Wanted(b) BY <1>1 DEF Items!Wanted, Items!Locate, Locate
<1> HIDE DEF b, o
<1>6. image[b + 1] = PackedBlock(b) /\ ~(item >= Items!Count(mapped))
  BY <1>4, <1>5 DEF ItemsInv, ImageIsTheMap
<1>7. item < Items!Count(mapped) BY <1>6 DEF ItemsInv
<1>8. PackedBlock(b)[o] = mapped[item]
  BY <1>1, <1>2 DEF PackedBlock, Items!PackBlock, ItemsInv
<1>9. Items!ItemIn(Items!Image, per, item) = Items!Image[b][o] BY <1>3 DEF Items!ItemIn
<1>10. Items!Image[b] = image[b + 1] BY <1>4 DEF Items!Image
<1> QED BY <1>6, <1>7, <1>8, <1>9, <1>10

\* Reads change the debt and the reply only.
LEMMA ItemReadKeeps ==
  ASSUME ItemsInv, phase = "open",
         UNCHANGED <<file, level, phase, total, mapped, pack, per, image>>,
         \A i \in 1 .. Len(reply'.asked) :
           /\ reply'.asked[i] < Items!Count(mapped)
           /\ reply'.items[i] = mapped[reply'.asked[i]]
  PROVE  ItemsInv'
<1>1. ImageIsTheMap'
  <2>1. \A block : PackedBlock(block)' = PackedBlock(block) BY DEF PackedBlock, Items!PackBlock
  <2>2. \A block : Items!Wanted(block)' = Items!Wanted(block) BY DEF Items!Wanted, Items!Locate
  <2>3. Items!Count(mapped)' = Items!Count(mapped) BY DEF Items!Count
  <2> QED BY <2>1, <2>2, <2>3 DEF ItemsInv, ImageIsTheMap
<1> QED BY <1>1 DEF ItemsInv, ItemReplyRight, Items!DivCeil

LEMMA NoItemAsked == Len(Items!Refused.asked) = 0
  BY DEF Items!Refused

\* One block is packed, or the build fails at the end of the map.
LEMMA PackStep ==
  ASSUME ItemsInv, Items!pack_block PROVE ItemsInv'
<1> USE DEF ItemsInv
<1> DEFINE n == Len(image)
<1>1. /\ phase = "pack" /\ Items!read_block(n)
      /\ UNCHANGED <<file, level, total, mapped, pack, per, debt, reply>>
  BY DEF Items!pack_block
<1>2. ItemReplyRight' BY <1>1 DEF ItemReplyRight
<1>3. CASE \E i \in Items!Wanted(n) : i >= Items!Count(mapped)
  <2>1. phase' = "failed" BY <1>1, <1>3 DEF Items!read_block
  <2> QED BY <1>1, <1>2, <2>1
<1>4. CASE ~ \E i \in Items!Wanted(n) : i >= Items!Count(mapped)
  <2>1. /\ image' = Append(image, PackedBlock(n))
        /\ phase' = IF n + 1 = Items!DivCeil(total, pack) THEN "built" ELSE phase
    BY <1>1, <1>4 DEF Items!read_block, PackedBlock
  <2>2. \A block : PackedBlock(block)' = PackedBlock(block)
    BY <1>1 DEF PackedBlock, Items!PackBlock
  <2>3. \A block : Items!Wanted(block)' = Items!Wanted(block)
    BY <1>1 DEF Items!Wanted, Items!Locate
  <2> DEFINE S == {PackedBlock(block) : block \in Nat}
  <2>4. image \in Seq(S) /\ n \in Nat BY <1>1 DEF ImageIsTheMap
  <2>5. PackedBlock(n) \in S BY <2>4
  <2>6. S' = S BY <2>2
  <2> HIDE DEF S
  <2>7. image' \in Seq(S) /\ Len(image') = n + 1 BY <2>1, <2>4, <2>5
  <2>8. ASSUME NEW block \in 0 .. n
        PROVE  /\ image'[block + 1] = PackedBlock(block)
               /\ \A i \in Items!Wanted(block) : ~(i >= Items!Count(mapped))
    <3>1. CASE block = n BY <1>4, <2>1, <2>4, <2>5, <3>1
    <3>2. CASE block # n
      <4>1. block \in 0 .. n - 1 /\ block + 1 \in 1 .. n BY <2>4, <3>2
      <4>2. image'[block + 1] = image[block + 1] BY <2>1, <2>4, <2>5, <4>1
      <4> QED BY <1>1, <4>1, <4>2 DEF ImageIsTheMap
    <3> QED BY <3>1, <3>2
  <2>9. ImageIsTheMap'
    <3>1. 0 .. Len(image') - 1 = 0 .. n BY <2>4, <2>7
    <3>2. mapped' = mapped BY <1>1
    <3>3. image' \in Seq(S') BY <2>6, <2>7
    <3>4. \A block \in 0 .. n :
            /\ image'[block + 1] = PackedBlock(block)'
            /\ \A i \in Items!Wanted(block)' : ~(i >= Items!Count(mapped)')
      BY <2>2, <2>3, <2>8, <3>2 DEF Items!Count
    <3> QED BY <3>1, <3>3, <3>4 DEF ImageIsTheMap, S
  <2>10. phase' \in {"pack", "built"} /\ phase' # "open" BY <1>1, <2>1
  <2>11. phase' = "built" => Len(image') = Items!DivCeil(total, pack)'
    BY <1>1, <2>1, <2>7 DEF Items!DivCeil
  <2>12. (Items!Count(file) \in Nat /\ total \in Nat /\ Items!Count(mapped) \in Nat
          /\ pack \in Nat \ {0} /\ Len(reply.asked) = 0)'
    BY <1>1 DEF Items!Count
  <2> QED BY <1>2, <2>9, <2>10, <2>11, <2>12
<1> QED BY <1>3, <1>4

\* Measuring, replacing and mapping the file come before anything is packed.
LEMMA BeforePacking ==
  ASSUME ItemsInv,
         \/ Items!from_chunks_file
         \/ \E k, bins_per_table \in 1 .. MaxItems : Items!from_file(k, bins_per_table)
         \/ Items!measure_fails
         \/ \E n \in 1 .. MaxItems : Items!replace_file(n)
         \/ \E per_block \in ItemsPerBlock : Items!open(per_block)
  PROVE  ItemsInv'
<1> USE DEF ItemsInv
<1>1. ASSUME phase \in {"measure", "map"}, phase' \in {"map", "failed"}, total' \in Nat,
             Items!Count(file') \in Nat, UNCHANGED <<mapped, pack, image, reply>>
      PROVE  ItemsInv'
  <2>1. Items!Count(file)' \in Nat /\ Items!Count(mapped)' \in Nat BY <1>1 DEF Items!Count
  <2>2. ItemReplyRight' BY <1>1 DEF ItemReplyRight
  <2> QED BY <1>1, <2>1, <2>2
<1>2. CASE Items!from_chunks_file
  BY <1>1, <1>2 DEF Items!from_chunks_file, Items!Measured
<1>3. CASE \E k, bins_per_table \in 1 .. MaxItems : Items!from_file(k, bins_per_table)
  <2>1. PICK k, bins_per_table \in 1 .. MaxItems : Items!from_file(k, bins_per_table) BY <1>3
  <2>2. k * bins_per_table \in Nat BY ItemsAssumption
  <2> QED BY <1>1, <2>1, <2>2 DEF Items!from_file, Items!Measured
<1>4. CASE Items!measure_fails
  BY <1>1, <1>4 DEF Items!measure_fails
<1>5. CASE \E n \in 1 .. MaxItems : Items!replace_file(n)
  <2>1. PICK n \in 1 .. MaxItems : Items!replace_file(n) BY <1>5
  <2>2. n \in Nat BY ItemsAssumption
  <2>3. Items!Count(file') \in Nat BY <2>1, <2>2, FilesAreCounted DEF Items!replace_file
  <2> QED BY <1>1, <2>1, <2>3 DEF Items!replace_file
<1>6. CASE \E per_block \in ItemsPerBlock : Items!open(per_block)
  <2>1. PICK per_block \in ItemsPerBlock : Items!open(per_block) BY <1>6
  <2>2. /\ phase = "map" /\ phase' = "pack" /\ mapped' = file /\ pack' = per_block
        /\ UNCHANGED <<file, level, total, per, image, debt, reply>>
    BY <2>1 DEF Items!open
  <2>3. per_block \in Nat \ {0} BY ItemsAssumption
  <2>4. image' = <<>> BY <2>2
  <2>5. ImageIsTheMap' BY <2>4 DEF ImageIsTheMap
  <2>6. (Len(reply.asked) = 0)' BY <2>2
  <2>7. ItemReplyRight' BY <2>6 DEF ItemReplyRight
  <2>8. Items!Count(file)' \in Nat /\ Items!Count(mapped)' \in Nat BY <2>2 DEF Items!Count
  <2> QED BY <2>2, <2>3, <2>5, <2>6, <2>7, <2>8
<1> QED BY <1>2, <1>3, <1>4, <1>5, <1>6

\* new opens the reader on a complete image, with the packing it was made with.
LEMMA OpenStep ==
  ASSUME ItemsInv, NEW per_block, Items!new(per_block) PROVE ItemsInv'
<1> USE DEF ItemsInv
<1>1. /\ phase = "built" /\ phase' = "open" /\ per' = pack
      /\ UNCHANGED <<file, level, total, mapped, pack, image, debt, reply>>
  BY DEF Items!new
<1>2. ImageIsTheMap'
  <2>1. \A block : PackedBlock(block)' = PackedBlock(block)
    BY <1>1 DEF PackedBlock, Items!PackBlock
  <2>2. \A block : Items!Wanted(block)' = Items!Wanted(block)
    BY <1>1 DEF Items!Wanted, Items!Locate
  <2>3. Items!Count(mapped)' = Items!Count(mapped) BY <1>1 DEF Items!Count
  <2> QED BY <1>1, <2>1, <2>2, <2>3 DEF ImageIsTheMap
<1>3. ItemReplyRight' BY <1>1 DEF ItemReplyRight
<1>4. Items!Count(file)' \in Nat /\ Items!Count(mapped)' \in Nat BY <1>1 DEF Items!Count
<1>5. Len(image') = Items!DivCeil(total, pack)' BY <1>1 DEF Items!DivCeil
<1> QED BY <1>1, <1>2, <1>3, <1>4, <1>5

\* Every step of the items keeps their invariant.
LEMMA ItemsStep ==
  ASSUME ItemsInv, Items!Next PROVE ItemsInv'
<1>1. ASSUME NEW item \in 0 .. MaxItems, NEW budget \in Budgets, NEW ok \in BOOLEAN,
             Items!read_item(item, budget, ok)
      PROVE  ItemsInv'
  <2>1. phase = "open" /\ UNCHANGED <<file, level, phase, total, mapped, pack, per, image>>
    BY <1>1 DEF Items!read_item
  <2>2. item \in Nat BY ItemsAssumption
  <2>3. CASE Items!InRange(item) /\ ok
    <3>1. /\ reply'.asked = <<item>>
          /\ reply'.items = [i \in 1 .. Len(<<item>>) |->
                               Items!ItemIn(Items!Image, per, <<item>>[i])]
      BY <1>1, <2>3 DEF Items!read_item, Items!Answered
    <3>2. /\ item < Items!Count(mapped)
          /\ Items!ItemIn(Items!Image, per, item) = mapped[item]
      BY <2>1, <2>2, <2>3, ItemIsInTheMap
    <3>3. ASSUME NEW i \in 1 .. Len(reply'.asked)
          PROVE  reply'.asked[i] = item
                 /\ reply'.items[i] = Items!ItemIn(Items!Image, per, item)
      <4>1. i = 1 /\ Len(<<item>>) = 1 /\ <<item>>[1] = item BY <3>1
      <4> QED BY <3>1, <4>1
    <3> QED BY <2>1, <3>2, <3>3, ItemReadKeeps
  <2>4. CASE ~(Items!InRange(item) /\ ok)
    <3>1. reply' = Items!Refused BY <1>1, <2>4 DEF Items!read_item
    <3> QED BY <2>1, <3>1, NoItemAsked, ItemReadKeeps
  <2> QED BY <2>3, <2>4
<1>2. ASSUME NEW n \in 0 .. MaxBatch, NEW ids \in [1 .. n -> 0 .. MaxItems],
             NEW budget \in Budgets, NEW reads \in 0 .. n, Items!read_chunks(ids, budget, reads)
      PROVE  ItemsInv'
  <2>1. phase = "open" /\ UNCHANGED <<file, level, phase, total, mapped, pack, per, image>>
    BY <1>2 DEF Items!read_chunks
  <2>2. n \in Nat /\ Len(ids) = n /\ \A i \in 1 .. n : ids[i] \in Nat
    BY ItemsAssumption
  <2>3. CASE reply' = Items!Refused BY <2>1, <2>3, NoItemAsked, ItemReadKeeps
  <2>4. CASE reply' # Items!Refused
    <3>1. /\ \A i \in 1 .. n : Items!InRange(ids[i])
          /\ reply'.asked = ids
          /\ reply'.items = [i \in 1 .. n |-> Items!ItemIn(Items!Image, per, ids[i])]
      BY <1>2, <2>2, <2>4 DEF Items!read_chunks, Items!Answered
    <3>2. ASSUME NEW i \in 1 .. n
          PROVE  /\ ids[i] < Items!Count(mapped)
                 /\ Items!ItemIn(Items!Image, per, ids[i]) = mapped[ids[i]]
      BY <2>1, <2>2, <3>1, ItemIsInTheMap
    <3> QED BY <2>1, <2>2, <3>1, <3>2, ItemReadKeeps
  <2> QED BY <2>3, <2>4
<1>3. ASSUME NEW count \in 0 .. MaxBatch, NEW budget \in Budgets,
             Items!read_dummy_many(count, budget)
      PROVE  ItemsInv'
  <2>1. /\ phase = "open" /\ UNCHANGED <<file, level, phase, total, mapped, pack, per, image>>
        /\ Len(reply'.asked) = 0
    BY <1>3 DEF Items!read_dummy_many, Items!Refused
  <2> QED BY <2>1, ItemReadKeeps
<1>4. CASE \/ Items!from_chunks_file
           \/ \E k, bins_per_table \in 1 .. MaxItems : Items!from_file(k, bins_per_table)
           \/ Items!measure_fails
           \/ \E n \in 1 .. MaxItems : Items!replace_file(n)
           \/ \E per_block \in ItemsPerBlock : Items!open(per_block)
  BY <1>4, BeforePacking
<1>5. CASE Items!pack_block BY <1>5, PackStep
<1>6. CASE \E per_block \in ItemsPerBlock : Items!new(per_block) BY <1>6, OpenStep
<1> QED BY <1>1, <1>2, <1>3, <1>4, <1>5, <1>6 DEF Items!Next

\* What the invariant says of a behaviour that is about items.
WhenItems == table \in {"index", "items"} /\ (table = "items" => ItemsInv)

LEMMA WhenItemsHolds == TablesSpec => []WhenItems
<1>1. TablesInit => WhenItems
  <2>1. ASSUME Items!Init PROVE ItemsInv
    <3>1. PICK n \in 1 .. MaxItems : file = Items!File("old", n) BY <2>1 DEF Items!Init
    <3>2. n \in Nat /\ 0 \in Nat BY ItemsAssumption
    <3>3. Items!Count(file) \in Nat BY <3>1, <3>2, FilesAreCounted
    <3>4. Items!Count(mapped) \in Nat BY <2>1, <3>2, FilesAreCounted DEF Items!Init
    <3>5. Len(reply.asked) = 0 BY <2>1, NoItemAsked DEF Items!Init
    <3> QED BY <2>1, <3>3, <3>4, <3>5 DEF Items!Init, ItemsInv, ItemReplyRight
  <2> QED BY <2>1 DEF TablesInit, WhenItems
<1>2. WhenItems /\ [index_step \/ item_step]_tableVars => WhenItems'
  <2> SUFFICES ASSUME WhenItems, [index_step \/ item_step]_tableVars PROVE WhenItems'
    OBVIOUS
  <2>1. CASE index_step BY <2>1 DEF index_step, WhenItems
  <2>2. CASE item_step BY <2>2, ItemsStep DEF item_step, WhenItems
  <2>3. CASE UNCHANGED tableVars
    <3>1. UNCHANGED <<file, phase, total, mapped, pack, per, image, reply, table>>
      BY <2>3 DEF tableVars, vars, reader_vars, build_vars, item_vars
    <3>2. ASSUME ItemsInv PROVE ItemsInv'
      <4>1. \A block : PackedBlock(block)' = PackedBlock(block)
        BY <3>1 DEF PackedBlock, Items!PackBlock
      <4>2. \A block : Items!Wanted(block)' = Items!Wanted(block)
        BY <3>1 DEF Items!Wanted, Items!Locate
      <4>3. Items!Count(mapped)' = Items!Count(mapped) /\ Items!Count(file)' = Items!Count(file)
        BY <3>1 DEF Items!Count
      <4>4. ImageIsTheMap => ImageIsTheMap' BY <3>1, <4>1, <4>2, <4>3 DEF ImageIsTheMap
      <4>5. ItemReplyRight' BY <3>1, <3>2, <4>3 DEF ItemReplyRight, ItemsInv
      <4> QED BY <3>1, <3>2, <4>3, <4>4, <4>5 DEF ItemsInv, Items!DivCeil
    <3> QED BY <3>1, <3>2 DEF WhenItems
  <2> QED BY <2>1, <2>2, <2>3
<1> QED BY <1>1, <1>2, PTL DEF TablesSpec

\* For every file, packing and batch: a chunk or bin that a read returns is the
\* one of that number in the file that was mapped (read_block and the readers of
\* src/src/direct.rs and src/src/cuckoo.rs), also when the file was replaced by a
\* shorter one between its measurement and its map.
THEOREM ReadsReturnTheMappedItem == TablesSpec => ItemsAnswerTheFile
<1>1. WhenItems /\ WhenItems' /\ [index_step \/ item_step]_tableVars
        => [table = "items" => Items!ReadStep]_tableVars
  <2> SUFFICES ASSUME WhenItems, WhenItems', [index_step \/ item_step]_tableVars,
                      table = "items"
               PROVE  UNCHANGED tableVars \/ Items!ReadStep
    OBVIOUS
  <2>1. CASE index_step BY <2>1 DEF index_step
  <2>2. CASE item_step
    <3>1. ItemsInv' BY <2>2 DEF item_step, WhenItems
    <3>2. CASE mapped' = mapped
      <4>1. Items!Count(mapped)' = Items!Count(mapped) BY <3>2 DEF Items!Count
      <4> QED BY <3>1, <3>2, <4>1 DEF ItemsInv, ItemReplyRight, Items!ReadStep
    <3>3. CASE mapped' # mapped
      \* Only open maps a file, before anything was asked.
      <4>1. \E per_block \in ItemsPerBlock : Items!open(per_block)
        BY <2>2, <3>3 DEF item_step, Items!Next, Items!from_chunks_file, Items!from_file,
           Items!Measured, Items!measure_fails, Items!replace_file, Items!pack_block, Items!new,
           Items!read_item, Items!read_chunks, Items!read_dummy_many
      <4>2. phase = "map" /\ reply' = reply BY <4>1 DEF Items!open
      <4>3. Len(reply.asked) = 0 BY <4>2 DEF WhenItems, ItemsInv
      <4> QED BY <4>2, <4>3 DEF Items!ReadStep
    <3> QED BY <3>2, <3>3
  <2> QED BY <2>1, <2>2
<1> QED BY <1>1, WhenItemsHolds, PTL DEF TablesSpec, ItemsAnswerTheFile
=============================================================================

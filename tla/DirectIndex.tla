----------------------------- MODULE DirectIndex -----------------------------
(***************************************************************************)
(* The direct INDEX table (src/src/direct.rs): its cuckoo placement, built  *)
(* record by record and kick by kick, the packed ORAM image made from it    *)
(* and the reader that resolves script hashes through the image.            *)
(*                                                                         *)
(* The hash functions are free: the candidate bins of a script hash are     *)
(* whatever the draws of the loop yield, and a kick evicts any slot.  The   *)
(* ORAM behind the reader keeps what was written (CircuitOram) and may      *)
(* refuse a read because its stash is full.                                 *)
(***************************************************************************)
EXTENDS PackedTable, Sequences, FiniteSets

CONSTANTS
  Records,      \* records of the index file
  Hashes,       \* script hashes, in the file or not
  Bins,         \* total_items
  SlotsPerBin,
  HashFns,
  MaxKicks,     \* DIRECT_CUCKOO_MAX_KICKS
  PackFactors,  \* items_per_block a build may ask for
  Budgets,      \* drain_per_read
  MaxDebt       \* bound: eviction debt

ASSUME IndexAssumption ==
  /\ Records \in Nat
  /\ Bins \in Nat \ {0}
  /\ SlotsPerBin \in Nat \ {0}
  /\ HashFns \in Nat \ {0}
  /\ MaxKicks \in Nat
  /\ PackFactors \subseteq Nat \ {0}
  /\ Budgets \subseteq Nat
  /\ MaxDebt \in Nat

Record == 0 .. Records - 1
Bin    == 0 .. Bins - 1
Slot   == 0 .. SlotsPerBin - 1
Empty  == -1

VARIABLES
  hash,        \* script hash of each record
  bins,        \* candidate bins of each script hash, as far as they were drawn
  placement,   \* record in each slot of each bin
  phase,       \* "place", "kick", "done", "failed"; then "open"
  record_idx,  \* record of the file being inserted
  current,     \* record in hand: that record or one evicted on its behalf
  current_bin, \* bin the next kick evicts from
  kick,        \* kicks of this insertion
  pack,        \* items_per_block of the image
  image,       \* logical blocks of the ORAM
  debt,        \* pending evictions
  reply

build_vars  == <<hash, bins, placement, phase, record_idx, current, current_bin, kick>>
reader_vars == <<pack, image, debt, reply>>
vars == <<build_vars, reader_vars>>

-----------------------------------------------------------------------------
(* Candidate bins.                                                          *)

\* The hashes whose bins are asked for: of the record in hand, or any that a
\* caller looks up.
Needed(h) == phase = "open" \/ (phase = "place" /\ hash[current] = h)

\* One turn of the loop of direct_index_candidate_bins: the bin of the next
\* nonce is kept unless it is already in the list.  The nonce counts on for ever
\* and is left out: a turn that keeps nothing changes nothing.
draw(h, bin) ==
  /\ Needed(h)
  /\ Len(bins[h]) < HashFns
  /\ bins' = [bins EXCEPT ![h] =
                IF \E i \in 1 .. Len(@) : @[i] = bin THEN @ ELSE Append(@, bin)]
  /\ UNCHANGED <<hash, placement, phase, record_idx, current, current_bin, kick, reader_vars>>

Hashed(h) == Len(bins[h]) = HashFns

CandidateBins(r) == bins[hash[r]]

-----------------------------------------------------------------------------
(* Placement.                                                               *)

FreeIn(bin) == {s \in Slot : placement[bin][s] = Empty}

\* Candidate bins of r with an empty slot, other than `except`, by position.
Open(r, except) ==
  {i \in 1 .. HashFns : CandidateBins(r)[i] # except /\ FreeIn(CandidateBins(r)[i]) # {}}

Least(S) == CHOOSE i \in S : \A j \in S : i <= j

\* place_in_empty_slot in the first candidate bin that has one.
PlaceInCandidate(table, r, except) ==
  LET bin == CandidateBins(r)[Least(Open(r, except))]
  IN [table EXCEPT ![bin][Least(FreeIn(bin))] = r]

\* alternate_candidate_bin: the candidate after `bin`, in cyclic order.
alternate_candidate_bin(r, bin, k) ==
  IF \E i \in 1 .. HashFns : CandidateBins(r)[i] = bin
  THEN CandidateBins(r)[((CHOOSE i \in 1 .. HashFns : CandidateBins(r)[i] = bin) % HashFns) + 1]
  ELSE CandidateBins(r)[(k % HashFns) + 1]

\* The insertion in hand succeeded; the next record follows.
Placed ==
  /\ phase' = IF record_idx + 1 = Records THEN "done" ELSE "place"
  /\ record_idx' = record_idx + 1
  /\ current' = IF record_idx + 1 = Records THEN Empty ELSE record_idx + 1
  /\ current_bin' = Empty
  /\ kick' = 0

\* insert_index_record, before the kicks.
insert_index_record ==
  /\ phase = "place"
  /\ Hashed(hash[current])
  /\ IF Open(current, Empty) # {}
     THEN /\ placement' = PlaceInCandidate(placement, current, Empty)
          /\ Placed
     ELSE /\ phase' = "kick"
          /\ current_bin' = CandidateBins(current)[1]
          /\ kick' = 0
          /\ UNCHANGED <<placement, record_idx, current>>
  /\ UNCHANGED <<hash, bins, reader_vars>>

\* Mutant: the evicted record is forgotten.
kick_out_Forgets(slot) ==
  /\ phase = "kick"
  /\ kick < MaxKicks
  /\ placement' = [placement EXCEPT ![current_bin][slot] = current]
  /\ Placed
  /\ UNCHANGED <<hash, bins, reader_vars>>

\* Mutant: the kicks are not counted.
kick_out_Uncounted(slot) ==
  /\ phase = "kick"
  /\ \E evicted \in {placement[current_bin][slot]} :
     \E table \in {[placement EXCEPT ![current_bin][slot] = current]} :
       IF Open(evicted, current_bin) # {}
       THEN placement' = PlaceInCandidate(table, evicted, current_bin) /\ Placed
       ELSE /\ placement' = table
            /\ current' = evicted
            /\ current_bin' = alternate_candidate_bin(evicted, current_bin, kick + 1)
            /\ UNCHANGED <<phase, record_idx, kick>>
  /\ UNCHANGED <<hash, bins, reader_vars>>

\* One kick: the record in hand takes the slot, the evicted one is placed in
\* another of its bins or becomes the record in hand.
kick_out(slot) ==
  /\ phase = "kick"
  /\ kick < MaxKicks
  /\ \E evicted \in {placement[current_bin][slot]} :
     \E table \in {[placement EXCEPT ![current_bin][slot] = current]} :
       IF evicted = Empty
       THEN placement' = table /\ Placed
       ELSE IF Open(evicted, current_bin) # {}
       THEN placement' = PlaceInCandidate(table, evicted, current_bin) /\ Placed
       ELSE /\ placement' = table
            /\ current' = evicted
            /\ current_bin' = alternate_candidate_bin(evicted, current_bin, kick + 1)
            /\ kick' = kick + 1
            /\ UNCHANGED <<phase, record_idx>>
  /\ UNCHANGED <<hash, bins, reader_vars>>

\* After the last kick the build reports an error and the table is dropped.
give_up ==
  /\ phase = "kick"
  /\ kick = MaxKicks
  /\ phase' = "failed"
  /\ UNCHANGED <<hash, bins, placement, record_idx, current, current_bin, kick, reader_vars>>

-----------------------------------------------------------------------------
(* The image and its reader.                                                *)

\* encode_bin: the slots of a bin, each with its record or zero.
EncodedBin == [b \in Bin |-> placement[b]]

\* build_trusted_from_source over the packed source.
build_image(per_block) ==
  /\ phase = "done"
  /\ phase' = "open"
  /\ pack' = per_block
  /\ image' = PackedImage(EncodedBin, Bins, per_block)
  /\ UNCHANGED <<hash, bins, placement, record_idx, current, current_bin, kick, debt, reply>>

\* Mutant: the last candidate bin is read and not scanned.
Found_LastBinUnread(h) ==
  {p \in (1 .. HashFns - 1) \X Slot :
     \E bin \in {ItemIn(image, pack, bins[h][p[1]])} :
       bin[p[2]] # Empty /\ hash[bin[p[2]]] = h}

\* The slots of the bins read for h that hold it, as <<position, slot>> in the
\* order in which they are scanned.
Found(h) ==
  {p \in (1 .. HashFns) \X Slot :
     \E bin \in {ItemIn(image, pack, bins[h][p[1]])} :
       bin[p[2]] # Empty /\ hash[bin[p[2]]] = h}

FirstFound(S) == CHOOSE p \in S : \A q \in S : p[1] < q[1] \/ (p[1] = q[1] /\ p[2] <= q[2])

\* select_index_record_from_bin over all candidate bins: the first match wins.
Answer(h) ==
  IF Found(h) = {} THEN Empty
  ELSE ItemIn(image, pack, bins[h][FirstFound(Found(h))[1]])[FirstFound(Found(h))[2]]

Ask(h) == phase = "open" /\ Hashed(h)

\* What the storage sees of a call: it stands for `lookups` lookups, reads that
\* many paths and drains that many, with a budget per read.
Cost(lookups, budget, reads, drained) ==
  [lookups |-> lookups, budget |-> budget, reads |-> reads, drained |-> drained]

Replies(asked, records, cost) == [asked |-> asked, records |-> records, cost |-> cost]
Refused == Replies(<<>>, <<>>, Cost(0, 0, 0, 0))

\* The candidate bins of all hashes: one read for each.
CandidateReads(hs) ==
  Cardinality({p \in (1 .. Len(hs)) \X (1 .. HashFns) : p[2] <= Len(bins[hs[p[1]]])})

\* What a call that made `reads` reads has drained in the end.
PaidOff(reads) == debt + reads * EvictionsPerAccess - debt'

\* lookup: one read and one drain per candidate bin; `reads` of them succeed.
lookup(h, budget, reads) ==
  \E n \in {CandidateReads(<<h>>)} :
    /\ Ask(h)
    /\ debt + n * EvictionsPerAccess <= MaxDebt
    /\ debt' = DebtAfterRounds(debt, budget)[reads]
    /\ reply' = IF reads < n THEN Refused
                ELSE Replies(<<h>>, <<Answer(h)>>, Cost(1, budget, n, PaidOff(n)))
    /\ UNCHANGED <<build_vars, pack, image>>

\* lookup_many_batched and lookup_batched: the candidate bins of all hashes in
\* one batch, one drain after it.  A refused batch keeps the debt of the
\* accesses it made and returns before the drain.
lookup_many_batched(hs, budget, reads) ==
  \E n \in {CandidateReads(hs)} :
    /\ \A i \in 1 .. Len(hs) : Ask(hs[i])
    /\ debt + n * EvictionsPerAccess <= MaxDebt
    /\ IF reads < n
       THEN /\ debt' = debt + reads * EvictionsPerAccess
            /\ reply' = Refused
       ELSE /\ debt' = DebtAfterBatch(debt, budget, n)
            /\ reply' = Replies(hs, [i \in 1 .. Len(hs) |-> Answer(hs[i])],
                                Cost(Len(hs), budget, n, PaidOff(n)))
    /\ UNCHANGED <<build_vars, pack, image>>

\* read_dummy_candidates: random paths in one batch and one drain after it.
read_dummy_candidates(lookups, count, budget) ==
  /\ phase = "open"
  /\ debt + count * EvictionsPerAccess <= MaxDebt
  /\ debt' = DebtAfterBatch(debt, budget, count)
  /\ reply' = Replies(<<>>, <<>>, Cost(lookups, budget, count, PaidOff(count)))
  /\ UNCHANGED <<build_vars, pack, image>>

\* Mutant: one path for each lookup.
lookup_dummy_many_OnePath(lookups, budget) ==
  read_dummy_candidates(lookups, lookups, budget)

\* lookup_dummy and lookup_dummy_many: as many random paths as the lookups
\* would read, from the number of hash functions in the metadata.
lookup_dummy_many(lookups, budget) ==
  read_dummy_candidates(lookups, HashFns * lookups, budget)

-----------------------------------------------------------------------------
Init ==
  /\ hash \in [Record -> Hashes]
  /\ bins = [h \in Hashes |-> <<>>]
  /\ placement = [b \in Bin |-> [s \in Slot |-> Empty]]
  /\ phase = IF Records = 0 THEN "done" ELSE "place"
  /\ record_idx = 0
  /\ current = IF Records = 0 THEN Empty ELSE 0
  /\ current_bin = Empty
  /\ kick = 0
  /\ pack = 1
  /\ image = <<>>
  /\ debt = 0
  /\ reply = Refused

Next ==
  \/ \E h \in Hashes, bin \in Bin : draw(h, bin)
  \/ insert_index_record
  \/ \E slot \in Slot : kick_out(slot)
  \/ give_up
  \/ \E per_block \in PackFactors : build_image(per_block)
  \/ \E h \in Hashes, budget \in Budgets, reads \in 0 .. HashFns : lookup(h, budget, reads)
  \/ \E g, h \in Hashes, budget \in Budgets, reads \in 0 .. 2 * HashFns :
       lookup_many_batched(<<g, h>>, budget, reads)
  \/ \E lookups \in 1 .. 2, budget \in Budgets : lookup_dummy_many(lookups, budget)

Spec == Init /\ [][Next]_vars

-----------------------------------------------------------------------------
Copies(r) == {p \in Bin \X Slot : placement[p[1]][p[2]] = r}

\* Taken from the file and not in hand.
Settled(r) ==
  \/ phase \in {"done", "open"}
  \/ r < record_idx /\ r # current
  \/ r = record_idx /\ phase \in {"kick", "failed"} /\ r # current

\* However long a chain of kicks is, every record read so far rests in exactly
\* one slot, of one of its own candidate bins; only the record in hand is out.
EveryRecordInACandidateBin ==
  /\ \A r \in Record : Settled(r) =>
       \E b \in Bin, s \in Slot :
         /\ Copies(r) = {<<b, s>>}
         /\ \E i \in 1 .. HashFns : CandidateBins(r)[i] = b
  /\ phase \in {"kick", "failed"} => Copies(current) = {}

\* A lookup that is answered, alone or in a batch, finds a record of the script
\* hash exactly when the file has one.
LookupStep ==
  \A i \in 1 .. Len(reply'.asked) :
    \E r \in {reply'.records[i]} :
      IF \E x \in Record : hash[x] = reply'.asked[i]
      THEN r # Empty /\ hash[r] = reply'.asked[i]
      ELSE r = Empty

\* What n lookups may be seen to cost, whichever way they are made and whether
\* they are real: a number of reads and of drained paths that depends only on n,
\* the budget and the debt.
PublicCost(n, budget) ==
  LET reads == HashFns * n
  IN Cost(n, budget, reads, Drained(debt + reads * EvictionsPerAccess, reads * budget))

\* "Spend the same number of INDEX reads as a real direct lookup": a call that
\* completes, be it a lookup that drains after each of its reads, a batch of
\* lookups or dummies, reads and drains what PublicCost says, also from the debt
\* that refused calls have left.
SameCostStep ==
  reply'.cost.lookups > 0 =>
    reply'.cost = PublicCost(reply'.cost.lookups, reply'.cost.budget)

\* The build ends, with a table or with an error.
BuildEnds == <>(phase \in {"done", "failed", "open"})
=============================================================================

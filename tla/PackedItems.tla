----------------------------- MODULE PackedItems -----------------------------
(***************************************************************************)
(* Tables whose items are addressed by number: the direct CHUNK array       *)
(* (src/src/direct.rs) and the bins of a cuckoo table (src/src/cuckoo.rs).  *)
(* A table file is measured, mapped, packed block by block into an ORAM     *)
(* image and read through it.                                               *)
(*                                                                         *)
(* The file is measured and opened by two calls, so another process may     *)
(* have put a new file in its place between them (with the same header).    *)
(***************************************************************************)
EXTENDS PackedTable, Sequences, FiniteSets

CONSTANTS
  MaxItems,     \* bound: items of a table file
  PackFactors,  \* items_per_block, bins_per_block
  Budgets,      \* drain_per_access
  MaxBatch,     \* bound: chunks of one batch
  MaxDebt       \* bound: eviction debt

VARIABLES
  file,    \* items of the table file, with the version of the file they are from
  level,   \* "chunk" or "cuckoo"
  phase,   \* "measure", "map", "pack", "built", "open" or "failed"
  total,   \* items according to the measurement
  mapped,  \* the file that was mapped
  pack,    \* items in one block of the image
  per,     \* items in one block according to the reader
  image,   \* logical blocks of the ORAM written so far
  debt,    \* pending evictions
  reply

vars == <<file, level, phase, total, mapped, pack, per, image, debt, reply>>

\* A file of n items.
File(version, n) == [i \in 0 .. n - 1 |-> <<version, i>>]

Count(f) == Cardinality(DOMAIN f)

Refused == [asked |-> <<>>, items |-> <<>>, drained |-> 0]

-----------------------------------------------------------------------------
(* Measuring, mapping and packing.                                          *)

Measured(n) ==
  /\ total' = n
  /\ phase' = "map"
  /\ UNCHANGED <<file, level, mapped, pack, per, image, debt, reply>>

\* from_chunks_file: a whole number of records (a ragged file is refused and
\* the build ends there).
from_chunks_file ==
  /\ phase = "measure"
  /\ level = "chunk"
  /\ Measured(Count(file))

\* from_file: the header names k groups of bins, as many as the file holds.
from_file(k, bins_per_table) ==
  /\ phase = "measure"
  /\ level = "cuckoo"
  /\ k * bins_per_table = Count(file)
  /\ Measured(k * bins_per_table)

\* The file is empty, ragged, or not as long as its header says.
measure_fails ==
  /\ phase = "measure"
  /\ phase' = "failed"
  /\ UNCHANGED <<file, level, total, mapped, pack, per, image, debt, reply>>

\* Another process renames a new file over the table.
replace_file(n) ==
  /\ phase = "map"
  /\ file' = File("new", n)
  /\ UNCHANGED <<level, phase, total, mapped, pack, per, image, debt, reply>>

\* open: the map outlives later replacements of the file.
open(per_block) ==
  /\ phase = "map"
  /\ phase' = "pack"
  /\ mapped' = file
  /\ pack' = per_block
  /\ UNCHANGED <<file, level, total, per, image, debt, reply>>

\* Items of the next block that the measurement promises.
Wanted(block) == {i \in 0 .. total - 1 : Locate(pack, i).block = block}

\* Mutant: a block that reaches past the end of the map is filled up with
\* zeros.
read_block_Padded(block) ==
  /\ image' = Append(image, PackBlock(mapped, Count(mapped), pack, block))
  /\ phase' = IF block + 1 = DivCeil(total, pack) THEN "built" ELSE phase

\* read_block: a block that reaches past the end of the map is an error.
read_block(block) ==
  IF \E i \in Wanted(block) : i >= Count(mapped)
  THEN /\ phase' = "failed"
       /\ UNCHANGED image
  ELSE /\ image' = Append(image, PackBlock(mapped, total, pack, block))
       /\ phase' = IF block + 1 = DivCeil(total, pack) THEN "built" ELSE phase

\* One block of build_trusted_from_source.
pack_block ==
  /\ phase = "pack"
  /\ Len(image) < DivCeil(total, pack)
  /\ read_block(Len(image))
  /\ UNCHANGED <<file, level, total, mapped, pack, per, debt, reply>>

-----------------------------------------------------------------------------
(* Reads through the ORAM, which may refuse one because its stash is full.  *)

\* new: the reader is told the packing again; block count and block size must
\* be those of the ORAM, otherwise it is not made.
new(per_block) ==
  /\ phase = "built"
  /\ DivCeil(total, per_block) = Len(image)
  /\ per_block = pack
  /\ per' = per_block
  /\ phase' = "open"
  /\ UNCHANGED <<file, level, total, mapped, pack, image, debt, reply>>

Image == [block \in 0 .. Len(image) - 1 |-> image[block + 1]]

InRange(item) == item < total

Answered(ids, before) ==
  [asked |-> ids, items |-> [i \in 1 .. Len(ids) |-> ItemIn(Image, per, ids[i])],
   drained |-> before - debt']

\* read_chunk, read_bin: one read, one drain.
read_item(item, budget, ok) ==
  /\ phase = "open"
  /\ debt + EvictionsPerAccess <= MaxDebt
  /\ IF InRange(item) /\ ok
     THEN /\ debt' = DebtAfterRounds(debt, budget)[1]
          /\ reply' = Answered(<<item>>, debt + EvictionsPerAccess)
     ELSE /\ reply' = Refused
          /\ UNCHANGED debt
  /\ UNCHANGED <<file, level, phase, total, mapped, pack, per, image>>

\* read_chunks: every id is located before the batch is read; `reads` accesses
\* of a refused batch add to the debt.
read_chunks(ids, budget, reads) ==
  /\ phase = "open"
  /\ level = "chunk"
  /\ debt + Len(ids) * EvictionsPerAccess <= MaxDebt
  /\ IF \E i \in 1 .. Len(ids) : ~InRange(ids[i])
     THEN reply' = Refused /\ UNCHANGED debt
     ELSE IF reads < Len(ids)
     THEN reply' = Refused /\ debt' = debt + reads * EvictionsPerAccess
     ELSE /\ debt' = DebtAfterBatch(debt, budget, Len(ids))
          /\ reply' = Answered(ids, debt + Len(ids) * EvictionsPerAccess)
  /\ UNCHANGED <<file, level, phase, total, mapped, pack, per, image>>

\* read_dummy, read_dummy_many
read_dummy_many(count, budget) ==
  /\ phase = "open"
  /\ level = "chunk"
  /\ debt + count * EvictionsPerAccess <= MaxDebt
  /\ debt' = DebtAfterBatch(debt, budget, count)
  /\ reply' = [Refused EXCEPT !.drained = debt + count * EvictionsPerAccess - debt']
  /\ UNCHANGED <<file, level, phase, total, mapped, pack, per, image>>

-----------------------------------------------------------------------------
Init ==
  /\ level \in {"chunk", "cuckoo"}
  /\ \E n \in 1 .. MaxItems : file = File("old", n)
  /\ phase = "measure"
  /\ total = 0
  /\ mapped = File("old", 0)
  /\ pack = 1
  /\ per = 1
  /\ image = <<>>
  /\ debt = 0
  /\ reply = Refused

Next ==
  \/ from_chunks_file
  \/ \E k, bins_per_table \in 1 .. MaxItems : from_file(k, bins_per_table)
  \/ measure_fails
  \/ \E n \in 1 .. MaxItems : replace_file(n)
  \/ \E per_block \in PackFactors : open(per_block)
  \/ pack_block
  \/ \E per_block \in PackFactors : new(per_block)
  \/ \E item \in 0 .. MaxItems, budget \in Budgets, ok \in BOOLEAN : read_item(item, budget, ok)
  \/ \E n \in 0 .. MaxBatch : \E ids \in [1 .. n -> 0 .. MaxItems], budget \in Budgets :
       \E reads \in 0 .. n : read_chunks(ids, budget, reads)
  \/ \E count \in 0 .. MaxBatch, budget \in Budgets : read_dummy_many(count, budget)

Spec == Init /\ [][Next]_vars

-----------------------------------------------------------------------------
\* Every item that a read returns, alone or in a batch, is the item of that
\* number in the file that was mapped; so a file that became shorter after it
\* was measured is never served.
ReadStep ==
  \A i \in 1 .. Len(reply'.asked) :
    /\ reply'.asked[i] < Count(mapped)
    /\ reply'.items[i] = mapped[reply'.asked[i]]
=============================================================================

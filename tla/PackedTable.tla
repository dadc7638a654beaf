----------------------------- MODULE PackedTable -----------------------------
(***************************************************************************)
(* What the table readers share (src/src/direct.rs, src/src/cuckoo.rs):     *)
(* items packed into ORAM blocks, and the eviction debt that reads run up   *)
(* and drains pay.                                                          *)
(***************************************************************************)
EXTENDS Integers

CONSTANTS
  Zero,               \* content of an item slot past the end of the table
  EvictionsPerAccess  \* eviction paths one access adds to the debt

ASSUME DebtAssumption == EvictionsPerAccess \in Nat \ {0}

DivCeil(a, b) == (a + b - 1) \div b

\* Location of an item: its block and its place in the block.
Locate(per_block, item) == [block |-> item \div per_block, offset |-> item % per_block]

\* One packed block of a table of `total` items; the tail of the last block is
\* left zero.
PackBlock(table, total, per_block, block) ==
  [offset \in 0 .. per_block - 1 |->
     IF block * per_block + offset < total THEN table[block * per_block + offset] ELSE Zero]

\* The image a trusted build leaves: every block of the source in turn.
PackedImage(table, total, per_block) ==
  [block \in 0 .. DivCeil(total, per_block) - 1 |-> PackBlock(table, total, per_block, block)]

ItemIn(image, per_block, item) ==
  image[Locate(per_block, item).block][Locate(per_block, item).offset]

-----------------------------------------------------------------------------
(* Eviction debt.                                                           *)

\* drain_evictions: the smaller of the budget and the debt.
Drained(debt, budget) == IF budget <= debt THEN budget ELSE debt

\* The debt after k rounds of one access and one drain.
DebtAfterRounds(debt, budget) ==
  LET after[k \in Nat] ==
        IF k = 0 THEN debt
        ELSE LET due == after[k - 1] + EvictionsPerAccess IN due - Drained(due, budget)
  IN after

\* The debt after one batch of k accesses and one drain of k budgets.
DebtAfterBatch(debt, budget, k) ==
  LET due == debt + k * EvictionsPerAccess IN due - Drained(due, k * budget)

=============================================================================

------------------------------- MODULE Tables -------------------------------
(***************************************************************************)
(* The tables of an image: the direct INDEX table (DirectIndex), and the     *)
(* tables whose items are addressed by number (PackedItems).  A behaviour is *)
(* one of one table; the variables of the other do not change.              *)
(***************************************************************************)
EXTENDS DirectIndex

CONSTANTS MaxItems, ItemsPerBlock, MaxBatch   \* of PackedItems

ASSUME ItemsAssumption ==
  /\ MaxItems \in Nat
  /\ ItemsPerBlock \subseteq Nat \ {0}
  /\ MaxBatch \in Nat

VARIABLES
  table,                            \* the table this behaviour is about
  file, level, total, mapped, per   \* PackedItems

item_vars == <<file, level, total, mapped, per>>
tableVars == <<vars, item_vars, table>>

Items == INSTANCE PackedItems WITH PackFactors <- ItemsPerBlock

NoItems == file = <<>> /\ level = "none" /\ total = 0 /\ mapped = <<>> /\ per = 1

TablesInit ==
  \/ table = "index" /\ Init /\ NoItems
  \/ /\ table = "items" /\ Items!Init
     /\ hash = <<>> /\ bins = <<>> /\ placement = <<>>
     /\ record_idx = 0 /\ current = Empty /\ current_bin = Empty /\ kick = 0

index_step == table = "index" /\ Next /\ UNCHANGED <<item_vars, table>>

item_step ==
  /\ table = "items" /\ Items!Next
  /\ UNCHANGED <<hash, bins, placement, record_idx, current, current_bin, kick, table>>

\* The loops of the index build run to their end, and the hash functions reach
\* every bin.
BuildFairness ==
  /\ \A h \in Hashes, bin \in Bin :
       WF_tableVars(table = "index" /\ draw(h, bin) /\ UNCHANGED <<item_vars, table>>)
  /\ WF_tableVars(table = "index" /\ insert_index_record /\ UNCHANGED <<item_vars, table>>)
  /\ WF_tableVars(table = "index" /\ (\E slot \in Slot : kick_out(slot))
                    /\ UNCHANGED <<item_vars, table>>)
  /\ WF_tableVars(table = "index" /\ give_up /\ UNCHANGED <<item_vars, table>>)

TablesSpec ==
  /\ TablesInit /\ [][index_step \/ item_step]_tableVars
  /\ BuildFairness

-----------------------------------------------------------------------------
\* "Spend the same number of INDEX reads as a real direct lookup": whoever watches
\* the paths that are read and drained cannot tell a lookup, a batch of lookups
\* and dummies apart (lookup, lookup_many_batched, lookup_dummy_many).
LookupsCostTheSame == [][table = "index" => SameCostStep]_<<debt, reply>>

\* However long a chain of kicks is, every record read so far rests in exactly
\* one slot, of one of its own candidate bins; only the record in hand is out.
RecordsInCandidateBins == table = "index" => EveryRecordInACandidateBin

\* A lookup that is answered, alone or in a batch, finds a record of the script
\* hash exactly when the file has one.
IndexAnswersTheFile == [][table = "index" => LookupStep]_tableVars

\* Every chunk or bin that a read returns is the one of that number in the file
\* that was mapped; a file that became shorter after it was measured is never
\* served.
ItemsAnswerTheFile == [][table = "items" => Items!ReadStep]_tableVars

\* With at least as many bins as hash functions the build of an index ends, with a
\* table or with an error: the candidate bins of every record are found, and no
\* chain of kicks goes on for ever.  The condition is no check of the code: with
\* fewer bins the loop of direct_index_candidate_bins never ends.
IndexBuildEnds == table = "index" /\ Bins >= HashFns => BuildEnds

-----------------------------------------------------------------------------
\* No guard reads the last reply.
WithoutReply == <<build_vars, pack, image, debt, item_vars, table>>
=============================================================================

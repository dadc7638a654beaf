--------------------------- MODULE MCTieredMerkle ---------------------------
(***************************************************************************)
(* TieredMerkle for TLC: page contents are interchangeable model values.    *)
(***************************************************************************)
EXTENDS TieredMerkle, TLC

TwoLostPages == [levels \in TrustedLevels |-> 2]

\* No action looks at the last reply.
WithoutReply == <<trusted_levels, data, disk, trusted, saved, allowed, pending, since, writes, faults>>

ValueSymmetry == Permutations(Values)
=============================================================================

---------------------------- MODULE PowersOfTwo ----------------------------
(***************************************************************************)
(* Shifts, for the heap-numbered trees of buckets and of hashes.            *)
(***************************************************************************)
EXTENDS Integers

\* 1 << n
Pow2[n \in Nat] == IF n = 0 THEN 1 ELSE 2 * Pow2[n - 1]
=============================================================================

------------------------- MODULE MCCircuitOramBatch -------------------------
(***************************************************************************)
(* CircuitOramBatch for TLC: payloads are interchangeable model values.     *)
(***************************************************************************)
EXTENDS CircuitOramBatch, TLC

PayloadSymmetry == Permutations(Payloads)
=============================================================================

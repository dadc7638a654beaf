---------------------------- MODULE MCCircuitOram ----------------------------
(***************************************************************************)
(* CircuitOram for TLC: payloads are interchangeable model values.          *)
(***************************************************************************)
EXTENDS CircuitOram, TLC

PayloadSymmetry == Permutations(Payloads)
=============================================================================

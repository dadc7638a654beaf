------------------------ MODULE MCCircuitOramFaults ------------------------
(***************************************************************************)
(* CircuitOramFaults for TLC: payloads are interchangeable model values.    *)
(***************************************************************************)
EXTENDS CircuitOramFaults, TLC

PayloadSymmetry == Permutations(Payloads)
=============================================================================

------------------------------ MODULE StressLoop ------------------------------
(***************************************************************************)
(* What the loops of stress_circuit and stress_ring share: the configuration *)
(* of the run, the simulated tree, and the block that the next access asks  *)
(* for.                                                                     *)
(***************************************************************************)
EXTENDS StressSim

CONSTANT TotalOps   \* warm-up and measured accesses of one run

ASSUME OpsAssumption == TotalOps \in Nat

VARIABLES
  config,   \* the options of the run, among them its pattern
  sim

\* The blocks that access number `op` may ask for.
next_logical_id(op) ==
  IF config.pattern = "random" THEN Id ELSE {op % LogicalBlocks}
=============================================================================

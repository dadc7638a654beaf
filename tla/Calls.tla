-------------------------------- MODULE Calls --------------------------------
(***************************************************************************)
(* The vocabulary of a call on the logical array: update closures and the   *)
(* Result it returns.                                                       *)
(***************************************************************************)
CONSTANTS
  Payloads,  \* contents of a block
  Keep       \* the update closure of a plain read

ASSUME KeepAssumption == Keep \notin Payloads

Update == Payloads \cup {Keep}

\* What an update closure makes of the current payload.
Apply(update, current) == IF update = Keep THEN current ELSE update

Ok(out)    == [result |-> "ok", out |-> out]
Err(error) == [result |-> error, out |-> <<>>]
=============================================================================

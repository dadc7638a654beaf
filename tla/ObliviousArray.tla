--------------------------- MODULE ObliviousArray ---------------------------
(***************************************************************************)
(* What an ORAM controller promises its caller: an array of logical blocks *)
(* in which every access returns the block's latest payload and may replace *)
(* it.  Dummy accesses and evictions do not touch the array, and a refused  *)
(* operation leaves it as it was.                                          *)
(***************************************************************************)
EXTENDS Calls, Sequences

CONSTANT ArrayId   \* logical block ids

VARIABLES
  mem,      \* the contents
  request,  \* the accesses the last call asked for, as <<id, update>>
  reply     \* what it returned

arrayVars == <<mem, request, reply>>

ArrayInit ==
  /\ mem \in [ArrayId -> Payloads]
  /\ request = <<>>
  /\ reply = Ok(<<>>)

Access(id, update) ==
  /\ request' = <<<<id, update>>>>
  /\ reply' = Ok(<<mem[id]>>)
  /\ mem' = [mem EXCEPT ![id] = Apply(update, @)]

\* A dummy access or background evictions.
Maintain ==
  /\ request' = <<>>
  /\ reply' = Ok(<<>>)
  /\ UNCHANGED mem

\* A block is never reported missing: BlockNotFound is no legal answer.
Refuse ==
  /\ request' \in Seq(ArrayId \X Update)
  /\ reply' \in {Err("InvalidInput"), Err("StashOverflow")}
  /\ UNCHANGED mem

ArrayNext ==
  \/ \E id \in ArrayId, update \in Update : Access(id, update)
  \/ Maintain
  \/ Refuse

ArraySpec == ArrayInit /\ [][ArrayNext]_arrayVars
=============================================================================

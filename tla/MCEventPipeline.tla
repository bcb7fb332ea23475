--------------------------- MODULE MCEventPipeline ---------------------------
(***************************************************************************)
(* Instances of EventPipeline for TLC.  Transactions are numbers because   *)
(* their order in a block matters, so they are not a symmetry set.         *)
(***************************************************************************)
EXTENDS EventPipelineInv

NeverWritten == Unset

OneTx == {1}
TwoTxs == {1, 2}        \* two events that may share a block or swap blocks

=============================================================================

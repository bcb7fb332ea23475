------------------------- MODULE MCPaymasterBudget -------------------------
(***************************************************************************)
(* Instances of PaymasterBudget for TLC.  Calls are no symmetry set: one   *)
(* of the runs checks liveness.                                            *)
(***************************************************************************)
EXTENDS PaymasterBudget

CONSTANTS c1, c2, c3, t1, t2
============================================================================

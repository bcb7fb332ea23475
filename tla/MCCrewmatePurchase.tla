------------------------- MODULE MCCrewmatePurchase -------------------------
(***************************************************************************)
(* Instances of CrewmatePurchase for TLC.                                  *)
(***************************************************************************)
EXTENDS CrewmatePurchase

CONSTANTS w1, w2, r1, r2, r3, ada, bea
=============================================================================

------------------------- MODULE MCOffchainPurchase -------------------------
(***************************************************************************)
(* Instances of OffchainPurchase for TLC.                                  *)
(***************************************************************************)
EXTENDS OffchainPurchase

CONSTANTS w1, w2, r1, r2, r3, ada, bea
=============================================================================

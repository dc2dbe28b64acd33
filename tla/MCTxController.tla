--------------------------- MODULE MCTxController ---------------------------
(* TxController for TLC: two clips and two starts that may ask for the same   *)
(* or for different ones, so that a cached render is reused or replaced.      *)
EXTENDS TxController
=============================================================================

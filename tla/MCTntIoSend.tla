---------------------------- MODULE MCTntIoSend -----------------------------
(* Model-checking instance of TntIoSend; the constants are in the .cfg. *)
EXTENDS TntIoSend
=============================================================================

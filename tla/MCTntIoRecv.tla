---------------------------- MODULE MCTntIoRecv -----------------------------
(* Model-checking instance of TntIoRecv; the constants are in the .cfg. *)
EXTENDS TntIoRecv
=============================================================================

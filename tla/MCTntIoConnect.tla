--------------------------- MODULE MCTntIoConnect ---------------------------
(* Model-checking instances of TntIoConnect; the constants are in the .cfg. *)
EXTENDS TntIoConnect
=============================================================================

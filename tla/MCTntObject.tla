----------------------------- MODULE MCTntObject ----------------------------
(* Model-checking instances of TntObject; the constants are in the .cfg. *)
EXTENDS TntObject
=============================================================================

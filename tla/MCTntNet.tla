------------------------------ MODULE MCTntNet ------------------------------
(* Model-checking instances of TntNet; the constants are in the .cfg files. *)
EXTENDS TntNet
=============================================================================

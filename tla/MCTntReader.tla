---- MODULE MCTntReader ----
(* The instance of TntReader that TLC checks. *)
EXTENDS TntReader
====

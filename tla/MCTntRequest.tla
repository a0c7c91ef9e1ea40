---- MODULE MCTntRequest ----
(* The instance of TntRequest that TLC checks. *)
EXTENDS TntRequest
====

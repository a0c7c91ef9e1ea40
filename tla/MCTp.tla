---- MODULE MCTp ----
(* The instance of Tp that TLC checks. *)
EXTENDS Tp
====

----------------------------- MODULE MCTntSchema -----------------------------
(* TLC instance of TntSchema: two names and two numbers, so that a space   *)
(* can be renamed, renumbered or replaced between loads.                   *)
EXTENDS TntSchema, TLC
Symmetry == Permutations(Addrs) \cup Permutations(Names)
=============================================================================

------------------------------ MODULE MCMapAssets ------------------------------
(* Instances of MapAssets for TLC. *)
EXTENDS MapAssets, TLC

Symmetric == Permutations(Worker)
=============================================================================

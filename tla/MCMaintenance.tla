----------------------------- MODULE MCMaintenance -----------------------------
(* Maintenance for TLC: two calls on two partitions; the calls of one kind are   *)
(* alike, and so are the partitions.                                             *)
EXTENDS Maintenance, TLC

Symmetry == Permutations(Applies) \cup Permutations(Part)
================================================================================

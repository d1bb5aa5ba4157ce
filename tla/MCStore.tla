------------------------------- MODULE MCStore -------------------------------
(* Instances of Store. *)
EXTENDS StoreProperties, Workloads, TLC

Symmetry == Permutations(Sessions)
=============================================================================

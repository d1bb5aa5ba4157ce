------------------------------ MODULE MCCatalog ------------------------------
(* Instances of Catalog. *)
EXTENDS Catalog, Workloads, TLC

Symmetry == Permutations(Sessions)
=============================================================================

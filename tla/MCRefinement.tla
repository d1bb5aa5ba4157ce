----------------------------- MODULE MCRefinement -----------------------------
(* Instances of Store that implement Catalog. *)
EXTENDS MCStore

ASSUME RefinementAssumption == Serial \/ Quiet
=============================================================================

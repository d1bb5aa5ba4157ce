----------------------------- MODULE MCSnapshots -----------------------------
(* Instances of Snapshots. *)
EXTENDS Snapshots, Workloads, TLC

Symmetry == Permutations(Sessions)
=============================================================================

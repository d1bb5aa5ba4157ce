------------------------------- MODULE MCBatch -------------------------------
(* Instances of Batch. *)
EXTENDS Batch, Workloads, TLC

ASSUME UntornAssumption == Untorn

\* A flag, one that is not there, and the first again.
Thrice == {[flags |-> <<"f", "g", "f">>, ctx |-> Ask({c2}, {}).ctx]}

Symmetry == Permutations(Sessions)
=============================================================================

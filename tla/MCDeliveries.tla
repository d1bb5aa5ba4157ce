---------------------------- MODULE MCDeliveries ----------------------------
(* Publishers and streams are interchangeable. *)
EXTENDS Deliveries, TLC

Symmetry == Permutations(Publishers) \cup Permutations(Streams)
=============================================================================

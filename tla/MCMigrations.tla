---------------------------- MODULE MCMigrations ----------------------------
(* The statements of migrations/001 to 004. *)
EXTENDS Migrations

Guarded(n) == [i \in 1 .. n |-> TRUE]

MCFiles == <<Guarded(6), <<FALSE>>, Guarded(2), Guarded(6)>>
=============================================================================

------------------------- MODULE MCMigrationRunner -------------------------
(* MigrationRunner with two instances of a new release and one of an old. *)
EXTENDS MigrationRunner, TLC

CONSTANTS new1, new2, old

Releases == (new1 :> 3) @@ (new2 :> 3) @@ (old :> 2)
=============================================================================

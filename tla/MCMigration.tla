---------------------------- MODULE MCMigration -----------------------------
EXTENDS Migration, TLC

CONSTANTS r1, r2, r3

\* Two rows of one instant that a LIMIT of two can separate.
Instants == (r1 :> 1) @@ (r2 :> 2) @@ (r3 :> 2)
=============================================================================

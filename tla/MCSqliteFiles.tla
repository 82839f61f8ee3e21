---------------------------- MODULE MCSqliteFiles ----------------------------
(* Model checking the commands on the database file and the migration.     *)
EXTENDS Migration, TLC

Symmetry == Permutations(Procs)
=============================================================================

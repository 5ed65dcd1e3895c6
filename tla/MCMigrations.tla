---------------------------- MODULE MCMigrations ----------------------------
(* Migrations on a small instance: three versions, and two histories of      *)
(* releases. In the first a release adds to the one before; in the second    *)
(* the migration 2 was merged after 3 had been released. The script of 2     *)
(* may be run again without an error, those of 1 and 3 may not.              *)
EXTENDS Migrations, TLC

MCVersion == 1 .. 3
MCRerunnable == {2}
MCHistories == { {{1}, {1, 2, 3}}, {{1, 3}, {1, 2, 3}} }

ProcessesAlike == Permutations(Process)
=============================================================================

----------------------------- MODULE MCMigrator -----------------------------
(* An instance of the migrator for TLC.                                      *)
EXTENDS Migrator, TLC

CONSTANTS server, cli

File(p, v) == [place |-> p, version |-> v, down |-> TRUE]

ThreeFiles == {File(1, 1), File(2, 2), File(3, 3)}
=============================================================================

---------------------------- MODULE MCMigration ----------------------------
(***************************************************************************)
(* Instances of Migration for TLC: two shards, and a chunk of two          *)
(* documents, one of which is inserted while it migrates.                  *)
(***************************************************************************)
EXTENDS Migration

CONSTANTS A, B, d1, d2
=============================================================================

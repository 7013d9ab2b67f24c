---------------------------- MODULE MCMigration ----------------------------
(***************************************************************************)
(* Starts of the bot on a fresh and on a version 1 database, with crashes   *)
(* between any two statements.                                              *)
(***************************************************************************)
EXTENDS Migration
=============================================================================

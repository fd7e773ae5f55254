---------------------------- MODULE MCMigrations ----------------------------
(* The chain has no parameter: TLC explores all of it.                     *)
EXTENDS Migrations
=============================================================================

---------------------------- MODULE MCPoolService ----------------------------
(* Values for the constants of PoolService that a .cfg cannot write. *)
EXTENDS PoolService

\* opt_retries = -1: retry forever
Forever == -1
=============================================================================

---------------------------- MODULE MCRilDriver -----------------------------
(* TLC instance of RilDriver. *)
EXTENDS RilDriver
=============================================================================

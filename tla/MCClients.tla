----------------------------- MODULE MCClients ------------------------------
(* TLC instance of ClientLib. *)
EXTENDS ClientLib
=============================================================================

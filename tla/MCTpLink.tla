------------------------------ MODULE MCTpLink ------------------------------
(* TLC instance of TpLink. *)
EXTENDS TpLink
=============================================================================

------------------------------ MODULE MCUpilSM ------------------------------
(* TLC instance of UpilSM. *)
EXTENDS UpilSM
=============================================================================

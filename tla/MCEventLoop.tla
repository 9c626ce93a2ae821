----------------------------- MODULE MCEventLoop -----------------------------
(* TLC instance of EventLoop.  Timers and senders are interchangeable; the  *)
(* runs that check liveness do not use the symmetry.                        *)
EXTENDS EventLoop

Symm == Permutations(Timers) \cup Permutations(Senders)
=============================================================================

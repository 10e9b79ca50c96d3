--------------------------- MODULE MCRunScheduler ---------------------------
(* TLC instances of RunScheduler. *)
EXTENDS RunScheduler, TLC
=============================================================================

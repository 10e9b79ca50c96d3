---------------------------- MODULE MCBootstrap -----------------------------
(* TLC instances of Bootstrap. *)
EXTENDS Bootstrap, TLC
=============================================================================

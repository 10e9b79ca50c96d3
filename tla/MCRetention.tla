---------------------------- MODULE MCRetention ----------------------------
(* TLC instances of Retention. *)
EXTENDS Retention, TLC
=============================================================================

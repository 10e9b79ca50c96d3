---------------------------- MODULE MCTaskQueue ----------------------------
(* TLC instances of TaskQueue. *)
EXTENDS TaskQueue, TLC
=============================================================================

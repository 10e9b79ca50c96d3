---------------------------- MODULE MCWorkerPool ----------------------------
(* TLC instances of WorkerPool. *)
EXTENDS WorkerPool, TLC
=============================================================================

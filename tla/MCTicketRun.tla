---------------------------- MODULE MCTicketRun ----------------------------
(* TLC instances of TicketRun. *)
EXTENDS TicketRun, TLC
=============================================================================

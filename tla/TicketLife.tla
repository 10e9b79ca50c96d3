----------------------------- MODULE TicketLife -----------------------------
(***************************************************************************)
(* What the system promises of one ticket, seen by whoever lists tickets   *)
(* and by the customer: a status that moves forward, one outcome that is   *)
(* fixed once, money that is paid only for an approved resolution, and a   *)
(* ticket that is shown as resolved only when all of it has happened.      *)
(* TicketRun implements it.                                                *)
(***************************************************************************)
EXTENDS Naturals

VARIABLES shown,     \* the projected status, "absent" before the first one
          approved,  \* a human has approved the draft
          outcome,   \* what the ticket's terminal task was enqueued with
          pays,      \* that task will execute a refund
          effects    \* "none", "done" or "failed": the terminal task itself

vars == <<shown, approved, outcome, pays, effects>>

Outcomes == {"resolved", "rejected", "escalated"}

\* How far a status is.  An escalation may turn out to have been a rejection and
\* the other way round, but a resolution is the end.
Stage == [absent |-> 0, received |-> 1, classifying |-> 2, drafting |-> 3,
          awaiting_approval |-> 4, rejected |-> 5, escalated |-> 5,
          resolved |-> 6]

Init ==
    /\ shown = "absent"
    /\ approved = FALSE
    /\ outcome = "none"
    /\ pays = FALSE
    /\ effects = "none"

Approve ==
    /\ ~approved
    /\ approved' = TRUE
    /\ UNCHANGED <<shown, outcome, pays, effects>>

\* The outcome is decided once.  Money is paid only for a resolution that was
\* approved.
Commit(status, refund) ==
    /\ outcome = "none"
    /\ refund => status = "resolved" /\ approved
    /\ outcome' = status
    /\ pays' = refund
    /\ UNCHANGED <<shown, approved, effects>>

\* The terminal task has run, or is given up.
Perform(result) ==
    /\ outcome # "none"
    /\ effects = "none"
    /\ effects' = result
    /\ UNCHANGED <<shown, approved, outcome, pays>>

\* A ticket is shown as ended only after its outcome is decided: as resolved
\* only when it is, and has taken effect, as not resolved only when it is not.
Show(status) ==
    /\ Stage[shown] <= Stage[status]
    /\ status = "resolved" => outcome = "resolved" /\ effects = "done"
    /\ status \in {"rejected", "escalated"} =>
           outcome \in {"rejected", "escalated"}
    /\ shown' = status
    /\ UNCHANGED <<approved, outcome, pays, effects>>

Next ==
    \/ Approve
    \/ \E status \in Outcomes, refund \in BOOLEAN : Commit(status, refund)
    \/ \E result \in {"done", "failed"} : Perform(result)
    \/ \E status \in DOMAIN Stage \ {"absent"} : Show(status)

Spec == Init /\ [][Next]_vars
=============================================================================

----------------------------- MODULE Retention -----------------------------
(***************************************************************************)
(* The retention sweep (runner.run_retention with                          *)
(* db.archive_terminal_runs, db.prune_consumed_signals, prune_settled and  *)
(* the checkpointer's adelete_thread) beside everything TicketRun models:  *)
(* runners that step, a reconciler that looks for checkpoints without a    *)
(* run row, workers that settle late.  A sweep is four transactions; the   *)
(* process may die between any two of them.                                *)
(*                                                                         *)
(* Time: retention is measured in days, every single operation in seconds, *)
(* so a week passes only while no operation is under way (AWeekPasses).    *)
(***************************************************************************)
EXTENDS TicketRun

VARIABLES archive,   \* status of the workflow_run_archive row, or "none"
          old,       \* what was written more than the retention age ago
          sweep,     \* the transaction a sweep is about to issue
          recorded   \* the ticket has a ticket_results row

retention == <<archive, old, sweep, recorded>>
sweepVars == <<vars, retention>>

RetentionInit ==
    /\ Init
    /\ archive = "none"
    /\ old = {}
    /\ sweep = "idle"
    /\ recorded = FALSE

-----------------------------------------------------------------------------
(* The workflow goes on *)

\* A delivery of the finalize task records its result before it completes.
Record == recorded' = (recorded \/ task'["finalize"] = "done")

\* Statements that set updated_at of the run row.
Touch ==
    /\ \/ Claim \/ Release \/ SaveRun \/ ReclaimRuns
       \/ CreateRun \/ ReconcileInsert
       \/ \E approved \in BOOLEAN : SubmitApproval(approved)
       \/ \E k \in TaskKeys : WakeRun(k)
    /\ old' = old \ {"run"}
    /\ Record
    /\ UNCHANGED <<archive, sweep>>

Proceed ==
    /\ \/ \E p \in Procs : Superstep(p) \/ Crash(p)
       \/ CreateTicket \/ Look
       \/ RunLeaseExpires \/ ReconcileRead
       \/ \E k \in TaskKeys : Lease(k) \/ Requeue(k) \/ Settle(k) \/ WorkerDies(k)
       \/ \E t \in Timers : DeadlinePasses(t)
    /\ Record
    /\ UNCHANGED <<archive, old, sweep>>

Consumed == {i \in DOMAIN signals : signals[i].consumed}

\* No operation lasts a week, nor does any timer or lease of the workflow.
AWeekPasses ==
    /\ proc["api"].pc = "done"
    /\ proc["runner"].pc = "idle"
    /\ seen = NoRun
    /\ sweep = "idle"
    /\ run.lease # "live"
    /\ \A t \in Timers : deadline[t] # "ahead"
    /\ old' = {k \in TaskKeys : task[k] # "absent"}
                \cup (IF run.status # "absent" THEN {"run"} ELSE {})
                \cup (IF Consumed # {} THEN {"signals"} ELSE {})
    /\ UNCHANGED <<vars, archive, sweep, recorded>>

-----------------------------------------------------------------------------
(* The sweep *)

\* Mutant: the status is not part of the predicate.
ArchivableByAge == "run" \in old

\* archive_terminal_runs: DELETE ... WHERE status is terminal and updated_at is
\* older than the retention age.  The lease is not looked at.
Archivable == run.status \in Terminal /\ "run" \in old

\* Mutant: every sweep deletes the ticket's thread.
AfterArchiveDeleteAll == "deleting"

\* run_retention deletes the threads the statement returned.
AfterArchive == IF Archivable THEN "deleting" ELSE "signals"

ArchivedStatus == IF Archivable THEN run.status ELSE archive

\* The row moves to the archive; updated_at, status and all go with it.
ArchiveRuns ==
    /\ sweep = "idle"
    /\ old # {}
    /\ Archivable => archive = "none"
    /\ archive' = ArchivedStatus
    /\ run' = IF Archivable THEN NoRun ELSE run
    /\ old' = IF Archivable THEN old \ {"run"} ELSE old
    /\ sweep' = AfterArchive
    /\ UNCHANGED <<queue, signals, graph, rest, recorded>>

\* The archive has the ticket already: its primary key refuses the insert, the
\* statement is rolled back, run_retention raises and the runner ends.  So does
\* the next one, whose first pass runs a sweep before it steps.
ArchiveRefused ==
    /\ sweep = "idle"
    /\ Archivable
    /\ archive # "none"
    /\ sweep' = "refused"
    /\ UNCHANGED <<vars, archive, old, recorded>>

\* adelete_thread.
DeleteThread ==
    /\ sweep = "deleting"
    /\ cp' = NoGraph
    /\ sweep' = "signals"
    /\ UNCHANGED <<queue, tables, deadline, proc, mem, rest, archive, old,
                   recorded>>

\* What is left when the consumed signals are gone: the one that is not consumed,
\* of which there is at most one (the unique index of pending_signal).
Undecided ==
    IF Unconsumed = {} THEN <<>> ELSE <<signals[CHOOSE i \in Unconsumed : TRUE]>>

\* prune_consumed_signals.  What a runner remembers of the signal moves with it to
\* the front.
PruneSignals ==
    /\ sweep = "signals"
    /\ IF "signals" \in old
         THEN /\ signals' = Undecided
              /\ proc' = [proc EXCEPT !["runner"].signal = IF @ = 0 THEN 0 ELSE 1]
         ELSE UNCHANGED <<signals, proc>>
    /\ old' = old \ {"signals"}
    /\ sweep' = "tasks"
    /\ UNCHANGED <<queue, run, deadline, cp, mem, rest, archive, recorded>>

\* prune_settled: status in ('done', 'failed') and enqueued_at too old.
Prunable(k) == k \in old /\ task[k] \in {"done", "failed"}

PruneTasks ==
    /\ sweep = "tasks"
    /\ task' = [k \in TaskKeys |-> IF Prunable(k) THEN "absent" ELSE task[k]]
    /\ old' = {x \in old : x \in TaskKeys => ~Prunable(x)}
    /\ sweep' = "idle"
    /\ UNCHANGED <<answer, payload, owed, tables, graph, rest, archive,
                   recorded>>

\* The process that sweeps dies; another one starts from the beginning.  It may
\* happen again and again: nothing counts it.
SweeperDies ==
    /\ sweep \in {"deleting", "signals", "tasks"}
    /\ sweep' = "idle"
    /\ UNCHANGED <<vars, archive, old, recorded>>

Sweep == ArchiveRuns \/ DeleteThread \/ PruneSignals \/ PruneTasks

RetentionNext ==
    \/ Touch
    \/ Proceed
    \/ AWeekPasses
    \/ Sweep
    \/ ArchiveRefused
    \/ SweeperDies

RetentionSpec == RetentionInit /\ [][RetentionNext]_sweepVars

-----------------------------------------------------------------------------
(* Properties *)

\* Types of the state.
RetentionTypeOK ==
    /\ TypeOK
    /\ archive \in Terminal \cup {"none"}
    /\ old \subseteq TaskKeys \cup {"run", "signals"}
    /\ sweep \in {"idle", "deleting", "signals", "tasks", "refused"}
    /\ recorded \in BOOLEAN

\* A ticket is archived only when what becomes of it is durable: its terminal
\* task was enqueued, and one archived as resolved has had all its effects.
ArchivedTicketsDecided ==
    /\ archive # "none" => payload.status # "none"
    /\ archive = "resolved" => payload.status = "resolved" /\ recorded

\* Nobody starts an archived ticket's work again, though the reconciler may
\* have read its checkpoint before the sweep deleted it and given it a new row.
NoAgentWorkAfterArchive ==
    [][archive # "none" =>
         \A k \in AgentKeys : task[k] = "absent" => task'[k] = "absent"]_sweepVars

\* GET /tickets/{id} falls back from the checkpoint to the read model: without
\* crashes it finds one of them, except for a ticket that was archived before its
\* finalize task was done (or that task failed), which is never a resolved one.
TicketReadable ==
    proc["api"].pc = "done" /\ faults.crashes = 0 /\ cp.node = "none" =>
        recorded \/ archive \in {"rejected", "escalated"}

-----------------------------------------------------------------------------
(* A claim of the documentation that the code does not keep *)

\* "Move old terminal workflow runs into ``workflow_run_archive``" (db.py:345):
\* a ticket that is in the archive is not in workflow_run.
MovedNotCopied == archive # "none" => run.status = "absent"
=============================================================================

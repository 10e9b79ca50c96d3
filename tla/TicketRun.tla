----------------------------- MODULE TicketRun -----------------------------
(***************************************************************************)
(* One ticket's workflow: the graph (graph.py), the runner that advances   *)
(* it (runner.py), the HTTP handlers that create and approve it (api.py),  *)
(* the workflow_run and pending_signal tables (db.py), and the workers     *)
(* seen from here: they settle a task in one transaction and wake the run  *)
(* in a second one, or die in between.                                     *)
(*                                                                         *)
(* Processes: "api" is the one create_ticket request, "runner" the process *)
(* of the pool that holds the run's lease (a process that dies frees the   *)
(* name for the next one once the lease has expired), "janitor" a          *)
(* reconciler pass of any runner.  A process in ainvoke works on its own   *)
(* copy of the graph state; LangGraph writes checkpoints in the background *)
(* and flushes them before ainvoke returns, so while it runs the stored    *)
(* checkpoint may lag behind.  A superstep is one action.  Tasks keep only *)
(* what the workflow can see; their leases and retries are TaskQueue's.    *)
(***************************************************************************)
EXTENDS Integers, Sequences, FiniteSets

CONSTANTS Drafts,        \* what draft workers return, as decide_approval sees it
          MaxSignals,    \* bound: approval submissions that are accepted
          MaxCrashes,    \* bound: processes that die between two actions
          MaxLostWakes   \* bound: workers that die owing a wake-up

ASSUME RunAssumption ==
    /\ Drafts \subseteq {"auto", "low_confidence", "refund"}
    /\ {MaxSignals, MaxCrashes, MaxLostWakes} \subseteq Nat

VARIABLES task,       \* [TaskKeys -> status], rows of task_queue
          answer,     \* the draft task's stored result, once done
          payload,    \* the finalize task's payload, fixed at its insert
          owed,       \* keys whose worker has settled but not yet woken
          deadline,   \* [Timers -> ...], timestamps the graph has taken
          run,        \* the workflow_run row
          signals,    \* pending_signal rows, oldest first
          cp,         \* the stored checkpoint
          proc,       \* [Procs -> process state]
          mem,        \* [Procs -> graph state in ainvoke]
          seen,       \* what the janitor read of an orphaned checkpoint
          faults,     \* how many faults of each kind have happened
          raised      \* history: the resume values on which ainvoke raised

tables == <<run, signals>>
queue  == <<task, answer, payload, owed>>
graph  == <<deadline, cp, proc, mem>>
rest   == <<seen, faults, raised>>
vars   == <<tables, queue, graph, rest>>

-----------------------------------------------------------------------------
(* Data *)

AgentStages == {"classify", "draft"}
Fallback == [classify |-> "classify:fallback", draft |-> "draft:fallback"]
AgentKeys == AgentStages \cup {Fallback[s] : s \in AgentStages}
DraftKeys == {"draft", "draft:fallback"}
TaskKeys == AgentKeys \cup {"finalize"}

Timers == AgentStages \cup {"approval"}
Wakeups == {"null", "now"} \cup Timers
Terminal == {"resolved", "rejected", "escalated"}
Statuses == {"received", "classifying", "drafting", "awaiting_approval"}
              \cup Terminal

Nodes == {"dispatch_classify", "await_classify", "dispatch_draft",
          "await_draft", "decide_approval", "prepare_approval",
          "await_approval", "execute"}

\* parked counts the interrupts of the node that have been raised; awaits is
\* the idempotency key of the last one.
NoGraph == [node |-> "none", parked |-> 0, awaits |-> "none",
            status |-> "none", wakeup |-> "null", draft |-> "none",
            decision |-> "none"]

GraphState == [node : Nodes \cup {"none", "start", "end"}, parked : 0..2,
               awaits : TaskKeys \cup {"none"},
               status : Statuses \cup {"none"}, wakeup : Wakeups,
               draft : Drafts \cup {"none", "failed"},
               decision : {"none", "approved", "rejected"}]

NoRun == [status |-> "absent", wakeup |-> "null", lease |-> "none"]

Procs == {"api", "runner"}
ResumeValues == {"none", "timeout", "task_failed", "result", "approved",
                 "rejected"}

\* synced: the stored checkpoint has caught up with mem.  The rest is what the
\* runner remembers of its claim and of the lookup.
IdleProc == [pc |-> "idle", synced |-> TRUE, resume |-> "none",
             status |-> "absent", wakeup |-> "null", signal |-> 0]

Init ==
    /\ task = [k \in TaskKeys |-> "absent"]
    /\ answer = [k \in DraftKeys |-> "none"]
    /\ payload = [status |-> "none", refund |-> FALSE]
    /\ owed = {}
    /\ deadline = [t \in Timers |-> "unset"]
    /\ run = NoRun
    /\ signals = <<>>
    /\ cp = NoGraph
    /\ proc = [p \in Procs |-> IdleProc]
    /\ mem = [p \in Procs |-> NoGraph]
    /\ seen = NoRun
    /\ faults = [crashes |-> 0, lostWakes |-> 0]
    /\ raised = {}

-----------------------------------------------------------------------------
(* Supersteps of ainvoke *)

Invoking(p, node) == proc[p].pc = "invoking" /\ mem[p].node = node

\* The process goes on with graph state g, its resume value spent; the
\* checkpoint writer may or may not have caught up with it by then.
Continue(p, g) ==
    /\ mem' = [mem EXCEPT ![p] = g]
    /\ \E synced \in BOOLEAN :
          /\ cp' = IF synced THEN g ELSE cp
          /\ proc' = [proc EXCEPT ![p].synced = synced, ![p].resume = "none"]

\* interrupt(): the node stops and ainvoke is about to return.
Park(p, g) ==
    /\ mem' = [mem EXCEPT ![p] = g]
    /\ \E synced \in BOOLEAN :
          /\ cp' = IF synced THEN g ELSE cp
          /\ proc' = [proc EXCEPT ![p].synced = synced, ![p].resume = "none",
                                  ![p].pc = "returning"]

Goto(g, node) == [g EXCEPT !.node = node, !.parked = 0, !.awaits = "none"]

\* enqueue: ON CONFLICT DO NOTHING.
Enqueued(tasks, k) ==
    IF tasks[k] = "absent" THEN [tasks EXCEPT ![k] = "pending"] ELSE tasks

\* A node's resume value does not validate: ainvoke raises, run_forever does
\* not catch it and the process ends.  The checkpoint stays where it was.
Raise(p) ==
    /\ raised' = raised \cup {proc[p].resume}
    /\ proc' = [proc EXCEPT ![p] = IdleProc]
    /\ mem' = [mem EXCEPT ![p] = NoGraph]
    /\ UNCHANGED cp

\* START: the input becomes the state.
Start(p) ==
    /\ Invoking(p, "start")
    /\ Continue(p, [Goto(mem[p], "dispatch_classify") EXCEPT
                      !.status = "received"])
    /\ UNCHANGED <<queue, tables, deadline, rest>>

\* dispatch_classify, dispatch_draft: enqueue and take the schedule-to-start
\* timestamp, in one transaction of the node's own.
Dispatch(p, s) ==
    /\ Invoking(p, IF s = "classify" THEN "dispatch_classify"
                                     ELSE "dispatch_draft")
    /\ task' = Enqueued(task, s)
    /\ deadline' = [deadline EXCEPT ![s] = "ahead"]
    /\ Continue(p,
         [Goto(mem[p], IF s = "classify" THEN "await_classify"
                                         ELSE "await_draft") EXCEPT
            !.status = IF s = "classify" THEN "classifying" ELSE "drafting",
            !.wakeup = s])
    /\ UNCHANGED <<answer, payload, owed, tables, rest>>

AwaitNode(s) == IF s = "classify" THEN "await_classify" ELSE "await_draft"

\* The first interrupt of await_agent_task.
AwaitAgent(p, s) ==
    /\ Invoking(p, AwaitNode(s))
    /\ mem[p].parked = 0
    /\ Park(p, [mem[p] EXCEPT !.parked = 1, !.awaits = s])
    /\ UNCHANGED <<queue, tables, deadline, rest>>

\* Mutant: the primary task is left as it is when the fallback is enqueued.
RedispatchedBoth(s) ==
    IF task[s] = "pending"
      THEN Enqueued(task, Fallback[s])
      ELSE task

\* redispatch_agent_task: cancel the task if no worker has it, and only then
\* enqueue it for the fallback workers, in one transaction.
Redispatched(s) ==
    IF task[s] = "pending"
      THEN Enqueued([task EXCEPT ![s] = "failed"], Fallback[s])
      ELSE task

\* Mutant: the second interrupt always names the fallback key.
RedispatchKeyAlways(s) == Fallback[s]

RedispatchKey(s) == IF task[s] = "pending" THEN Fallback[s] ELSE s

\* Resumed from the first interrupt by a timer: redispatch and park again.
AgentTimeout(p, s) ==
    /\ Invoking(p, AwaitNode(s))
    /\ mem[p].parked = 1
    /\ proc[p].resume = "timeout"
    /\ task' = Redispatched(s)
    /\ Park(p, [mem[p] EXCEPT !.parked = 2, !.awaits = RedispatchKey(s)])
    /\ UNCHANGED <<answer, payload, owed, deadline, tables, rest>>

\* The node is re-executed from its start: resumed from the second interrupt it
\* runs the redispatch again before it sees the value.
Rerun(p, s) == IF mem[p].parked = 2 THEN Redispatched(s) ELSE task

\* The task failed finally: escalate, with synthetic agent output.
AgentFailed(p, s) ==
    /\ Invoking(p, AwaitNode(s))
    /\ proc[p].resume = "task_failed"
    /\ task' = Rerun(p, s)
    /\ Continue(p, [Goto(mem[p], "execute") EXCEPT
                      !.status = "escalated", !.wakeup = "null",
                      !.draft = "failed"])
    /\ UNCHANGED <<answer, payload, owed, deadline, tables, rest>>

\* The task's result validates: on to the next stage.
AgentAnswered(p, s) ==
    /\ Invoking(p, AwaitNode(s))
    /\ proc[p].resume = "result"
    /\ task' = Rerun(p, s)
    /\ Continue(p,
         IF s = "classify"
           THEN [Goto(mem[p], "dispatch_draft") EXCEPT
                   !.status = "classifying", !.wakeup = "null"]
           ELSE [Goto(mem[p], "decide_approval") EXCEPT
                   !.status = "drafting", !.wakeup = "null",
                   !.draft = answer[mem[p].awaits]])
    /\ UNCHANGED <<answer, payload, owed, deadline, tables, rest>>

\* A timer value at the second interrupt is returned as if it were the result
\* and does not validate.
AgentRaises(p, s) ==
    /\ Invoking(p, AwaitNode(s))
    /\ mem[p].parked = 2
    /\ proc[p].resume = "timeout"
    /\ task' = Rerun(p, s)
    /\ Raise(p)
    /\ UNCHANGED <<answer, payload, owed, deadline, tables, seen, faults>>

\* Mutant: only the confidence is looked at.
NeedsApprovalIfUnsure(draft) == draft = "low_confidence"

NeedsApproval(draft) == draft \in {"refund", "low_confidence"}

DecideApproval(p) ==
    /\ Invoking(p, "decide_approval")
    /\ Continue(p, Goto(mem[p], IF NeedsApproval(mem[p].draft)
                                  THEN "prepare_approval" ELSE "execute"))
    /\ UNCHANGED <<queue, tables, deadline, rest>>

PrepareApproval(p) ==
    /\ Invoking(p, "prepare_approval")
    /\ deadline' = [deadline EXCEPT !["approval"] = "ahead"]
    /\ Continue(p, [Goto(mem[p], "await_approval") EXCEPT
                      !.status = "awaiting_approval", !.wakeup = "approval"])
    /\ UNCHANGED <<queue, tables, rest>>

AwaitApproval(p) ==
    /\ Invoking(p, "await_approval")
    /\ mem[p].parked = 0
    /\ Park(p, [mem[p] EXCEPT !.parked = 1])
    /\ UNCHANGED <<queue, tables, deadline, rest>>

\* A decision or a timer; an approval leaves the status awaiting_approval.
Decided(p) ==
    LET v == proc[p].resume IN
    /\ Invoking(p, "await_approval")
    /\ v \in {"timeout", "approved", "rejected"}
    /\ Continue(p, [Goto(mem[p], "execute") EXCEPT
                      !.status = CASE v = "timeout"  -> "escalated"
                                   [] v = "rejected" -> "rejected"
                                   [] v = "approved" -> @,
                      !.decision = IF v = "timeout" THEN @ ELSE v])
    /\ UNCHANGED <<queue, tables, deadline, rest>>

\* Mutant: a rejection is carried out like an approval.
FinalStatusUnlessEscalated(g) ==
    IF g.status = "escalated" THEN g.status ELSE "resolved"

\* Mutant: the status of the graph is taken over.
FinalStatusAsIs(g) == g.status

\* execute's terminal_status.
FinalStatus(g) ==
    IF g.status \in {"rejected", "escalated"} THEN g.status ELSE "resolved"

\* execute enqueues the terminal task each time it is executed from its start,
\* on a resume as well; its payload is the first insert's.
EnqueueFinalize(p) ==
    /\ task' = Enqueued(task, "finalize")
    /\ payload' = IF task["finalize"] = "absent"
                    THEN [status |-> FinalStatus(mem[p]),
                          refund |-> mem[p].draft = "refund"]
                    ELSE payload

\* execute: enqueue the terminal task, then interrupt for its result.
Execute(p) ==
    /\ Invoking(p, "execute")
    /\ mem[p].parked = 0
    /\ EnqueueFinalize(p)
    /\ Park(p, [mem[p] EXCEPT !.parked = 1, !.awaits = "finalize"])
    /\ UNCHANGED <<answer, owed, tables, deadline, rest>>

\* Resumed with the stored TicketResult: the graph ends.
Finalized(p) ==
    /\ Invoking(p, "execute")
    /\ proc[p].resume = "result"
    /\ EnqueueFinalize(p)
    /\ Park(p, [Goto(mem[p], "end") EXCEPT !.status = payload.status,
                                           !.wakeup = "null"])
    /\ UNCHANGED <<answer, owed, tables, deadline, rest>>

\* execute validates whatever it is resumed with as a TicketResult.
FinalizeRaises(p) ==
    /\ Invoking(p, "execute")
    /\ mem[p].parked = 1
    /\ proc[p].resume \in {"timeout", "task_failed"}
    /\ EnqueueFinalize(p)
    /\ Raise(p)
    /\ UNCHANGED <<answer, owed, tables, deadline, seen, faults>>

Superstep(p) ==
    \/ Start(p)
    \/ \E s \in AgentStages : \/ Dispatch(p, s)
                              \/ AwaitAgent(p, s)
                              \/ AgentTimeout(p, s)
                              \/ AgentFailed(p, s)
                              \/ AgentAnswered(p, s)
                              \/ AgentRaises(p, s)
    \/ DecideApproval(p)
    \/ PrepareApproval(p)
    \/ AwaitApproval(p)
    \/ Decided(p)
    \/ Execute(p)
    \/ Finalized(p)
    \/ FinalizeRaises(p)

-----------------------------------------------------------------------------
(* The HTTP handlers *)

\* create_ticket: ainvoke with the ticket; the stored input has no values yet.
CreateTicket ==
    /\ proc["api"].pc = "idle"
    /\ LET g == [NoGraph EXCEPT !.node = "start"] IN
       /\ mem' = [mem EXCEPT !["api"] = g]
       /\ \E synced \in BOOLEAN :
             /\ cp' = IF synced THEN g ELSE cp
             /\ proc' = [proc EXCEPT !["api"].pc = "invoking",
                                     !["api"].synced = synced]
    /\ UNCHANGED <<queue, tables, deadline, rest>>

\* ainvoke returns with every checkpoint written.
Flushed(p) == IF proc[p].synced THEN cp ELSE mem[p]

\* Mutant: the insert replaces a row that is already there.
InsertedRunAlways(status, wakeup) ==
    [status |-> status, wakeup |-> wakeup, lease |-> "none"]

\* create_run: ON CONFLICT DO NOTHING.
InsertedRun(status, wakeup) ==
    IF run.status = "absent"
      THEN [status |-> status, wakeup |-> wakeup, lease |-> "none"]
      ELSE run

\* create_ticket, its second transaction.
CreateRun ==
    /\ proc["api"].pc = "returning"
    /\ cp' = Flushed("api")
    /\ run' = InsertedRun(mem["api"].status, mem["api"].wakeup)
    /\ proc' = [proc EXCEPT !["api"] = [IdleProc EXCEPT !.pc = "done"]]
    /\ mem' = [mem EXCEPT !["api"] = NoGraph]
    /\ UNCHANGED <<queue, signals, deadline, rest>>

Unconsumed == {i \in DOMAIN signals : ~signals[i].consumed}

\* submit_approval: one transaction; a run that is not waiting, or a decision
\* that is still unconsumed, answers 409 and changes nothing.
SubmitApproval(approved) ==
    /\ run.status = "awaiting_approval"
    /\ Unconsumed = {}
    /\ Len(signals) < MaxSignals
    /\ signals' = Append(signals, [approved |-> approved, consumed |-> FALSE])
    /\ run' = [run EXCEPT !.wakeup = "now"]
    /\ UNCHANGED <<queue, graph, rest>>

-----------------------------------------------------------------------------
(* The runner *)

\* Mutant: only timers are looked at, not wake-ups.
DueByTimer(w) == w \in Timers /\ deadline[w] = "passed"

Due(w) == w = "now" \/ (w \in Timers /\ deadline[w] = "passed")

\* claim_run: lease a run that is due, or waits for nothing but its result.
Claim ==
    /\ proc["runner"].pc = "idle"
    /\ run.status # "absent"
    /\ run.status \in Terminal => run.wakeup # "null"
    /\ run.wakeup = "null" \/ Due(run.wakeup)
    /\ run.lease # "live"
    /\ run' = [run EXCEPT !.lease = "live"]
    /\ proc' = [proc EXCEPT !["runner"] =
                  [IdleProc EXCEPT !.pc = "claimed", !.status = run.status,
                                   !.wakeup = run.wakeup]]
    /\ UNCHANGED <<queue, signals, deadline, cp, mem, rest>>

\* Mutant: the lookup does not ask for a result.
ResumeValueAnyRow ==
    IF cp.node = "await_approval" /\ Unconsumed # {}
      THEN IF \E i \in Unconsumed : signals[i].approved
             THEN "approved" ELSE "rejected"
    ELSE IF cp.awaits # "none" /\ task[cp.awaits] # "failed" THEN "result"
    ELSE "task_failed"

\* Mutant: the lookup skips failed tasks.
ResumeValueUnlessFailed ==
    IF cp.node = "await_approval" /\ Unconsumed # {}
      THEN IF \E i \in Unconsumed : signals[i].approved
             THEN "approved" ELSE "rejected"
    ELSE IF cp.awaits # "none" /\ task[cp.awaits] = "done" THEN "result"
    ELSE IF proc["runner"].wakeup # "null" THEN "timeout" ELSE "none"

\* _resume_value and _resume_for_run: a decision for an approval envelope, else
\* the outcome of the awaited task, else, if the claim saw a timestamp, a
\* timeout.  "none": nothing to resume with.
ResumeValue ==
    IF cp.node = "await_approval" /\ Unconsumed # {}
      THEN IF \E i \in Unconsumed : signals[i].approved
             THEN "approved" ELSE "rejected"
    ELSE IF cp.awaits # "none" /\ task[cp.awaits] = "failed"
      THEN "task_failed"
    ELSE IF cp.awaits # "none" /\ task[cp.awaits] = "done"
      THEN "result"
    ELSE IF proc["runner"].wakeup # "null" THEN "timeout" ELSE "none"

\* aget_state and the lookup.  A checkpoint without an interrupt, or with one
\* that has nothing to resume with, is not actionable.
Look ==
    /\ proc["runner"].pc = "claimed"
    /\ IF cp.parked > 0 /\ ResumeValue # "none"
         THEN /\ mem' = [mem EXCEPT !["runner"] = cp]
              /\ proc' = [proc EXCEPT
                    !["runner"].pc = "invoking",
                    !["runner"].resume = ResumeValue,
                    !["runner"].signal =
                       IF ResumeValue \in {"approved", "rejected"}
                         THEN CHOOSE i \in Unconsumed : TRUE ELSE 0]
         ELSE /\ proc' = [proc EXCEPT !["runner"].pc = "releasing"]
              /\ UNCHANGED mem
    /\ UNCHANGED <<queue, tables, deadline, cp, rest>>

\* save_run with what the claim returned.
Release ==
    /\ proc["runner"].pc = "releasing"
    /\ run' = [status |-> proc["runner"].status,
               wakeup |-> proc["runner"].wakeup, lease |-> "none"]
    /\ proc' = [proc EXCEPT !["runner"] = IdleProc]
    /\ UNCHANGED <<queue, signals, deadline, cp, mem, rest>>

\* _next_wakeup_at: the interrupt's own timestamp, which only the first
\* interrupt of an agent stage and the approval gate carry.
NextWakeup(g) ==
    IF g.parked = 2 \/ g.node = "execute" THEN "null" ELSE g.wakeup

\* save_run after ainvoke: status, timestamp, lease and signal together.
SaveRun ==
    /\ proc["runner"].pc = "returning"
    /\ cp' = Flushed("runner")
    /\ run' = [status |-> mem["runner"].status,
               wakeup |-> NextWakeup(mem["runner"]), lease |-> "none"]
    /\ signals' = [i \in DOMAIN signals |->
                     IF i = proc["runner"].signal
                       THEN [signals[i] EXCEPT !.consumed = TRUE]
                       ELSE signals[i]]
    /\ proc' = [proc EXCEPT !["runner"] = IdleProc]
    /\ mem' = [mem EXCEPT !["runner"] = NoGraph]
    /\ UNCHANGED <<queue, deadline, rest>>

\* The 30 s lease of a process that died runs out.
RunLeaseExpires ==
    /\ run.lease = "live"
    /\ proc["runner"].pc = "idle"
    /\ run' = [run EXCEPT !.lease = "expired"]
    /\ UNCHANGED <<queue, signals, graph, rest>>

ReclaimRuns ==
    /\ run.lease = "expired"
    /\ run' = [run EXCEPT !.lease = "none"]
    /\ UNCHANGED <<queue, signals, graph, rest>>

\* reconcile_orphaned_runs: a checkpoint with values but without a run row ...
ReconcileRead ==
    /\ seen = NoRun
    /\ run.status = "absent"
    /\ cp.node \notin {"none", "start"}
    /\ seen' = [NoRun EXCEPT !.status = cp.status, !.wakeup = cp.wakeup]
    /\ UNCHANGED <<queue, tables, graph, faults, raised>>

\* ... gets one, unless it has one by now.
ReconcileInsert ==
    /\ seen # NoRun
    /\ run' = InsertedRun(seen.status, seen.wakeup)
    /\ seen' = NoRun
    /\ UNCHANGED <<queue, signals, graph, faults, raised>>

-----------------------------------------------------------------------------
(* The workers, the clock and the faults *)

Lease(k) ==
    /\ task[k] = "pending"
    /\ task' = [task EXCEPT ![k] = "leased"]
    /\ UNCHANGED <<answer, payload, owed, tables, graph, rest>>

\* A failed attempt with attempts left, or a reclaimed lease.
Requeue(k) ==
    /\ task[k] = "leased"
    /\ task' = [task EXCEPT ![k] = "pending"]
    /\ UNCHANGED <<answer, payload, owed, tables, graph, rest>>

CompleteTask(k) ==
    /\ task[k] = "leased"
    /\ task' = [task EXCEPT ![k] = "done"]
    /\ \E d \in Drafts :
          answer' = [j \in DraftKeys |-> IF j = k THEN d ELSE answer[j]]
    /\ owed' = owed \cup {k}
    /\ UNCHANGED <<payload, tables, graph, rest>>

FailTask(k) ==
    /\ task[k] = "leased"
    /\ task' = [task EXCEPT ![k] = "failed"]
    /\ owed' = owed \cup {k}
    /\ UNCHANGED <<answer, payload, tables, graph, rest>>

\* wake_run, an update: without a row it does nothing.
WakeRun(k) ==
    /\ k \in owed
    /\ owed' = owed \ {k}
    /\ run' = IF run.status = "absent" THEN run
              ELSE [run EXCEPT !.wakeup = "now"]
    /\ UNCHANGED <<task, answer, payload, signals, graph, rest>>

WorkerDies(k) ==
    /\ k \in owed
    /\ faults.lostWakes < MaxLostWakes
    /\ owed' = owed \ {k}
    /\ faults' = [faults EXCEPT !.lostWakes = @ + 1]
    /\ UNCHANGED <<task, answer, payload, tables, graph, seen, raised>>

DeadlinePasses(t) ==
    /\ deadline[t] = "ahead"
    /\ deadline' = [deadline EXCEPT ![t] = "passed"]
    /\ UNCHANGED <<queue, tables, cp, proc, mem, rest>>

\* The process dies; the request of a dead API is not repeated.
Crash(p) ==
    /\ proc[p].pc \notin {"idle", "done"}
    /\ faults.crashes < MaxCrashes
    /\ proc' = [proc EXCEPT ![p] =
                  IF p = "api" THEN [IdleProc EXCEPT !.pc = "done"]
                               ELSE IdleProc]
    /\ mem' = [mem EXCEPT ![p] = NoGraph]
    /\ faults' = [faults EXCEPT !.crashes = @ + 1]
    /\ UNCHANGED <<queue, tables, deadline, cp, seen, raised>>

-----------------------------------------------------------------------------
Settle(k) == CompleteTask(k) \/ FailTask(k)

Next ==
    \/ \E p \in Procs : Superstep(p) \/ Crash(p)
    \/ CreateTicket \/ CreateRun
    \/ \E approved \in BOOLEAN : SubmitApproval(approved)
    \/ Claim \/ Look \/ Release \/ SaveRun
    \/ RunLeaseExpires \/ ReclaimRuns \/ ReconcileRead \/ ReconcileInsert
    \/ \E k \in TaskKeys : \/ Lease(k) \/ Requeue(k) \/ Settle(k)
                          \/ WakeRun(k) \/ WorkerDies(k)
    \/ \E t \in Timers : DeadlinePasses(t)

Spec == Init /\ [][Next]_vars

\* Every process keeps running and is restarted when it dies, time passes, and
\* a task is delivered to some worker until it settles: TaskQueue's
\* OutcomeProgress, seen from here.
Fairness ==
    /\ WF_vars(Superstep("api") \/ CreateRun)
    /\ WF_vars(Claim \/ Look \/ Superstep("runner") \/ Release \/ SaveRun)
    /\ WF_vars(RunLeaseExpires)
    /\ WF_vars(ReconcileRead \/ ReconcileInsert)
    /\ WF_vars(\E k \in TaskKeys : Lease(k))
    /\ SF_vars(\E k \in TaskKeys : Settle(k))
    /\ WF_vars(\E k \in TaskKeys : WakeRun(k) \/ WorkerDies(k))
    /\ WF_vars(\E t \in Timers : DeadlinePasses(t))

FairSpec == Spec /\ Fairness

-----------------------------------------------------------------------------
(* Properties *)

\* Types of the state.
TypeOK ==
    /\ task \in [TaskKeys -> {"absent", "pending", "leased", "done", "failed"}]
    /\ answer \in [DraftKeys -> Drafts \cup {"none"}]
    /\ payload \in [status : Terminal \cup {"none"}, refund : BOOLEAN]
    /\ owed \subseteq TaskKeys
    /\ deadline \in [Timers -> {"unset", "ahead", "passed"}]
    /\ run \in [status : Statuses \cup {"absent"}, wakeup : Wakeups,
               lease : {"none", "live", "expired"}]
    /\ signals \in Seq([approved : BOOLEAN, consumed : BOOLEAN])
    /\ Len(signals) <= MaxSignals
    /\ cp \in GraphState
    /\ mem \in [Procs -> GraphState]
    /\ proc \in [Procs ->
         [pc : {"idle", "invoking", "returning", "claimed", "releasing", "done"},
          synced : BOOLEAN, resume : ResumeValues,
          status : Statuses \cup {"absent"}, wakeup : Wakeups,
          signal : 0..MaxSignals]]
    /\ seen \in [status : Statuses \cup {"absent"}, wakeup : Wakeups,
                lease : {"none"}]
    /\ faults \in [crashes : 0..MaxCrashes, lostWakes : 0..MaxLostWakes]
    /\ raised \subseteq {"timeout", "task_failed"}

\* A refund is put in the outbox as part of a resolution only after a human has
\* approved (decide_approval, await_approval and execute together).
RefundNeedsApproval ==
    payload.status = "resolved" /\ payload.refund =>
        \E i \in DOMAIN signals : signals[i].approved

\* The fallback worker and the throttled one never both have the same piece of
\* work: redispatch_agent_task hands over only what it took away, however often
\* the node is executed again.
ExclusiveDispatch ==
    \A s \in AgentStages : task[Fallback[s]] # "absent" => task[s] = "failed"

\* A parked run waits for a task that is there: what the interrupt names was
\* committed before the checkpoint that holds the interrupt.
AwaitedTaskExists ==
    cp.parked > 0 /\ cp.awaits # "none" => task[cp.awaits] # "absent"

\* What a consumed decision asked for.
Wanted(i) == IF signals[i].approved THEN "resolved" ELSE "rejected"

\* A decision that save_run has consumed is never turned into the opposite one;
\* only an escalation may have come first.
DecisionNotReversed ==
    \A i \in DOMAIN signals :
        signals[i].consumed => payload.status \in {Wanted(i), "escalated"}

\* The projection says resolved only after the effects of a resolution.
ResolvedMeansFinalized ==
    run.status = "resolved" =>
        /\ payload.status = "resolved"
        /\ task["finalize"] = "done"

\* What the ticket looks like from outside.
Life == INSTANCE TicketLife WITH
    shown    <- run.status,
    approved <- \E i \in DOMAIN signals : signals[i].approved,
    outcome  <- payload.status,
    pays     <- payload.status = "resolved" /\ payload.refund,
    effects  <- IF task["finalize"] \in {"done", "failed"}
                  THEN task["finalize"] ELSE "none"

\* The whole workflow, whatever crashes, races and repeats in it, is a ticket
\* whose projection never goes back (not through the reconciler racing
\* create_ticket, a lease taken over, a release or a resumed checkpoint), whose
\* outcome is decided once, and which shows only what has happened.
ImplementsTicketLife == Life!Spec

Broken == raised # {}

\* Without crashes every created ticket reaches its terminal task, whatever the
\* workers answer and although a worker may die before it wakes the run; a run
\* whose ainvoke has raised is excepted.
TicketReachesFinalization ==
    run.status # "absent" ~> task["finalize"] # "absent" \/ Broken

\* A ticket that is to be resolved is resolved, unless finalization itself
\* fails for good.
ResolvedTicketsComplete ==
    payload.status = "resolved" ~>
        run.status = "resolved" \/ task["finalize"] = "failed" \/ Broken

-----------------------------------------------------------------------------
(* Claims of the documentation that the code does not keep *)

\* "`awaiting_approval` until a human decides (or 24h elapses and it
\* escalates)" (README.md:39): a draft that waits for approval is escalated
\* only when the approval timer has passed.
NoEarlyEscalation ==
    payload.status = "escalated" /\ deadline["approval"] # "unset" =>
        deadline["approval"] = "passed"

\* "this lets the runner consume terminal task results without polling
\* already-settled rows" (db.py:272): a ticket whose finalization is done ends.
FinalizedTicketsEnd == task["finalize"] = "done" ~> cp.node = "end" \/ Broken
=============================================================================

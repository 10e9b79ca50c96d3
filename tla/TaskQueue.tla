----------------------------- MODULE TaskQueue -----------------------------
(***************************************************************************)
(* The durable task queue (taskqueue.py, db.dequeue) together with the     *)
(* loop that drains it (agent_worker.process_one_task, which the agent,    *)
(* fallback and side-effect workers all run).                              *)
(*                                                                         *)
(* Every SQL statement is one transaction and so one action.  A worker is  *)
(* one in-flight slot of a worker process: between its transactions other  *)
(* slots, the janitor, the workflow and the clock may all take steps.      *)
(* Time is abstract: a lease is live or expired, a retry's backoff has     *)
(* elapsed or not, a row is older than the retention age or not.           *)
(* lease_owner is left out: no statement ever reads it.                    *)
(***************************************************************************)
EXTENDS Integers, FiniteSets

CONSTANTS Keys,         \* idempotency keys
          Workers,      \* in-flight slots
          Results,      \* values an activity can return
          NoResult,     \* NULL in the result column
          MaxAttempts,  \* the row's max_attempts
          MaxReclaims,  \* bound: leases lost per row
          MaxInserts    \* bound: values taken from the id sequence

ASSUME QueueAssumption ==
    /\ NoResult \notin Results
    /\ MaxAttempts \in Nat \ {0}
    /\ MaxReclaims \in Nat
    /\ MaxInserts  \in Nat

VARIABLES tasks,      \* [Keys -> Row], the task_queue table
          workers,    \* [Workers -> Slot], what each slot holds in memory
          nextId,     \* the table's bigserial
          reclaimed,  \* history: leases the row of each key has lost
          notified,   \* history: ids whose wake_run has been issued
          lostWakes   \* history: ids whose slot died before wake_run

vars == <<tasks, workers, nextId, reclaimed, notified, lostWakes>>
history == <<reclaimed, notified, lostWakes>>

-----------------------------------------------------------------------------
(* Rows *)

Row == [id : Nat,
        status : {"absent", "pending", "leased", "done", "failed"},
        attempts : Nat,
        available : BOOLEAN,                   \* available_at <= now()
        lease : {"none", "live", "expired"},   \* lease_expires_at
        result : Results \cup {NoResult},
        permanent : BOOLEAN,
        cancelled : BOOLEAN,                   \* error is cancel_pending's reason
        aged : BOOLEAN]                        \* enqueued_at past retention

NoRow == [id |-> 0, status |-> "absent", attempts |-> 0, available |-> FALSE,
          lease |-> "none", result |-> NoResult, permanent |-> FALSE,
          cancelled |-> FALSE, aged |-> FALSE]

FreshRow(i) == [NoRow EXCEPT !.id = i, !.status = "pending",
                             !.available = TRUE]

\* Mutant: the delivery is not counted when it is leased.
LeasedRowUncounted(row) == [row EXCEPT !.status = "leased", !.lease = "live"]

LeasedRow(row) == [row EXCEPT !.status = "leased", !.lease = "live",
                              !.attempts = @ + 1]

\* Mutant: complete()'s two parameters swapped.
CompletedRowSwapped(row, r) == [row EXCEPT !.status = r, !.result = "done",
                                           !.lease = "none"]

CompletedRow(row, r) == [row EXCEPT !.status = "done", !.result = r,
                                    !.lease = "none"]

\* Mutants: one retry too many, one too few.
RetriedOnceMore(row, permanent) ==
    row.attempts <= MaxAttempts /\ ~(row.permanent \/ permanent)
RetriedOnceLess(row, permanent) ==
    row.attempts + 1 < MaxAttempts /\ ~(row.permanent \/ permanent)

\* fail()'s CASE: only an impermanent failure below max_attempts is retried.
Retried(row, permanent) ==
    row.attempts < MaxAttempts /\ ~(row.permanent \/ permanent)

FailedRow(row, permanent) ==
    LET retry == Retried(row, permanent) IN
    [row EXCEPT !.status = IF retry THEN "pending" ELSE "failed",
                !.available = IF retry THEN FALSE ELSE @,
                !.permanent = @ \/ permanent,
                !.lease = "none"]

\* Mutant: the janitor clears the lease but not the status.
ReclaimedRowStillLeased(row) == [row EXCEPT !.lease = "none"]

ReclaimedRow(row) == [row EXCEPT !.status = "pending", !.lease = "none"]

CancelledRow(row) == [row EXCEPT !.status = "failed", !.permanent = TRUE,
                                 !.cancelled = TRUE]

\* Mutant: the statement settles whatever row has the id.
MatchesAnyStatus(k, i) == tasks[k].id = i

\* UPDATE ... WHERE id = %s AND status = 'leased': the row a statement that
\* settles task i matches.  The lease's owner is not part of the predicate.
Matches(k, i) == tasks[k].id = i /\ tasks[k].status = "leased"

\* Mutant: the conflict is only with rows that still have work to do.
ExistsUnsettled(k) == tasks[k].status \in {"pending", "leased"}

Exists(k)  == tasks[k].status # "absent"
Settled(k) == tasks[k].status \in {"done", "failed"}
IsOpen(k)  == tasks[k].status \in {"pending", "leased"}

-----------------------------------------------------------------------------
(* Worker slots *)

Slot == [pc : {"idle"}]
          \cup [pc : {"running", "waking"}, key : Keys, id : Nat,
                attempt : Nat]

Idle == [pc |-> "idle"]

Init ==
    /\ tasks = [k \in Keys |-> NoRow]
    /\ workers = [w \in Workers |-> Idle]
    /\ nextId = 1
    /\ reclaimed = [k \in Keys |-> 0]
    /\ notified = {}
    /\ lostWakes = {}

\* enqueue: INSERT ... ON CONFLICT (idempotency_key) DO NOTHING.
Enqueue(k) ==
    /\ nextId <= MaxInserts
    /\ ~Exists(k)
    /\ tasks' = [tasks EXCEPT ![k] = FreshRow(nextId)]
    /\ nextId' = nextId + 1
    /\ reclaimed' = [reclaimed EXCEPT ![k] = 0]
    /\ UNCHANGED <<workers, notified, lostWakes>>

\* dequeue: lease one due pending row; attempts counts the delivery.
Dequeue(w, k) ==
    /\ workers[w].pc = "idle"
    /\ tasks[k].status = "pending"
    /\ tasks[k].available
    /\ tasks' = [tasks EXCEPT ![k] = LeasedRow(@)]
    /\ workers' = [workers EXCEPT ![w] =
                     [pc |-> "running", key |-> k, id |-> tasks[k].id,
                      attempt |-> tasks[k].attempts + 1]]
    /\ UNCHANGED <<nextId, history>>

\* The activity returned r: complete(), and a wake-up is owed only when the
\* statement reports "done"; otherwise "agent task completion skipped".
Complete(w, r) ==
    LET slot == workers[w] IN
    /\ slot.pc = "running"
    /\ \/ /\ Matches(slot.key, slot.id)
          /\ tasks' = [tasks EXCEPT ![slot.key] = CompletedRow(@, r)]
          /\ workers' = [workers EXCEPT ![w].pc = "waking"]
       \/ /\ ~Matches(slot.key, slot.id)
          /\ workers' = [workers EXCEPT ![w] = Idle]
          /\ UNCHANGED tasks
    /\ UNCHANGED <<nextId, history>>

\* Mutants: waking on a retry; no wake-up after a permanent error.
FailWakesOnRetry(w, permanent) ==
    LET slot == workers[w] IN
    /\ slot.pc = "running"
    /\ \/ /\ Matches(slot.key, slot.id)
          /\ tasks' = [tasks EXCEPT ![slot.key] = FailedRow(@, permanent)]
          /\ workers' = [workers EXCEPT ![w].pc = "waking"]
       \/ /\ ~Matches(slot.key, slot.id)
          /\ workers' = [workers EXCEPT ![w] = Idle]
          /\ UNCHANGED tasks
    /\ UNCHANGED <<nextId, history>>

FailForgetsPermanent(w, permanent) ==
    LET slot == workers[w] IN
    /\ slot.pc = "running"
    /\ tasks' = IF Matches(slot.key, slot.id)
                  THEN [tasks EXCEPT ![slot.key] = FailedRow(@, permanent)]
                  ELSE tasks
    /\ workers' = [workers EXCEPT ![w] =
                     IF /\ Matches(slot.key, slot.id)
                        /\ ~Retried(tasks[slot.key], permanent)
                        /\ ~permanent
                       THEN [slot EXCEPT !.pc = "waking"] ELSE Idle]
    /\ UNCHANGED <<nextId, history>>

\* The activity raised: fail(), permanently for an AgentPermanentError.  A
\* wake-up is owed only when the statement reports "failed".
Fail(w, permanent) ==
    LET slot == workers[w] IN
    /\ slot.pc = "running"
    /\ \/ /\ Matches(slot.key, slot.id)
          /\ tasks' = [tasks EXCEPT ![slot.key] = FailedRow(@, permanent)]
          /\ workers' = [workers EXCEPT ![w] =
                           IF Retried(tasks[slot.key], permanent)
                             THEN Idle
                             ELSE [slot EXCEPT !.pc = "waking"]]
       \/ /\ ~Matches(slot.key, slot.id)
          /\ workers' = [workers EXCEPT ![w] = Idle]
          /\ UNCHANGED tasks
    /\ UNCHANGED <<nextId, history>>

\* db.wake_run, a transaction of its own after the settlement committed.
Wake(w) ==
    /\ workers[w].pc = "waking"
    /\ notified' = notified \cup {workers[w].id}
    /\ workers' = [workers EXCEPT ![w] = Idle]
    /\ UNCHANGED <<tasks, nextId, reclaimed, lostWakes>>

\* The slot's process dies and is started again: its memory is gone, the row
\* keeps its lease.
Crash(w) ==
    /\ workers[w].pc # "idle"
    /\ workers[w].pc = "running" => reclaimed[workers[w].key] < MaxReclaims
    /\ lostWakes' = IF workers[w].pc = "waking"
                      THEN lostWakes \cup {workers[w].id} ELSE lostWakes
    /\ workers' = [workers EXCEPT ![w] = Idle]
    /\ UNCHANGED <<tasks, nextId, reclaimed, notified>>

-----------------------------------------------------------------------------
(* The clock, the janitor and the workflow *)

\* 30 seconds pass; the slot that holds the row may still be running.
LeaseExpires(k) ==
    /\ tasks[k].status = "leased"
    /\ tasks[k].lease = "live"
    /\ reclaimed[k] < MaxReclaims
    /\ tasks' = [tasks EXCEPT ![k].lease = "expired"]
    /\ UNCHANGED <<workers, nextId, history>>

BackoffElapses(k) ==
    /\ tasks[k].status = "pending"
    /\ ~tasks[k].available
    /\ tasks' = [tasks EXCEPT ![k].available = TRUE]
    /\ UNCHANGED <<workers, nextId, history>>

\* Retention measures enqueued_at, so a row may be old before it settles.
Age(k) ==
    /\ Exists(k)
    /\ ~tasks[k].aged
    /\ tasks' = [tasks EXCEPT ![k].aged = TRUE]
    /\ UNCHANGED <<workers, nextId, history>>

Expired == {k \in Keys : tasks[k].status = "leased"
                           /\ tasks[k].lease = "expired"}

\* reclaim_expired: one statement returns every expired lease to pending.
Reclaim ==
    /\ Expired # {}
    /\ tasks' = [k \in Keys |-> IF k \in Expired THEN ReclaimedRow(tasks[k])
                                                 ELSE tasks[k]]
    /\ reclaimed' = [k \in Keys |-> IF k \in Expired THEN reclaimed[k] + 1
                                                     ELSE reclaimed[k]]
    /\ UNCHANGED <<workers, nextId, notified, lostWakes>>

\* cancel_pending, when the workflow redispatches to the fallback queue.
Cancel(k) ==
    /\ tasks[k].status = "pending"
    /\ tasks' = [tasks EXCEPT ![k] = CancelledRow(@)]
    /\ UNCHANGED <<workers, nextId, history>>

Prunable == {k \in Keys : Settled(k) /\ tasks[k].aged}

\* prune_settled: one statement deletes every old settled row.
Prune ==
    /\ Prunable # {}
    /\ tasks' = [k \in Keys |-> IF k \in Prunable THEN NoRow ELSE tasks[k]]
    /\ UNCHANGED <<workers, nextId, history>>

SlotStep(w) ==
    \/ \E k \in Keys : Dequeue(w, k)
    \/ \E r \in Results : Complete(w, r)
    \/ \E permanent \in BOOLEAN : Fail(w, permanent)
    \/ Wake(w)
    \/ Crash(w)

RowStep(k) ==
    \/ Enqueue(k)
    \/ LeaseExpires(k)
    \/ BackoffElapses(k)
    \/ Age(k)
    \/ Cancel(k)

Next ==
    \/ \E w \in Workers : SlotStep(w)
    \/ \E k \in Keys : RowStep(k)
    \/ Reclaim
    \/ Prune

Spec == Init /\ [][Next]_vars

-----------------------------------------------------------------------------
(* What the scheduling justifies *)

\* A slot whose activity has returned or raised goes on to its next
\* transaction: activities terminate.
Finish(w) == \/ \E r \in Results : Complete(w, r)
             \/ \E permanent \in BOOLEAN : Fail(w, permanent)

\* run_forever polls, so a due row is leased by some slot; the clock advances;
\* run_reconciler calls the janitor periodically.  Nothing is assumed of
\* crashes, lease expiry before the slot is done, cancellation or retention.
FairSpec ==
    /\ Spec
    /\ \A w \in Workers : /\ WF_vars(\E k \in Keys : Dequeue(w, k))
                          /\ WF_vars(Finish(w))
                          /\ WF_vars(Wake(w))
    /\ \A k \in Keys : WF_vars(LeaseExpires(k)) /\ WF_vars(BackoffElapses(k))
    /\ WF_vars(Reclaim)

-----------------------------------------------------------------------------
(* Correctness *)

Waking(w)  == workers[w].pc = "waking"
Running(w) == workers[w].pc = "running"

\* Every variable has its type.
TypeOK ==
    /\ tasks \in [Keys -> Row]
    /\ workers \in [Workers -> Slot]
    /\ nextId \in Nat
    /\ reclaimed \in [Keys -> Nat]
    /\ notified \subseteq Nat
    /\ lostWakes \subseteq Nat

RowCoherent(row) ==
    /\ row.status = "absent" => row = NoRow
    /\ row.status = "leased" <=> row.lease # "none"
    /\ row.status = "done"   <=> row.result # NoResult
    /\ row.status = "absent" <=> row.id = 0

\* Rows, slots and the id sequence agree: a row carries a lease exactly while
\* it is leased and a result exactly when it is done, whatever path took it
\* there; ids are never reused, so the id a slot remembers, however stale,
\* names the row of that slot's key or no row at all.
Coherent ==
    /\ nextId >= 1
    /\ \A k \in Keys : RowCoherent(tasks[k]) /\ tasks[k].id < nextId
    /\ \A j, k \in Keys : Exists(j) /\ tasks[j].id = tasks[k].id => j = k
    /\ \A w \in Workers : workers[w].pc # "idle" =>
          /\ workers[w].id \in 1..(nextId - 1)
          /\ \A k \in Keys : tasks[k].id = workers[w].id
                                => k = workers[w].key
    /\ notified \cup lostWakes \subseteq 1..(nextId - 1)

\* complete() and fail() match a row by id and status only, and several slots
\* may believe they hold it (expired lease, reclaim, redelivery): still at most
\* one of them goes on to wake the workflow, and none after it was woken.
OneWakePerSettlement ==
    \A w \in Workers : Waking(w) =>
        /\ workers[w].id \notin notified \cup lostWakes
        /\ \A v \in Workers \ {w} :
              Waking(v) => workers[v].id # workers[w].id

\* A workflow is woken only for a row that has settled (or has been pruned
\* since): never for one that is still queued, leased or to be retried.
WakeAfterSettlement ==
    \A k \in Keys : IsOpen(k) =>
        /\ tasks[k].id \notin notified \cup lostWakes
        /\ \A w \in Workers : Waking(w) => workers[w].id # tasks[k].id

\* The wake-up of every row a slot has settled is issued, still owed by the
\* slot, or was lost when the slot died: none of the three paths through complete()
\* and fail() (a result, the attempts spent, a permanent error) settles a row and
\* forgets its workflow.  Only a row the workflow itself has cancelled owes none.
WakeAccounted ==
    \A k \in Keys :
        Settled(k) /\ ~tasks[k].cancelled
        => \/ tasks[k].id \in notified \cup lostWakes
           \/ \E w \in Workers : Waking(w) /\ workers[w].id = tasks[k].id

\* Two slots that run the same row hold different deliveries of it, and no slot
\* holds a delivery the row has not counted.
DeliveriesDistinct ==
    \A w \in Workers : Running(w) =>
        /\ \A k \in Keys : tasks[k].id = workers[w].id
                              => workers[w].attempt <= tasks[k].attempts
        /\ \A v \in Workers \ {w} :
              Running(v) /\ workers[v].id = workers[w].id
              => workers[v].attempt # workers[w].attempt

\* A row is delivered max_attempts times, and once more for each lease it has
\* lost, never more often: reclaim_expired and fail() together leave a pending
\* row only while a delivery is left.
DeliveriesBounded ==
    \A k \in Keys :
        /\ tasks[k].attempts <= MaxAttempts + reclaimed[k]
        /\ tasks[k].status = "pending"
             => tasks[k].attempts < MaxAttempts + reclaimed[k]

\* A row fails for good only when its attempts are spent or somebody said so
\* (a permanent error, or the workflow's cancellation), and one that is
\* permanent is never delivered again.
FailsOnlyWhenSpent ==
    \A k \in Keys :
        /\ tasks[k].status = "failed"
             => tasks[k].permanent \/ tasks[k].attempts >= MaxAttempts
        /\ tasks[k].permanent => tasks[k].status = "failed"

\* What the workflow reads of the table.
OutcomeOf(row) ==
    [state |-> CASE row.status = "absent"             -> "absent"
                 [] row.status \in {"pending", "leased"} -> "open"
                 [] row.status = "done"               -> "done"
                 [] row.status = "failed"             -> "failed",
     result |-> row.result]

Outcomes == INSTANCE TaskOutcome
              WITH outcome <- [k \in Keys |-> OutcomeOf(tasks[k])]

\* Leases, retries, redelivery and reclaim implement the outcome promise: a key
\* settles at most once and keeps what it settled to until retention.
ImplementsOutcome == Outcomes!Spec

\* Work that is enqueued settles, whatever crashes and lost leases (MaxReclaims
\* of them per row) come before.
OutcomeProgress == Outcomes!FairSpec
=============================================================================

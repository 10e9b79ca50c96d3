# TicketFlow in TLA+

TicketFlow resolves customer tickets with a durable workflow: a LangGraph graph
whose state is checkpointed in Postgres, advanced by a *runner*, with its work
handed through a hand-built Postgres task queue to *workers*, and with humans
who approve some of the drafts. These modules describe the parts of it that are
hard to test, with what they promise. Every definition is taken from
the source; `PROJECT.json` maps each one to its lines. Paths below are relative
to the repository, and `ticketflow/` abbreviates `src/ticketflow/`.

## 1. Inventory

All processes share one Postgres and talk only through its tables; a process
polls, and the only "message" is a row or a timestamp another one has written.

| Part | State | Operations | Talks to |
|---|---|---|---|
| Task queue (`taskqueue.py`, `db.dequeue`) | `task_queue` | enqueue (by idempotency key), dequeue (lease, count the attempt), complete, fail (backoff or final), reclaim expired leases, cancel a pending task, prune | graph enqueues and cancels; workers lease and settle; runner reads results; janitor reclaims |
| Worker loop (`agent_worker.py`; `fallback_worker.py`, `side_effect_worker.py` reuse it) | a task in the memory of each in-flight slot; a token bucket | dequeue, run the activity, settle, wake the run: one transaction each | queue, `workflow_run.wakeup_at` |
| Side effects (`side_effect_worker.py`, `activities.py`, `ledger.py`, `readmodel.py`) | `refunds`, `refund_attempts`, `sent_replies`, `reply_attempts`, `ticket_results` | refund, check the ledger, reply, record the result | run by the worker loop for `finalize_ticket` |
| Graph (`graph.py`) | LangGraph checkpoint of one thread per ticket | eight nodes; four of them may interrupt; each dispatch and redispatch commits a transaction of its own | queue, clock of the database |
| Runner (`runner.py`) | a claimed run in memory | claim the oldest due run, look up a resume value, `ainvoke`, `save_run`; janitor: reclaim, reconcile orphans | everything; other runners through leases |
| Retention (`runner.run_retention`) | `workflow_run_archive` | archive terminal rows, delete their checkpoint threads, prune consumed signals and settled tasks: four transactions | what runner, reconciler and late workers write meanwhile |
| API (`api.py`) | none | create a ticket (`ainvoke`, then the run row), submit an approval, reads | graph, `workflow_run`, `pending_signal` |
| Workflow tables (`db.py`) | `workflow_run`, `pending_signal`, archive | claim/save/create/wake/archive, conditional signal insert | runner, API, workers |
| Migrations (`db.bootstrap`) | `schema_migrations` | create the table, take an advisory lock, read the markers, apply what is missing, commit | start of every process, each with its own version of the code |
| Agent, configuration, logging, tracing, scripts | — | — | — |

What makes it hard:

* **Leases expire under a holder that is still running.** `complete` and `fail`
  match a task by id and status, not by holder, so two deliveries of one task may
  race to settle it. Side effects run in both.
* **Settling and waking are two transactions.** A worker may die in between, and
  a wake-up may arrive long after the run has moved on; it does not say which
  task it is about.
* **The graph, its checkpoint, the outbox and the projection commit separately.**
  A node commits its task before its checkpoint is written; the checkpoint is
  flushed before `save_run`; `create_ticket` checkpoints before it inserts the run.
* **A node is executed again from its start on every resume**, with
  its side effects, until it gets past its interrupt.
* **Timers, results and decisions race** for the same resume.
* **One queue of runs for all runners**, oldest first. What nobody can get on
  stays at its head; a lease is released without asking who holds it.
* **Sweeps and restarts cut across everything.** Retention deletes in four
  transactions what the reconciler rebuilds from checkpoints; processes with old and
  new code migrate one database at once.
* **One event loop, several ways out of it.** A worker's loop must keep a rate with
  sleeps that end late, and end on a stop event, a cancellation or an exception
  without leaving a delivery behind.

What makes each part correct: a task settles at most once per insert, keeps its
retry budget, and its run is woken once, after it has settled (queue and loop);
money moves and mail leaves at most once and the stored results agree with the
ledgers (side effects); primary and fallback workers never both have one piece of
work, no refund without an approval, a decision is not turned round, the
projection does not go back, and every ticket gets to its end (workflow); no two
runners are in one ticket, and each ticket gets its turn (runners); what is archived
is decided, readable, and not started again (retention); a worker keeps its rate
and its deliveries (pool); a migration takes effect once, and no process serves on a
schema that is not its own (migrations).

`PROJECT.json` lists the hazards line by line, with the properties that cover
them.

## 2. Modules

```
TaskOutcome                 what the queue promises the workflow
  ^ refines
TaskQueue  <-------- SideEffects      run_finalize inside a delivery
  ^   ^---- TaskQueueProofs <---- SideEffectsProofs
  |
  . (its promise, abstracted)         TicketLife   what a ticket promises
  .                                     ^ refines
TicketRun             graph + runner + API + workflow tables, one ticket
  ^  ^  ^---- TicketRunProofs <---- TicketLifeProofs
  |  .
  |  . (its waits, abstracted)
  |  RunScheduler             several tickets and runners
  |    ^---- RunSchedulerProofs
Retention             the sweep, around TicketRun
  ^---- RetentionProofs       (also uses the lemmas of TicketRunProofs and
                               TicketLifeProofs)
WorkerPool            the loop of a worker process around TaskQueue's slots
  ^---- WorkerPoolProofs
Bootstrap             schema migrations
  ^---- BootstrapProofs
MCTaskQueue, MCSideEffects, MCTicketRun, MCRetention, MCRunScheduler,
MCWorkerPool, MCBootstrap             for TLC
```

An arrow is `EXTENDS` or `INSTANCE`; a dotted line is an abstraction that is argued
in the text, not checked.

### TaskQueue

One SQL statement is one action, named after the function. A row is a record
with the columns that statements read; `available`, `lease` and `aged` stand for
comparisons of `available_at`, `lease_expires_at` and `enqueued_at` with `now()`,
and `BackoffElapses`, `LeaseExpires` and `Age` are the clock. `lease_owner` is
written and never read, so it is left out. A *worker* of the model is
an in-flight slot of `run_forever` in any worker process; between its
transactions anything may happen, and `Crash` takes its memory away at any
moment. `permanent` and `cancelled` are what a failed row's `error` says of its way
there: an `AgentPermanentError`, or `cancel_pending`'s reason. The history variables
`reclaimed`, `notified` and `lostWakes` exist for
the properties and are read by no guard except the bound `MaxReclaims`.

### TaskOutcome

A key is absent, open, done with a result, or failed; it is submitted, settled
once, and forgotten after it is settled. `OutcomeOf` in `TaskQueue` is the
refinement mapping.

### SideEffects

`run_finalize` as a program counter `stage` and the local variable `flag` of each
slot, on top of every action of `TaskQueue`. Each ledger function is a
transaction and an action. `Raise` covers an exception before or after a
transaction took effect; none of them is an `AgentPermanentError`, so the delivery
is retried. `moneyMoved` and `mailsSent` count the calls that returned "first
time". `reply_attempts` is the twin of `refund_attempts` and is left out.

### TicketRun

One ticket, from `create_ticket` to the end. A process in `ainvoke` owns a copy
`mem` of the graph state; one superstep of LangGraph is one action per node.
`parked` counts the interrupts a node has raised, and `awaits` is the idempotency
key in the last one. LangGraph writes checkpoints in the background: after each
superstep the stored checkpoint `cp` may have caught up or not (`synced`), and it
has when `ainvoke` returns (`Flushed`). `Rerun` is the second execution of
`redispatch_agent_task` that a resume of the second interrupt causes. A resume
value that does not validate raises (`Raise`): nothing in `step` or
`run_forever` catches it, so the process ends and its lease has to expire.

Tasks are what the workflow sees of them: `TaskQueue` shows that this is a
`TaskOutcome`. `CompleteTask`/`FailTask` put the key into `owed`, `WakeRun` is the
worker's second transaction, `WorkerDies` loses it. Agent results are an
`auto`, `low_confidence` or `refund` draft, which is all that `decide_approval`
tells apart. `Due` is the test of `claim_run`: a wake-up is due at once, a
timer when the clock has passed it.

What is assumed of LangGraph (external: `Invoking`, `Continue`, `Park`,
`Flushed`): supersteps in the order of the edges, checkpoints in order, an
interrupt that is part of a checkpoint, and a spent resume value that is kept with
the interrupt it answered. What it may keep of a resume value whose node raised is
not modelled; the liveness properties except tickets on which that has
happened (`Broken`), so they do not depend on it.

### TicketLife

A ticket seen by its customer and by whoever lists tickets: the projected status,
whether a human approved, the outcome the terminal task was enqueued with, whether
it pays, and what became of it. The outcome is decided once, money needs an
approved resolution, and the projection claims nothing that has not happened.
`Life` in `TicketRun` is the refinement mapping; it reads only rows and `payload`,
so it holds for what is in the database, with a crash anywhere.

### Retention

`TicketRun`, with the archive, an age for every kind of row (`old`), and `sweep`,
the transaction a sweep is about to issue. The steps of `TicketRun` are grouped by
what they do to `updated_at`: `Touch` are those that set it. Each of the four
transactions of `run_retention` is an action. `AWeekPasses` is the only clock; it
is enabled only while no operation is under way, because ages are days and
operations seconds. `SweeperDies` may happen between any two transactions, and
as often as it likes. `recorded` says that `ticket_results` has the ticket, which is
where `GET /tickets/{id}` looks when the checkpoint is gone.

### RunScheduler

`claim_run`, `step` and `save_run` for several tickets and runners. Of a ticket,
only what it waits for is kept (`cp.node`: an agent stage, an approval, its terminal
task), whether its timer has been spent (`again`), and whether the checkpoint has an
interrupt at all (`parked`): a runner that dies inside `ainvoke` may leave one that
has none. `row` is the `workflow_run` row. `Claim` takes the oldest claimable one;
`Look` is `_pending_envelope` with `_resume_for_run`; `Outcomes` says where a
resume may park, and is empty where `ainvoke` raises. `Save` writes what the runner
remembers and releases whatever lease there is, and consumes the decision it was
resumed with.

`LeaseExpires` goes by the clock, like `claim_run` and `reclaim_expired_runs`: the
holder may be gone, or it may go on beside its successor and save late. `behind` is
history of that: "now" from the moment a working holder loses its lease until
everybody has left the ticket, then "once". Two runners may then be inside `ainvoke`
of one thread. Assumed of LangGraph (external): each of them loads the newest
checkpoint, either that of its lookup or what the other has made of it since
(`Loaded`); a value that is not for the loaded interrupt raises, and a thread that has
ended stays as it is (`Results`); the newest checkpoint is the one written last
(`Continue`). `branched` is history: threads that were continued from a checkpoint
that was not the newest.

### WorkerPool

One event loop: an action is what `run_forever` does from one suspension to the
next. Times are relative to now, in ticks. `next` is `_next_available`, `wait` what
is left of a sleep; a sleep ends at any time after that. Slots are free, running, or
finished and not looked at yet (`processed`, `empty`, `error`), which is what
`in_flight` counts. `begun` is history: the ages of the latest `Memory` beginnings.
What a delivery does is `TaskQueue`'s; a finished one here covers its outcomes.

### Bootstrap

Each statement of `bootstrap` that another process can be seen at is an action:
`CREATE TABLE IF NOT EXISTS` (found, created, waiting for whoever is creating it, or
failing on the duplicate), the advisory lock, reading the markers, one migration of
the loop, `COMMIT`. `Rollback` is what a death, an unknown marker or the duplicate
leads to. A migration is a number; `changed` counts how often its DDL has been
committed. Each start picks a version of the code.

## 3. Checks

| Run | Question | Bounds |
|---|---|---|
| `TaskQueueSafety` | retry budget, wake-ups, rows and slots under every interleaving; refinement of the fair `TaskOutcome` | 2 keys, 2 slots, 2 results, 2 attempts, 1 lost lease per row, 2 inserts: a pruned key is inserted again while an old delivery of it runs, and two deliveries settle with different results; no symmetry, because of liveness |
| `SideEffects` | effects at most once, results agree | 2 tickets, one with a refund, 2 slots, 2 attempts, 1 lost lease, 2 inserts |
| `TicketRunSafety` | safety of the workflow; refinement of `TicketLife` | all drafts, 2 decisions, 1 crash anywhere; lost wake-ups need no count here, since a wake-up may be late for ever |
| `TicketRunLiveness` | a ticket reaches finalization, a resolved one its projection | a draft that needs approval and one that does not, 1 decision, 1 lost wake-up |
| `RetentionSafety` | what is archived is decided, readable, and not started again | the draft that takes the longest way (a refund with its approval), 1 decision, the sweeper dies any number of times |
| `RunScheduler` | when two runners may meet in a ticket, what may show an ended ticket as open, whether every ticket gets its turn | 2 tickets, 2 runners, 1 fault: a runner dies anywhere or outlives its lease, or a terminal task fails for good; any wake-up may be lost. A lease is outlived in a behaviour with one ticket only (`MaxBehind`): the late runner, its successor, and each of the two as a later claimer are what meets there |
| `WorkerPool` | rate, deliveries, end, progress of the loop | 2 slots, an interval of 2 ticks, a pause of 1, 4 remembered beginnings: two late sleeps in a row fit into the history |
| `Bootstrap` | one effect per migration, the right schema, every process starts | 3 processes, 3 versions, 1 death; restarts without a bound |

The other four runs are the refutations below, on the smallest instance that has
them.

Bounds are guards with a named constant: `MaxReclaims`, `MaxInserts`,
`MaxSignals`, `MaxCrashes`, `MaxFaults`, `MaxBehind`, `MaxLostWakes`, `Memory`, `Newest`, `N`.
`MaxAttempts` is what `enqueue` writes into the column, 2 instead of 3: first, last and in-between
deliveries all occur together with lost leases. Slots are interchangeable, so
`SideEffects`, which has no liveness property, uses them as a symmetry set. Two
tickets are enough for what claims in order do: one that is older and in the way, one
that has to wait. `WorkerPool` needs no bound on time, since ages stop at `Horizon`.

Deadlock is not checked: with every ticket finished and the queue empty
nothing is left to do, an ended worker does nothing, and the bounds stop the models.

### Fairness

* Queue: a polling slot leases what is due, an activity returns or raises, a slot
  that owes a wake-up issues it or dies; the clock advances; the janitor runs
  periodically (`run_forever` of both loops). No assumption on cancellation,
  retention, or how long a slot takes compared to its lease.
* Ticket: each process goes on (weak fairness of its next step), a dead holder's
  lease expires, timers pass, and some leased task settles when tasks are leased
  again and again (strong fairness), which is what `OutcomeProgress` shows of
  the queue.
* Runners: each keeps polling and is started again after it has ended; workers
  settle tasks and are done with their wake-up, issued or lost; timers fire and the
  leases of runners that are gone expire (those of others may). Nobody has to approve or create anything.
* Worker loop: the event loop runs the coroutine, time passes, deliveries end.
  Nothing says when.
* Migrations: processes are started again and go on; the advisory lock is strongly
  fair, as Postgres queues its waiters.
* That a process which dies is started again is an assumption on the deployment:
  `docker-compose.yml` has no restart policy.

The liveness run of the ticket allows no crash, because the code does not survive
one in `ainvoke` (below). `RunScheduler` allows it, and says what it costs: a
ticket gets its turn unless some ticket is found `Stuck` over and over.

### Where the code and its documentation part

Each is a run that TLC must refute, with the quoted line in
`PROJECT.json`.

| Run | What happens |
|---|---|
| `TicketRunNoEarlyEscalation` | the draft worker's wake-up arrives after the run has parked for approval and escalates it at once |
| `TicketRunFinalizedTicketsEnd` | `save_run` overwrites the wake-up of a finalize task that was faster: the terminal row is never claimed again, and the graph never records the result |
| `RetentionMovedNotCopied` | the archive commits before the thread is deleted, so the reconciler takes the checkpoint for an orphan and gives the ticket a new row; a week later the archive's primary key refuses that row, `run_retention` raises, and so does the first sweep of every runner that is started after it (`ArchiveRefused`) |
| `RunSchedulerStuckTicket` | no fault at all: the runner finds the finalize result before the worker's wake-up, which then makes an ended row due; it has no interrupt, is released as it was claimed, and is claimed again before all younger tickets; a single runner does nothing else |

The models have these behaviours too; no run singles them out:

* a task whose leases expire is delivered more often than `max_attempts`: `fail`
  compares attempts, `reclaim_expired` does not (`DeliveriesBounded` states the real
  bound);
* a delivery that lost its lease settles the task while a successor holds it
  (`complete`'s docstring says `None` "when no leased row matched -- e.g. the
  lease was already reclaimed by the janitor");
* a late wake-up at an interrupt without a timer is taken for a timeout: the graph
  raises, and nothing in `step` or `run_forever` catches it;
* a finalize task that fails for good makes `execute` raise on every resume; the
  ticket stays in the way of younger ones, each time until the lease of the runner
  it has ended expires (`Stuck`);
* after an approval the run is still `awaiting_approval` until its terminal task is
  done: a second decision is accepted and never read. A decision accepted while the
  runner carries out the timeout is not read either, where
  `tests/test_api.py:745` expects a 409 for a late approval;
* a crash between two checkpoints inside `ainvoke` leaves a run without an
  interrupt: it is claimed and released for ever (`Stuck`);
* a crash between `ainvoke` and `save_run`, of a runner whose claim saw no
  timestamp, loses the approval's timer and its projection: no decision can be
  submitted, and the run stays due (`Stuck`);
* a runner that stalls past its lease writes what it found long ago: it claims an open
  ticket, finds nothing to resume it with, stalls, a successor ends the ticket, and the
  release shows it as open again, where `runner.py:267` says "Release the lease, leaving
  status/wakeup_at untouched". `HoldersKeepEnded` excepts such a save (`LateSave`), and
  nothing else;
* a late `save_run` releases the lease of the runner that is at work by then, so a
  third one, or the late one itself, may claim the ticket beside it: two runners that
  are both within their 30 s meet. `OneRunnerPerTicket` excepts a ticket from an
  outlived lease until everybody has left it;
* two runners inside `ainvoke` of one thread may branch it, so that the ticket waits
  for an approval that has been given and consumed (`Stuck`);
* a crash between a redispatch and its checkpoint leaves the cancelled primary as
  the awaited task: the ticket is escalated while the fallback task is outstanding;
* a reconciler pass while `create_ticket` is under way inserts `received` without
  a timer, not the "identical" row of `db.create_run`'s docstring;
* an open run that waits without a timestamp (a terminal task, a redispatched agent
  task) is due all the time, so one whose worker is missing holds back
  every younger ticket of a single runner. In `RunScheduler` workers are fair, so it
  is not `Stuck`;
* `prune_settled` goes by `enqueued_at`: a result that came a week after its
  insert may be pruned before the run has read it;
* a ticket archived as rejected or escalated before its finalize task was done has
  neither a checkpoint nor a result: `GET /tickets/{id}` answers 404 until it is
  (the exception in `TicketReadable`);
* on an empty database, processes that create `schema_migrations` at once fail with
  a duplicate key, all but one, before any of them has taken the lock:
  `bootstrap` is "idempotent so startup can call it safely" only with a restart
  (`Starts` assumes it). A process that is up keeps running when newer code migrates
  the schema.

`DecisionNotReversed` is as strong as the code allows: after a crash, a timeout's
escalation may already be in the outbox when a decision is accepted and consumed.

## 4. Proofs

The theorems hold for every value of the constants that the modules' named
assumptions allow (`QueueAssumption`, `SideEffectsAssumption`, `RunAssumption`,
`SchedulerAssumption`, `PoolAssumption`, `BootstrapAssumption`); TLC evaluates these
in the runs.

`TaskQueueProofs`:

* `TypeCorrect`: by `RowOperatorsType` (each row operator returns a row) and
  `EditedRowType` (a row stays one when a single column is set), action by action.
* `RetryBudget`: `DeliveriesBounded /\ FailsOnlyWhenSpent` is inductive relative
  to types if it is taken row by row (`BudgetByRow`); `RowBudgetKept` says that
  each operator keeps it in the status its statement finds.
* `RowsAndSlotsAgree`: `Coherent` is its own inductive invariant. Its core is that
  ids are not reused, so the stale id of an old delivery names its own key's row
  or none; every later argument about a stale `complete` or `fail` needs it.
* `QueueImplementsOutcome`: with types and `Coherent`, each step settles one open
  key, submits one, forgets settled ones, or changes no outcome.
* `OneWake`: `OneWakePerSettlement` is not inductive without
  `WakeAfterSettlement`: a second slot could settle an open row whose
  wake-up is already owed. Together, and with `Coherent`, they are.

* `NoWakeForgotten`: `WakeAccounted` is inductive with the former, as each of the three
  paths that settle a row (`complete`, `fail` with the attempts spent, `fail` with a
  permanent error) ends in a slot that owes the wake-up. A row that the workflow has
  cancelled owes none.
* `DeliveriesApart`: two slots never hold one row with the same attempt, because
  `dequeue` counts the attempt it hands out, and a slot's attempt is never above its
  row's.

`SideEffectsProofs`:

* `FinalizeRefinesQueue`: each action is one of `TaskQueue`, or changes ledgers only,
  so `Coherent` and the types of the queue hold here.
* `EffectsOnce`, `RefundPrecedesReply`, `DoneIsComplete`, from `EffectsInv`. What a
  slot has come to know of the ledgers (`Progress`, by its `stage` and its `flag`)
  stays true whatever other deliveries of the task do, because no ledger row is
  ever deleted. `Ledgers` ties the number of effects to the rows, which makes "at
  most once" inductive; `Settlement` carries it on to the result.

`TicketRunProofs`:

* `TypeCorrect`: the types are not inductive. A resume value is only as good as the
  interrupt it is given to: `decided` would get a "result" for a node that asks for a
  decision. `BaseInv` says which status, draft and interrupts a graph state has at
  each node (`Shape`), that a graph that waits for the terminal task has written its
  payload, and what a process may be resumed with. `Supersteps` sorts the supersteps
  into those that store a graph state and those that raise; `SuperstepShaped` and
  `ProcessShaped` do the work. `ShapeInv` adds that a payload is that of a terminal
  task in the queue (`PayloadHeld`), the one part that a sweep takes away.
* `NoDoubleDispatch`: `ExclusiveDispatch` is inductive with it. Only an enqueue and
  a redispatch insert tasks, the latter only after it has taken the primary one away,
  and a failed task is never given out again.
* `NoLostDispatch`: `AwaitInv`. Whatever a checkpoint *or a copy* waits for, or is
  about to wait for, is in the queue. The copies have to be in it, as a checkpoint
  catches up with them later; `GraphOrigins` says where a graph state may come from.

`TicketLifeProofs`:

* `ApprovedRefunds`: `BackedInv`. What a graph state says of a draft or of a decision
  is in the queue or in `pending_signal` (`Backed`), so is what a resume value says
  (`Resumed`), and no row of these goes away. A payload is written from such a state.
* `CheckpointMonotone`, `ResolvedIsFinal`: `OrderInv`. The copy of a runner starts at
  the checkpoint and goes ahead of it (`AtOrBefore`, a preorder on nodes, statuses and
  interrupts); as long as `create_ticket` has something to write, no runner is
  active; the row follows the checkpoint. Without it, a checkpoint flushed late could
  take the thread back.
* `DecisionsStand`: `DecisionInv`. `DecisionNotReversed` speaks of consumed decisions,
  which are turned round before they are consumed or not at all. So the invariant
  follows one from the row through the runner that has looked it up (`Carries`) to
  the payload, says that there is at most one, and, for the crash between the outbox
  and the checkpoint, that no graph that is about to refuse is left once the outbox
  says resolved (`Refuses`, `DraftOver`).
* `ImplementsLife`: all of the above. `RowOrigins` says what each new status of the
  row rests on, `OneAtATime` that a step changes one thing that `TicketLife` sees,
  `StepIsLifeStep` maps it to the action of `TicketLife` that does.

`RunSchedulerProofs`, from `SchedulerInv`:

* `RunnersApart`: a runner in a ticket has its lease, unless that ticket is behind
  (`Holds`). While it is not, a lease is taken from a runner in its ticket by the clock
  only, which puts the ticket behind, and `save_run`, which asks for no lease, releases
  its own, because only its holder is there. A ticket gets back only when the last
  one leaves, and then nobody is left who could be without a lease (`LeaveStep`).
* `OnlyLateSavesReopen`: what a `save_run` will write has to be known when the ticket
  is claimed, looked up and resumed, while late runners write beside it. `EndsLate`
  carries one half: an ended ticket's graph is at its terminal task or past it, from
  where only the end can be reached. `Remembers` is the other: a runner that still has
  the lease is not behind the row, because every save, late or not, takes the lease
  from whoever has it. This is what an unguarded `save_run` gains from releasing
  any lease: if a late one released only its own (`SaveOwnLease`), its successor
  could undo an end in time.

`WorkerPoolProofs`, from `PoolInv`:

* `RateKept`: `Spaced` is `RateBound` itself, and nothing in the history of
  beginnings bounds the next one. `PaidFor` does: the bucket's next token is never
  less than *i* - 1 intervals after the *i*-th latest beginning, because each has
  moved it by at least one interval. With `TokenAhead`, which says how far the
  bucket may be ahead of the clock, the invariant is inductive. It depends neither
  on the interval, nor on the slots, nor on how late a sleep ends.
* `NothingAbandoned`: the loop ends out of `draining` only.

`BootstrapProofs`, from `BootstrapInv`:

* `MigrationsOnce`, `StartsOnItsSchema`: at most one process is between lock and
  commit (`Mutex`), so what it has read stays true, and its uncommitted migrations
  are those that were missing before the place of its loop (`Transaction`).
  `CommitCompletes` concludes that a commit leaves the markers of its code.

`RetentionProofs`. `AwaitInv`, `BackedInv`, `OrderInv` and `DecisionInv` do not
hold here: a sweep deletes the tasks and decisions that they say are on record, and
its thread. What survives, `BaseInv` among it, is the start of two invariants:

* `SweepHolds`: `SweepInv`. A runner's copy is ahead of its checkpoint unless that was
  deleted (`RunnerNear`); as long as `create_ticket` has something to write nobody
  else works on the graph and nothing is old enough for a sweep (`ApiFirst`); without a
  row nothing is claimed (`RowFirst`). The core is `ShownInv`: a terminal status, in
  the row, in the memory of a runner or of the reconciler, or in the archive, says
  that no graph state from before `execute` is left anywhere (`PastGate`), and
  "resolved" that none from before the end is, with the result recorded (`AtEnd`).
  Each place has to be named, because a status may survive in it when a sweep has
  taken the others: the reconciler brings back what it read before the thread went.
* `RetentionTyped`, `TicketsStayReadable` and `ArchiveIsFinal` follow; the latter as a
  graph at `execute` or past it enqueues no agent task (`ArchivedAtRest`).
* `OutcomeHolds`, `ArchivedAreDecided`: that what is archived as resolved has a payload
  that says so is the hard part. The terminal task may be pruned while the graph is
  still at `execute`; a resume then enqueues it again, with the payload of that graph.
  So no graph may be left that would write another one. `ResolutionInv` says it
  beforehand: if the payload is resolved, *or the runner is at a point from
  which it will be* (`Resolves`), then checkpoint and copy both lead to the
  resolution (`Resolving`), be it through an approval that is granted and not consumed
  or a draft that needs none. A sweep keeps that, since it prunes consumed decisions
  and settled tasks only, and an answer stays with its key (`Answered`). It needs that
  an approval is carried out before it is consumed (`SignalHeld`), that what was
  looked up stays what it was (`LookupHeld`), and that a fallback is waited for only
  after the primary task is taken away (`Handed`).

Left to TLC: liveness (`OutcomeProgress`, `TicketReachesFinalization`,
`ResolvedTicketsComplete`, `EveryTicketServed`, `StopEnds`, `KeepsPolling`, `Starts`),
which under fairness is out of the prover's reach. Every safety and action property
that a passing run checks is also a theorem.

## 5. Not modelled, and the plan

Not modelled:

* the agent (a mock), configuration, logging, tracing and the scripts (`batch.py`,
  `doctor.py`, reset): they keep no state the workflow reads;
* a step that outlives its 30 s lease, in `TicketRun` and `Retention`: `RunScheduler` has
  it, with a ticket cut down to what it waits for;
* what LangGraph keeps of a resume value whose node raised;
* sending a reply: it is a log line, only the ledger is modelled;
* a second cancellation of a worker while it drains.

Plan: `DecisionNotReversed` and `TicketLife` for the ticket beside the sweep, restricted
to what a sweep leaves on record; the renumbering of decisions in `PruneSignals`
compared with stable ids; `TicketRun`'s tasks as a refinement of `TaskOutcome`, so that
the abstraction of the queue is checked rather than argued.

--------------------------- MODULE RunScheduler ---------------------------
(***************************************************************************)
(* How the runners share the tickets: claim_run leases the oldest run that *)
(* is due, step looks up what it may be resumed with, resumes it or gives  *)
(* it back, and save_run releases the lease without asking who holds it    *)
(* (db.py, runner.py).  Several runners and tickets; runners die, or stall *)
(* until their lease has run out and go on beside their successor.         *)
(*                                                                         *)
(* A ticket is cut down to what the scheduler tells apart.  It waits for   *)
(* an agent stage, under a timer and, once that has fired, without one;    *)
(* for an approval, under a timer; for its terminal task, without one; the *)
(* two agent stages are one here, and TicketRun has the whole graph.       *)
(* Tickets are numbered in the order of created_at.                        *)
(***************************************************************************)
EXTENDS Naturals, FiniteSets

CONSTANTS N,            \* tickets
          Runners,      \* names of runner processes, reused after a death
          MaxFaults,    \* bound: runners that die or outlive their lease, and
                        \* terminal tasks that fail
          MaxBehind     \* bound: tickets there are once a runner has outlived
                        \* its lease

ASSUME SchedulerAssumption ==
    /\ N \in Nat \ {0}
    /\ {MaxFaults, MaxBehind} \subseteq Nat
    /\ {"nobody", "expired"} \cap Runners = {}

VARIABLES row,     \* [Tickets -> workflow_run row]
          cp,      \* [Tickets -> newest checkpoint]
          job,     \* [Tickets -> status of the awaited work, by wait]
          owed,    \* <<ticket, wait>> whose worker has yet to wake the run
          proc,    \* [Runners -> what step remembers]
          faults,  \* how many of the faults above there have been
          behind,  \* history: [Tickets -> whether a runner has outlived its lease
                   \* there: "now", until everybody has left, then "once"]
          branched \* history: tickets whose thread was continued, or begun to
                   \* be, from a checkpoint that was not the newest

history == <<behind, branched>>
vars == <<row, cp, job, owed, proc, faults, history>>

Tickets == 1..N
Waits == {"agent", "approval", "final"}
Nobody == "nobody"
Expired == "expired"

NoRow == [status |-> "absent", wakeup |-> "null", lease |-> Nobody]
Parked(node) == [node |-> node, again |-> FALSE, parked |-> TRUE]
Runner(pc, ticket, status, wakeup) ==
    [pc |-> pc, ticket |-> ticket, resume |-> "none", graph |-> Parked("agent"),
     status |-> status, wakeup |-> wakeup]
IdleRunner == Runner("idle", 0, "agent", "null")

Init ==
    /\ row = [t \in Tickets |-> NoRow]
    /\ cp = [t \in Tickets |-> Parked("agent")]
    /\ job = [t \in Tickets |-> [w \in Waits |-> "absent"]]
    /\ owed = {}
    /\ proc = [r \in Runners |-> IdleRunner]
    /\ faults = 0
    /\ behind = [t \in Tickets |-> "never"]
    /\ branched = {}

-----------------------------------------------------------------------------
(* A step *)

\* Mutant: the lease is not looked at.
ClaimableThoughLeased(t) ==
    /\ row[t].status # "absent"
    /\ row[t].status = "closed" => row[t].wakeup = "due"
    /\ row[t].wakeup \in {"null", "due"}

\* Mutant: a run without a timestamp is not due.
ClaimableIfDue(t) ==
    /\ row[t].status # "absent"
    /\ row[t].wakeup = "due"
    /\ row[t].lease \in {Nobody, Expired}

\* claim_run's WHERE.
Claimable(t) ==
    /\ row[t].status # "absent"
    /\ row[t].status = "closed" => row[t].wakeup = "due"
    /\ row[t].wakeup \in {"null", "due"}
    /\ row[t].lease \in {Nobody, Expired}

\* claim_run: ORDER BY created_at LIMIT 1.
Claim(r) ==
    /\ proc[r].pc = "idle"
    /\ \E t \in Tickets :
          /\ Claimable(t)
          /\ \A older \in 1..(t - 1) : ~Claimable(older)
          /\ row' = [row EXCEPT ![t].lease = r]
          /\ proc' = [proc EXCEPT ![r] =
                        Runner("claimed", t, row[t].status, row[t].wakeup)]
    /\ UNCHANGED <<cp, job, owed, faults, history>>

\* Mutant: the row's status is passed on instead of the result.
ResumeWithStatus(r) ==
    LET t == proc[r].ticket IN
    IF cp[t].parked THEN job[t][cp[t].node] ELSE "none"

\* _resume_for_run: what the awaited work came to, else a timeout if the claim
\* saw a timestamp.
Resume(r) ==
    LET t == proc[r].ticket IN
    IF ~cp[t].parked THEN "none"
    ELSE IF job[t][cp[t].node] = "done" THEN "result"
    ELSE IF job[t][cp[t].node] = "failed" THEN "failure"
    ELSE IF proc[r].wakeup = "due" THEN "timeout" ELSE "none"

Others(r) == {s \in Runners \ {r} : proc[s].pc # "idle"
                                     /\ proc[s].ticket = proc[r].ticket}

\* What the lookup may come to: while another runner is in ainvoke, the newest
\* checkpoint may be one between two nodes, without an interrupt.
Lookups(r) ==
    {Resume(r)} \cup (IF \E s \in Others(r) : proc[s].pc = "invoking"
                        THEN {"none"} ELSE {})

\* aget_state and the lookup: resume, or give the run back as it was claimed.
Look(r) ==
    /\ proc[r].pc = "claimed"
    /\ \E resume \in Lookups(r) :
          proc' = IF resume = "none"
                    THEN [proc EXCEPT ![r].pc = "saving"]
                    ELSE [proc EXCEPT ![r].pc = "invoking",
                                      ![r].resume = resume,
                                      ![r].graph = cp[proc[r].ticket]]
    /\ UNCHANGED <<row, cp, job, owed, faults, history>>

Outcome(g, status, wakeup) == [graph |-> g, status |-> status, wakeup |-> wakeup]

Final(status) == Outcome(Parked("final"), status, "null")

\* Where ainvoke may park, with the status and timestamp step saves; none where
\* it raises.
Outcomes(g, resume) ==
    CASE g.node = "agent" /\ resume = "result" ->
           {Final("agent"), Final("closed"),
            Outcome(Parked("approval"), "approval", "future")}
      [] g.node = "agent" /\ resume = "timeout" /\ ~g.again ->
           {Outcome([g EXCEPT !.again = TRUE, !.parked = TRUE], "agent",
                    "null")}
      [] g.node = "approval" /\ resume = "result" ->
           {Final("approval"), Final("closed")}
      [] g.node = "approval" /\ resume = "timeout" -> {Final("closed")}
      [] g.node = "final" /\ resume = "result" ->
           {Outcome([g EXCEPT !.node = "end", !.parked = FALSE], "closed",
                    "null")}
      [] OTHER -> {}

Enqueued(t, node) ==
    IF node = "final" /\ job[t].final = "absent"
      THEN [job EXCEPT ![t].final = "open"] ELSE job

\* ainvoke reads the newest checkpoint when it begins: the one of the lookup, or
\* what another runner has made of it since.
Loaded(r) == {proc[r].graph, cp[proc[r].ticket]}

\* A result or a failure is that of one wait, and validates at no other; a
\* timeout is the same for all; a thread that has ended has nothing to resume and
\* stays as it is.
Results(r, g) ==
    CASE g.node = "end" -> {Outcome(g, "closed", "null")}
      [] g.node # "end" /\ proc[r].resume # "timeout"
           /\ g.node # proc[r].graph.node -> {}
      [] OTHER -> Outcomes(g, proc[r].resume)

\* The thread goes on from g; the newest checkpoint is whichever was written
\* last.
Continue(t, g) ==
    branched' = IF g = cp[t] THEN branched ELSE branched \cup {t}

\* ainvoke.  save_run will consume the decision that an approval was resumed with.
Invoke(r) ==
    LET t == proc[r].ticket IN
    /\ proc[r].pc = "invoking"
    /\ \E g \in Loaded(r) : \E o \in Results(r, g) :
          /\ cp' = [cp EXCEPT ![t] = o.graph]
          /\ job' = Enqueued(t, o.graph.node)
          /\ proc' = [proc EXCEPT ![r] =
                        [Runner("saving", t, o.status, o.wakeup) EXCEPT
                           !.resume = IF proc[r].graph.node = "approval"
                                        THEN proc[r].resume ELSE "none"]]
          /\ Continue(t, g)
    /\ UNCHANGED <<row, owed, faults, behind>>

\* r leaves its ticket.
Leave(r) ==
    LET t == proc[r].ticket IN
    behind' = IF behind[t] = "now" /\ Others(r) = {}
                THEN [behind EXCEPT ![t] = "once"] ELSE behind

\* ainvoke raises on a timeout that no timer explains, on a terminal task that
\* failed for good, and on what was looked up for another interrupt; the runner
\* ends.
Raise(r) ==
    /\ proc[r].pc = "invoking"
    /\ \E g \in Loaded(r) : Results(r, g) = {}
    /\ proc' = [proc EXCEPT ![r] = IdleRunner]
    /\ Leave(r)
    /\ UNCHANGED <<row, cp, job, owed, faults, branched>>

\* The decision that is consumed, if any.
Consumed(r) ==
    IF proc[r].resume = "result"
      THEN [job EXCEPT ![proc[r].ticket].approval = "spent"] ELSE job

\* Mutant: only the own lease is released.
SaveOwnLease(r) ==
    LET t == proc[r].ticket IN
    /\ proc[r].pc = "saving"
    /\ row' = [row EXCEPT ![t] =
                 [status |-> proc[r].status, wakeup |-> proc[r].wakeup,
                  lease |-> IF row[t].lease = r THEN Nobody ELSE row[t].lease]]
    /\ job' = Consumed(r)
    /\ proc' = [proc EXCEPT ![r] = IdleRunner]
    /\ Leave(r)
    /\ UNCHANGED <<cp, owed, faults, branched>>

\* save_run: whoever holds the lease, it is released.
Save(r) ==
    /\ proc[r].pc = "saving"
    /\ row' = [row EXCEPT ![proc[r].ticket] =
                 [status |-> proc[r].status, wakeup |-> proc[r].wakeup,
                  lease |-> Nobody]]
    /\ job' = Consumed(r)
    /\ proc' = [proc EXCEPT ![r] = IdleRunner]
    /\ Leave(r)
    /\ UNCHANGED <<cp, owed, faults, branched>>

Step(r) == Claim(r) \/ Look(r) \/ Invoke(r) \/ Raise(r) \/ Save(r)

\* A runner dies.  Inside ainvoke it may leave a checkpoint that was written
\* between two nodes, without an interrupt.
Crash(r) ==
    /\ proc[r].pc # "idle"
    /\ faults < MaxFaults
    /\ \/ UNCHANGED <<cp, branched>>
       \/ /\ proc[r].pc = "invoking"
          /\ \E g \in Loaded(r) :
                /\ g.node # "end"
                /\ cp' = [cp EXCEPT ![proc[r].ticket] =
                            [g EXCEPT !.parked = FALSE]]
                /\ Continue(proc[r].ticket, g)
    /\ proc' = [proc EXCEPT ![r] = IdleRunner]
    /\ faults' = faults + 1
    /\ Leave(r)
    /\ UNCHANGED <<row, job, owed>>

Held(t) == row[t].lease \in Runners
Working(t) == Held(t) /\ proc[row[t].lease].pc # "idle"
                      /\ proc[row[t].lease].ticket = t

\* 30 s after the claim, whether its runner is gone or still at it.
LeaseExpires(t) ==
    /\ Held(t)
    /\ row' = [row EXCEPT ![t].lease = Expired]
    /\ \/ ~Working(t) /\ UNCHANGED <<faults, behind>>
       \/ /\ Working(t)
          /\ faults < MaxFaults
          /\ \A u \in Tickets : row[u] # NoRow => u <= MaxBehind
          /\ faults' = faults + 1
          /\ behind' = [behind EXCEPT ![t] = "now"]
    /\ UNCHANGED <<cp, job, owed, proc, branched>>

\* reclaim_expired_runs.
Reclaim ==
    /\ \E t \in Tickets : row[t].lease = Expired
    /\ row' = [t \in Tickets |-> IF row[t].lease = Expired
                                   THEN [row[t] EXCEPT !.lease = Nobody]
                                   ELSE row[t]]
    /\ UNCHANGED <<cp, job, owed, proc, faults, history>>

-----------------------------------------------------------------------------
(* The API, the workers and the clock *)

\* create_ticket, checkpoint and run at once.
CreateTicket(t) ==
    /\ row[t] = NoRow
    /\ \A older \in 1..(t - 1) : row[older] # NoRow
    /\ t <= MaxBehind \/ \A older \in Tickets : behind[older] = "never"
    /\ row' = [row EXCEPT ![t] = [status |-> "agent", wakeup |-> "future",
                                  lease |-> Nobody]]
    /\ job' = [job EXCEPT ![t].agent = "open"]
    /\ UNCHANGED <<cp, owed, proc, faults, history>>

\* A worker settles a task; it wakes the run in a second transaction, or dies.
\* A failed agent task is a result like others: the ticket escalates.
Settle(t, w) ==
    /\ job[t][w] = "open"
    /\ \/ /\ job' = [job EXCEPT ![t][w] = "done"]
          /\ UNCHANGED faults
       \/ /\ w = "final"
          /\ faults < MaxFaults
          /\ job' = [job EXCEPT ![t][w] = "failed"]
          /\ faults' = faults + 1
    /\ owed' = owed \cup {<<t, w>>}
    /\ UNCHANGED <<row, cp, proc, history>>

WakeRun(t, w) ==
    /\ <<t, w>> \in owed
    /\ owed' = owed \ {<<t, w>>}
    /\ \/ row' = [row EXCEPT ![t].wakeup = "due"]
       \/ UNCHANGED row
    /\ UNCHANGED <<cp, job, proc, faults, history>>

\* submit_approval; one decision for each ticket here.
SubmitApproval(t) ==
    /\ row[t].status = "approval"
    /\ job[t].approval = "absent"
    /\ job' = [job EXCEPT ![t].approval = "done"]
    /\ row' = [row EXCEPT ![t].wakeup = "due"]
    /\ UNCHANGED <<cp, owed, proc, faults, history>>

TimerFires(t) ==
    /\ row[t].wakeup = "future"
    /\ row' = [row EXCEPT ![t].wakeup = "due"]
    /\ UNCHANGED <<cp, job, owed, proc, faults, history>>

-----------------------------------------------------------------------------
Next ==
    \/ \E r \in Runners : Step(r) \/ Crash(r)
    \/ Reclaim
    \/ \E t \in Tickets : \/ LeaseExpires(t) \/ CreateTicket(t)
                          \/ SubmitApproval(t) \/ TimerFires(t)
                          \/ \E w \in Waits : Settle(t, w) \/ WakeRun(t, w)

Spec == Init /\ [][Next]_vars

\* Runners keep polling and are restarted, workers settle what they are given,
\* time passes.  Nobody has to approve anything, or to create a ticket.
Fairness ==
    /\ \A r \in Runners : WF_vars(Step(r))
    /\ \A t \in Tickets :
          /\ WF_vars(TimerFires(t))
          /\ WF_vars(~Working(t) /\ LeaseExpires(t))
          /\ WF_vars(\E w \in Waits : Settle(t, w) \/ WakeRun(t, w))

FairSpec == Spec /\ Fairness

-----------------------------------------------------------------------------
(* Properties *)

Graph == [node : Waits \cup {"end"}, again : BOOLEAN, parked : BOOLEAN]
Status == {"agent", "approval", "closed"}
Wakeup == {"null", "future", "due"}
Job == {"absent", "open", "done", "failed", "spent"}
Resumed == {"none", "result", "failure", "timeout"}
Row == [status : Status \cup {"absent"}, wakeup : Wakeup,
        lease : Runners \cup {Nobody, Expired}]
Proc == [pc : {"idle", "claimed", "invoking", "saving"}, ticket : 0..N,
         resume : Resumed,
         graph : Graph, status : Status, wakeup : Wakeup]

\* Types of the state.
TypeOK ==
    /\ row \in [Tickets -> Row]
    /\ cp \in [Tickets -> Graph]
    /\ job \in [Tickets -> [Waits -> Job]]
    /\ owed \subseteq Tickets \X Waits
    /\ proc \in [Runners -> Proc]
    /\ faults \in 0..MaxFaults
    /\ behind \in [Tickets -> {"never", "now", "once"}]
    /\ branched \subseteq Tickets

Busy == {r \in Runners : proc[r].pc # "idle"}

\* Two runners are never in the same ticket, whoever dies, is reclaimed or
\* releases a lease that save_run does not ask for, unless a runner has outlived
\* its lease there.
OneRunnerPerTicket ==
    \A r, s \in Busy :
        r # s /\ proc[r].ticket = proc[s].ticket => behind[proc[r].ticket] = "now"

\* The save_run of a runner that has lost the lease of t to the clock or to
\* another save_run.
LateSave(t) ==
    \E r \in Runners : /\ proc[r].pc = "saving"
                       /\ proc[r].ticket = t
                       /\ row[t].lease # r

\* A ticket that is shown as ended is shown as open again only by a late save,
\* which puts back what its claim found: whoever has the lease never does so, even
\* if such saves have come before.  Not so for a ticket whose thread has branched.
HoldersKeepEnded ==
    [][\A t \in Tickets :
          row[t].status = "closed" /\ row'[t].status # "closed"
            => LateSave(t) \/ t \in branched']_vars

\* What nothing gets on any more and every runner keeps claiming: a checkpoint
\* without an interrupt, or a terminal task that failed for good, under a run
\* that is open or was woken once more.  Or one that waits for an approval whose
\* timer is lost, and for which there is no decision.
Stuck(t) ==
    /\ \A r \in Busy : proc[r].ticket = t => proc[r].pc # "invoking"
    /\ \/ /\ ~cp[t].parked \/ job[t].final = "failed"
          /\ row[t].status = "closed" => row[t].wakeup = "due"
       \/ /\ cp[t].node = "approval"
          /\ job[t].approval # "done"
          /\ row[t].status # "closed"
          /\ row[t].wakeup = "null"

Served(t) == row[t].status = "closed" \/ job[t].final = "done"

\* Every ticket gets its turn, whatever the tickets before it wait for, unless
\* some ticket is found stuck over and over.
EveryTicketServed ==
    \A t \in Tickets :
        []<>(\/ row[t].status = "absent"
             \/ Served(t)
             \/ \E u \in Tickets : Stuck(u))

-----------------------------------------------------------------------------
(* A claim of the documentation that the code does not keep *)

\* "Small failure domain (one stuck ticket cannot block others)"
\* (docs/context.md:18): a ticket gets its turn unless it is stuck itself.
StuckTicketBlocksNoOther ==
    \A t \in Tickets :
        row[t].status # "absent" ~> Served(t) \/ Stuck(t)
=============================================================================

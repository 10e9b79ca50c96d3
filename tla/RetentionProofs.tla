---------------------------- MODULE RetentionProofs ----------------------------
(***************************************************************************)
(* Theorems about Retention: what the sweep may take from under the        *)
(* workflow, for every number of crashes, sweeps and weeks.  The workflow  *)
(* keeps BaseInv of TicketRunProofs beside the sweep; what OrderInv says   *)
(* of the run row does not survive it (an archived ticket can get a new    *)
(* row from the reconciler) and is replaced here by what does.             *)
(***************************************************************************)
EXTENDS Retention, TicketLifeProofs

-----------------------------------------------------------------------------
(* Types *)

\* A step of the workflow, as the sweep sees it.
WorkflowStep ==
    /\ [Next]_vars
    /\ recorded \/ task'["finalize"] = "done" => recorded'
    /\ recorded' \in BOOLEAN
    /\ old' \subseteq old
    /\ UNCHANGED <<archive, sweep>>

\* A step that changes nothing of the workflow.
Aside ==
    /\ AWeekPasses \/ ArchiveRefused \/ SweeperDies
    /\ UNCHANGED vars

\* Every step is one of these.
LEMMA StepKinds ==
  ASSUME RetentionTypeOK, task["finalize"] = "done" => recorded,
         [RetentionNext]_sweepVars
  PROVE  \/ WorkflowStep \/ Aside
         \/ ArchiveRuns \/ DeleteThread \/ PruneSignals \/ PruneTasks
<1>1. CASE Touch \/ Proceed
  <2>1. Next
    BY <1>1, Zenon DEF Touch, Proceed, Next
  <2>2. Record /\ old' \subseteq old /\ UNCHANGED <<archive, sweep>>
    BY <1>1 DEF Touch, Proceed
  <2> QED BY <2>1, <2>2 DEF WorkflowStep, Record, RetentionTypeOK
<1>2. CASE UNCHANGED sweepVars
  <2>1. UNCHANGED <<vars, archive, old, sweep, recorded>>
    BY <1>2 DEF sweepVars, retention
  <2>2. UNCHANGED task
    BY <2>1 DEF vars, queue
  <2> QED BY <2>1, <2>2 DEF WorkflowStep, RetentionTypeOK
<1>3. CASE AWeekPasses \/ ArchiveRefused \/ SweeperDies
  BY <1>3 DEF AWeekPasses, ArchiveRefused, SweeperDies, Aside
<1> QED BY <1>1, <1>2, <1>3 DEF RetentionNext, Sweep

\* What prune_consumed_signals leaves, and what a runner remembers of it.
LEMMA SignalsPruned ==
  ASSUME TypeOK, PruneSignals
  PROVE  /\ signals' \in Seq(Signal) /\ Len(signals') <= MaxSignals
         /\ proc' \in [Procs -> ProcState] /\ proc'["api"] = proc["api"]
         /\ LET now == proc["runner"]
                next == proc'["runner"]
            IN  /\ next.pc = now.pc /\ next.synced = now.synced
                /\ next.resume = now.resume /\ next.status = now.status
                /\ now.signal = 0 => next.signal = 0
<1>1. /\ DOMAIN signals = 1..Len(signals) /\ Len(signals) \in Nat
      /\ \A i \in DOMAIN signals : signals[i] \in Signal
      /\ signals \in Seq(Signal) /\ Len(signals) <= MaxSignals
      /\ MaxSignals \in Nat
  BY SignalSteps, RunAssumption DEF TypeOK, Signal
<1>2. Undecided \in Seq(Signal) /\ Len(Undecided) <= MaxSignals
  <2>1. CASE Unconsumed = {}
    BY <1>1, <2>1 DEF Undecided
  <2>2. CASE Unconsumed # {}
    <3>1. PICK i \in DOMAIN signals : i = CHOOSE j \in Unconsumed : TRUE
      BY <2>2 DEF Unconsumed
    <3>2. Undecided = <<signals[i]>>
      BY <2>2, <3>1 DEF Undecided
    <3>3. 1 <= MaxSignals
      BY <1>1, <3>1
    <3> QED BY <1>1, <3>1, <3>2, <3>3
  <2> QED BY <2>1, <2>2
<1>3. signals' \in Seq(Signal) /\ Len(signals') <= MaxSignals
  BY <1>1, <1>2 DEF PruneSignals
<1>4. "api" \in Procs /\ "runner" \in Procs /\ proc \in [Procs -> ProcState]
  BY DEF TypeOK, ProcState, Procs
<1>5. CASE UNCHANGED proc
  BY <1>3, <1>4, <1>5
<1>6. CASE proc' = [proc EXCEPT !["runner"].signal = IF @ = 0 THEN 0 ELSE 1]
  <2> DEFINE n == IF proc["runner"].signal = 0 THEN 0 ELSE 1
             next == [proc["runner"] EXCEPT !.signal = n]
  <2>1. n \in 0..MaxSignals
    BY <1>1, <1>4 DEF ProcState
  <2>2. /\ next \in ProcState /\ next.signal = n
        /\ next.pc = proc["runner"].pc /\ next.synced = proc["runner"].synced
        /\ next.resume = proc["runner"].resume
        /\ next.status = proc["runner"].status
    BY <1>4, <2>1 DEF ProcState
  <2>3. proc' = [proc EXCEPT !["runner"] = next]
    BY <1>6
  <2> HIDE DEF next
  <2>4. /\ proc' \in [Procs -> ProcState] /\ proc'["runner"] = next
        /\ proc'["api"] = proc["api"]
    BY <1>4, <2>2, <2>3
  <2> QED BY <1>3, <2>2, <2>4
<1> QED BY <1>5, <1>6 DEF PruneSignals

\* The sweep keeps the types of the state and the shape of every graph.
LEMMA BaseSwept ==
  ASSUME RetentionTypeOK, BaseInv,
         Aside \/ ArchiveRuns \/ DeleteThread \/ PruneSignals \/ PruneTasks
  PROVE  BaseInv' /\ RetentionTypeOK'
<1>0. /\ TypeOK /\ "api" \in Procs /\ "runner" \in Procs
      /\ task \in [TaskKeys -> TaskStatus] /\ "finalize" \in TaskKeys
  BY KeysAre DEF RetentionTypeOK, TypeOK, TaskStatus, Procs
<1>1. CASE Aside
  <2>1. BaseInv'
    BY <1>1
       DEF Aside, BaseInv, TypeOK, GraphsShaped, Shape, Quiet, Waits,
           FinalizeKnown, PayloadKnown, ApiShape, RunnerShape, Active, vars,
           queue, tables, graph, rest
  <2>2. RetentionTypeOK'
    BY <1>1, <2>1
       DEF Aside, AWeekPasses, ArchiveRefused, SweeperDies, RetentionTypeOK,
           BaseInv
  <2> QED BY <2>1, <2>2
<1>2. CASE ArchiveRuns
  <2>1. /\ run' \in {run, NoRun}
        /\ UNCHANGED <<queue, signals, graph, rest, recorded>>
    BY <1>2 DEF ArchiveRuns
  <2>2. NoRun \in [status : Statuses \cup {"absent"}, wakeup : Wakeups,
                   lease : {"none", "live", "expired"}]
    BY DEF NoRun, Wakeups
  <2>3. TypeOK'
    BY <1>0, <2>1, <2>2 DEF TypeOK, queue, graph, rest
  <2>4. BaseInv'
    BY <2>1, <2>3
       DEF BaseInv, GraphsShaped, Shape, Quiet, Waits, FinalizeKnown,
           PayloadKnown, ApiShape, RunnerShape, Active, queue, graph, rest
  <2>5. archive' \in Terminal \cup {"none"} /\ old' \subseteq old
        /\ sweep' \in {"deleting", "signals"} /\ UNCHANGED recorded
    BY <1>2
       DEF ArchiveRuns, ArchivedStatus, Archivable, AfterArchive,
           RetentionTypeOK
  <2> QED BY <2>3, <2>4, <2>5 DEF RetentionTypeOK
<1>3. CASE DeleteThread
  <2>1. /\ cp' = NoGraph /\ sweep' = "signals"
        /\ UNCHANGED <<queue, tables, deadline, proc, mem, rest, archive, old,
                       recorded>>
    BY <1>3 DEF DeleteThread
  <2>2. NoGraph \in GraphState /\ Shape(NoGraph) /\ FinalizeKnown(NoGraph)
    BY DEF NoGraph, GraphState, Wakeups, Shape, Quiet, FinalizeKnown
  <2>3. TypeOK'
    BY <1>0, <2>1, <2>2 DEF TypeOK, queue, tables, rest
  <2>4. GraphsShaped'
    BY <2>1, <2>2
       DEF BaseInv, GraphsShaped, Shape, Quiet, Waits, FinalizeKnown, queue
  <2>5. BaseInv'
    BY <2>1, <2>3, <2>4
       DEF BaseInv, PayloadKnown, ApiShape, RunnerShape, Active, queue
  <2> QED BY <2>1, <2>3, <2>5 DEF RetentionTypeOK
<1>4. CASE PruneSignals
  <2>1. /\ UNCHANGED <<queue, run, deadline, cp, mem, rest, archive, recorded>>
        /\ old' \subseteq old /\ sweep' = "tasks"
    BY <1>4 DEF PruneSignals
  <2>2. TypeOK'
    BY <1>0, <1>4, <2>1, SignalsPruned
       DEF TypeOK, Signal, ProcState, queue, rest
  <2>3. GraphsShaped' /\ PayloadKnown'
    BY <2>1
       DEF BaseInv, GraphsShaped, Shape, Quiet, Waits, FinalizeKnown,
           PayloadKnown, queue
  <2>4. ApiShape' /\ RunnerShape'
    BY <1>0, <1>4, <2>1, SignalsPruned DEF BaseInv, ApiShape, RunnerShape, Active
  <2> QED BY <2>1, <2>2, <2>3, <2>4 DEF BaseInv, RetentionTypeOK
<1>5. CASE PruneTasks
  <2>1. /\ task' = [k \in TaskKeys |->
                      IF Prunable(k) THEN "absent" ELSE task[k]]
        /\ UNCHANGED <<answer, payload, owed, tables, graph, rest, archive,
                       recorded>>
        /\ old' \subseteq old /\ sweep' = "idle"
    BY <1>5 DEF PruneTasks
  <2>2. task' \in [TaskKeys -> TaskStatus]
        /\ \A k \in TaskKeys : task'[k] \in {"absent", task[k]}
    BY <1>0, <2>1 DEF TaskStatus
  <2>3. TypeOK'
    BY <1>0, <2>1, <2>2 DEF TypeOK, TaskStatus, tables, graph, rest
  <2>4. BaseInv'
    BY <1>0, <2>1, <2>2, <2>3
       DEF BaseInv, GraphsShaped, Shape, Quiet, Waits, FinalizeKnown,
           PayloadKnown, ApiShape, RunnerShape, Active, graph
  <2> QED BY <2>1, <2>3, <2>4 DEF RetentionTypeOK
<1> QED BY <1>1, <1>2, <1>3, <1>4, <1>5

-----------------------------------------------------------------------------
(* Who moves which graph state *)

\* Nothing happens to a process.
Still(p) == proc'[p] = proc[p] /\ mem'[p] = mem[p]

\* The runner finishes a superstep ...
RunnerMoved(g) == /\ Moves("runner", g) /\ mem'["runner"] = g
                  /\ cp' = IF proc'["runner"].synced THEN g ELSE cp
                  /\ Still("api")

\* ... or looks up a value to resume with ...
RunnerLooked == RunnerResumes /\ cp' = cp /\ Still("api")

\* ... or does not hold a graph state (any more), and has perhaps saved one.
RunnerRested == /\ LET next == proc'["runner"] IN
                   \/ next.pc = "idle"
                   \/ Claim /\ next.pc = "claimed" /\ next.status = run.status
                   \/ /\ Look /\ next.pc = "releasing"
                      /\ next.status = proc["runner"].status
                /\ cp' = cp \/ (SaveRun /\ cp' = Flushed("runner"))
                /\ Still("api")

\* create_ticket begins, finishes a superstep ...
RequestCame == /\ CreateTicket
               /\ proc'["api"].pc = "invoking"
               /\ cp' = IF proc'["api"].synced THEN StartGraph ELSE cp
               /\ Still("runner")

RequestMoved(g) == /\ Moves("api", g) /\ mem'["api"] = g
                   /\ cp' = IF proc'["api"].synced THEN g ELSE cp
                   /\ Still("runner")

\* ... and ends.
RequestEnded == /\ proc'["api"].pc = "done" /\ proc["api"].pc # "done"
                /\ \/ CreateRun /\ cp' = Flushed("api")
                   \/ Crash("api") /\ cp' = cp
                /\ Still("runner")

\* There is nobody else who touches the graph.
LEMMA GraphSteps ==
  ASSUME BaseInv, [Next]_vars
  PROVE  \/ \E g \in GraphState : RunnerMoved(g) \/ RequestMoved(g)
         \/ RunnerLooked \/ RunnerRested \/ RequestCame \/ RequestEnded
         \/ cp' = cp /\ \A p \in Procs : Still(p)
<1>0. /\ TypeOK /\ "api" \in Procs /\ "runner" \in Procs
      /\ Procs = {"api", "runner"}
      /\ \A p \in Procs : \A g :
            /\ [mem EXCEPT ![p] = g][p] = g
            /\ \A q \in Procs \ {p} : [mem EXCEPT ![p] = g][q] = mem[q]
  BY DEF BaseInv, TypeOK, Procs
<1>1. ASSUME NEW p \in Procs, Superstep(p), ~Raises(p)
      PROVE  \E g \in GraphState : RunnerMoved(g) \/ RequestMoved(g)
  <2>1. PICK g \in GraphState : Moves(p, g)
    BY <1>0, <1>1, Supersteps, ShapeAwaitsDraft DEF Moves
  <2>2. /\ mem' = [mem EXCEPT ![p] = g]
        /\ cp' = IF proc'[p].synced THEN g ELSE cp
        /\ \A q \in Procs \ {p} : proc'[q] = proc[q]
    BY <2>1 DEF Moves, Stores
  <2>3. mem'[p] = g /\ \A q \in Procs \ {p} : Still(q)
    BY <1>0, <2>2 DEF Still
  <2>4. CASE p = "runner"
    BY <1>0, <2>1, <2>2, <2>3, <2>4 DEF RunnerMoved
  <2>5. CASE p = "api"
    BY <1>0, <2>1, <2>2, <2>3, <2>5 DEF RequestMoved
  <2> QED BY <1>0, <2>4, <2>5
<1>2. ASSUME NEW p \in Procs, Raises(p)
      PROVE  RunnerRested
  <2>1. p = "runner"
    BY <1>0, <1>2 DEF Raises, BaseInv, ApiShape
  <2>2. /\ Becomes(p, "idle", "none", 0) /\ mem' = [mem EXCEPT ![p] = NoGraph]
        /\ cp' = cp
    BY <1>0, <1>2, EndedProcess DEF Raises, Raise
  <2> QED BY <1>0, <2>1, <2>2 DEF Becomes, RunnerRested, Still
<1>3. CASE CreateTicket
  BY <1>0, <1>3, RequestArrives DEF Becomes, RequestCame, Still, StartGraph
<1>4. CASE CreateRun
  <2>1. Becomes("api", "done", "none", 0)
    BY <1>0, <1>4, EndedProcess
  <2>2. /\ cp' = Flushed("api") /\ mem' = [mem EXCEPT !["api"] = NoGraph]
        /\ proc["api"].pc = "returning"
    BY <1>4 DEF CreateRun
  <2> QED BY <1>0, <1>4, <2>1, <2>2 DEF Becomes, RequestEnded, Still
<1>5. ASSUME NEW p \in Procs, Crash(p)
      PROVE  RunnerRested \/ RequestEnded
  <2>1. /\ Becomes(p, IF p = "api" THEN "done" ELSE "idle", "none", 0)
        /\ mem' = [mem EXCEPT ![p] = NoGraph] /\ cp' = cp
        /\ proc[p].pc # "done"
    BY <1>0, <1>5, EndedProcess DEF Crash
  <2> QED BY <1>0, <1>5, <2>1 DEF Becomes, RunnerRested, RequestEnded, Still
<1>6. CASE Claim
  BY <1>0, <1>6, ClaimedProcess DEF Becomes, RunnerRested, Claim, Still
<1>7. CASE Release \/ SaveRun
  <2>1. Becomes("runner", "idle", "none", 0)
    BY <1>0, <1>7, EndedProcess
  <2>2. /\ mem'["api"] = mem["api"]
        /\ cp' = cp \/ (SaveRun /\ cp' = Flushed("runner"))
    BY <1>0, <1>7 DEF Release, SaveRun
  <2> QED BY <1>0, <2>1, <2>2 DEF Becomes, RunnerRested, Still
<1>8. CASE Look
  <2>1. cp' = cp
    BY <1>8 DEF Look
  <2>2. CASE /\ cp.parked > 0 /\ ResumeValue # "none"
             /\ mem' = [mem EXCEPT !["runner"] = cp]
             /\ Becomes("runner", "invoking", ResumeValue,
                        IF ResumeValue \in {"approved", "rejected"}
                          THEN CHOOSE i \in Unconsumed : TRUE ELSE 0)
    BY <1>0, <1>8, <2>1, <2>2
       DEF Becomes, RunnerLooked, RunnerResumes, Still
  <2>3. CASE /\ UNCHANGED mem
             /\ Becomes("runner", "releasing", proc["runner"].resume,
                        proc["runner"].signal)
             /\ proc'["runner"].status = proc["runner"].status
    BY <1>0, <1>8, <2>1, <2>3 DEF Becomes, RunnerRested, Still
  <2> QED BY <1>0, <1>8, <2>2, <2>3, LookedUp
<1>9. CASE TableStep \/ UNCHANGED vars
  BY <1>0, <1>9, TableSteps DEF Still, vars, graph
<1> QED BY <1>1, <1>2, <1>3, <1>4, <1>5, <1>6, <1>7, <1>8, <1>9
        DEF Next, TableStep

\* The payload is written at execute, by the runner.
LEMMA PayloadSteps ==
  ASSUME BaseInv, [Next]_vars
  PROVE  /\ payload.status # "none" => payload'.status # "none"
         /\ \/ UNCHANGED payload
            \/ /\ Superstep("runner") /\ EnqueueFinalize("runner")
               /\ mem["runner"].node = "execute"
               /\ proc["runner"].pc = "invoking"
<1>0. TypeOK /\ \A p \in Procs : AwaitsDraft(p)
  BY ShapeAwaitsDraft DEF BaseInv
<1>1. ASSUME NEW p \in Procs, Superstep(p), payload' # payload
      PROVE  /\ p = "runner" /\ EnqueueFinalize(p)
             /\ mem[p].node = "execute" /\ proc[p].pc = "invoking"
  <2>1. /\ EnqueueFinalize(p) /\ mem[p].node = "execute"
        /\ proc[p].pc = "invoking"
    BY <1>0, <1>1, Supersteps DEF Raises, DecidingMove
  <2>2. p # "api"
    BY <2>1 DEF BaseInv, ApiShape, Early
  <2> QED BY <2>1, <2>2 DEF Procs
<1>2. (\A p \in Procs : ~Superstep(p)) => UNCHANGED payload
  BY <1>0, TableSteps
     DEF Next, TableStep, CreateTicket, CreateRun, Claim, Look, Release,
         SaveRun, Crash, vars, queue
<1>3. ASSUME NEW p \in Procs, Superstep(p), payload.status # "none"
      PROVE  payload'.status # "none"
  BY <1>3, MoveGrows
<1> QED BY <1>1, <1>2, <1>3

\* How a run row gets another status.
LEMMA StatusSteps ==
  ASSUME BaseInv, [Next]_vars
  PROVE  \/ run'.status = run.status
         \/ SaveRun /\ run'.status = mem["runner"].status
         \/ Release /\ run'.status = proc["runner"].status
         \/ CreateRun /\ run.status = "absent" /\ run'.status = "classifying"
         \/ /\ ReconcileInsert
            /\ run.status = "absent" /\ run'.status = seen.status
<1>0. TypeOK /\ \A p \in Procs : AwaitsDraft(p)
  BY ShapeAwaitsDraft DEF BaseInv
<1>1. ASSUME NEW p \in Procs, Superstep(p)
      PROVE  UNCHANGED run
    BY <1>0, <1>1, Supersteps DEF Stores, Raises, tables
<1>2. TableStep => \/ run'.status = run.status
                   \/ /\ ReconcileInsert
                      /\ run.status = "absent" /\ run'.status = seen.status
  BY <1>0, RowSteps
<1>3. CASE CreateRun
  <2>1. mem["api"].status = "classifying"
    BY <1>3 DEF CreateRun, BaseInv, ApiShape, GraphsShaped, Shape, Procs
  <2> QED BY <1>3, <2>1 DEF CreateRun, InsertedRun
<1>4. SaveRun => run'.status = mem["runner"].status
  BY DEF SaveRun
<1>5. Release => run'.status = proc["runner"].status
  BY DEF Release
<1>6. Claim => run'.status = run.status
  BY <1>0 DEF Claim, TypeOK
<1> QED BY <1>1, <1>2, <1>3, <1>4, <1>5, <1>6
        DEF Next, TableStep, vars, tables, CreateTicket, Look, Crash

\* A crash is counted.
LEMMA CrashesCount ==
  ASSUME BaseInv, [Next]_vars, faults'.crashes = 0
  PROVE  faults.crashes = 0 /\ ~\E p \in Procs : Crash(p)
<1>0. /\ TypeOK /\ faults.crashes \in Nat /\ MaxCrashes \in Nat
      /\ \A p \in Procs : AwaitsDraft(p)
  BY ShapeAwaitsDraft, RunAssumption DEF BaseInv, TypeOK
<1>1. \A p \in Procs : ~Crash(p)
  BY <1>0 DEF Crash, TypeOK
<1>2. ASSUME NEW p \in Procs, Superstep(p)
      PROVE  UNCHANGED faults
    BY <1>0, <1>2, Supersteps DEF Stores, Raises, rest
<1>3. \A k \in TaskKeys : WorkerDies(k) => faults'.crashes = faults.crashes
  BY <1>0 DEF WorkerDies, TypeOK
<1>4. faults'.crashes = faults.crashes
  BY <1>1, <1>2, <1>3
     DEF Next, CreateTicket, CreateRun, Claim, Look, Release, SaveRun,
         SubmitApproval, RunLeaseExpires, ReclaimRuns, ReconcileRead,
         ReconcileInsert, Lease, Requeue, Settle, CompleteTask, FailTask,
         WakeRun, DeadlinePasses, vars, rest
<1> QED BY <1>1, <1>4

-----------------------------------------------------------------------------
(* The order of the workflow beside the sweep *)

\* What the runner works on starts from the checkpoint, unless the thread was
\* deleted meanwhile (RunnerAhead of TicketLifeProofs, without a checkpoint).
RunnerNear ==
    Active =>
        /\ AtOrBefore(cp, mem["runner"])
        /\ proc["runner"].synced \/ proc["runner"].resume # "none" =>
               cp.node = "none" \/ cp = mem["runner"]

\* As long as create_ticket has something to write, nobody else works on the
\* graph and nothing is old enough for the sweep; what it leaves behind is there
\* until the thread is deleted.
ApiFirst ==
    LET api == proc["api"].pc IN
    /\ Writing => ~Active /\ cp.parked = 0 /\ cp.node \in Early
    /\ api = "idle" => ~Active /\ cp.node = "none"
    /\ Writing \/ api = "idle" => payload.status = "none"
    /\ api = "returning" => Writing \/ cp.node # "none"
    /\ old # {} \/ sweep # "idle" \/ archive # "none" => api = "done"
    /\ api = "done" /\ faults.crashes = 0 /\ cp.node = "none" =>
           archive # "none"

\* A ticket that was never archived has a row before the graph goes on.
RowFirst ==
    /\ run.status = "absent" /\ archive = "none" =>
           cp.node \in Early /\ proc["runner"].pc = "idle"
    /\ proc["runner"].pc \in {"claimed", "releasing"} =>
           proc["runner"].status # "absent"

\* The order beside the sweep survives every step of the workflow.
LEMMA NearKept ==
  ASSUME BaseInv, RunnerNear, ApiFirst, [Next]_vars
  PROVE  RunnerNear'
<1>0. /\ TypeOK /\ BaseInv' /\ "runner" \in Procs
      /\ cp \in GraphState /\ mem["runner"] \in GraphState
      /\ ~Active => mem["runner"].node = "none"
  BY BaseInductive DEF BaseInv, TypeOK, RunnerShape, Procs
<1>1. ASSUME NEW g \in GraphState, RunnerMoved(g)
      PROVE  RunnerNear'
  <2>1. /\ Moves("runner", g) /\ mem'["runner"] = g
        /\ proc'["runner"].resume = "none"
        /\ cp' = IF proc'["runner"].synced THEN g ELSE cp
    BY <1>1 DEF RunnerMoved, Moves, Stores
  <2>2. Active /\ AtOrBefore(mem["runner"], g)
    BY <1>0, <2>1, MoveForward, Supersteps, ShapeAwaitsDraft DEF Moves, Active
  <2>3. AtOrBefore(cp, g) /\ AtOrBefore(g, g)
    BY <1>0, <2>2, OrderFacts DEF RunnerNear
  <2> QED BY <2>1, <2>3 DEF RunnerNear
<1>2. CASE RunnerLooked
  <2>1. mem'["runner"] = cp' /\ cp' \in GraphState
    BY <1>0, <1>2 DEF RunnerLooked, RunnerResumes
  <2> QED BY <2>1, OrderFacts DEF RunnerNear
<1>3. CASE RunnerRested
  BY <1>3 DEF RunnerRested, RunnerNear, Active
<1>4. ASSUME \/ \E g \in GraphState : RequestMoved(g)
             \/ RequestCame \/ RequestEnded \/ (cp' = cp /\ Still("runner"))
      PROVE  RunnerNear'
  <2>1. proc'["runner"] = proc["runner"] /\ mem'["runner"] = mem["runner"]
    BY <1>4 DEF RequestMoved, RequestCame, RequestEnded, Still
  <2>2. Active => cp' = cp
    <3>1. ASSUME NEW g \in GraphState, RequestMoved(g)
          PROVE  ~Active
      <4>1. proc["api"].pc = "invoking" /\ "api" \in Procs
        BY <1>0, <3>1, Supersteps, ShapeAwaitsDraft
           DEF RequestMoved, Moves, Procs
      <4> QED BY <4>1 DEF ApiFirst, Writing
    <3>2. RequestCame => ~Active
      BY DEF RequestCame, CreateTicket, ApiFirst
    <3>3. RequestEnded /\ Active => cp' = cp
      BY DEF RequestEnded, CreateRun, Flushed, ApiFirst, Writing
    <3> QED BY <1>4, <3>1, <3>2, <3>3
  <2> QED BY <2>1, <2>2 DEF RunnerNear, Active
<1> QED BY <1>0, <1>1, <1>2, <1>3, <1>4, GraphSteps

\* So does the priority of create_ticket ...
LEMMA FirstKept ==
  ASSUME BaseInv, ApiFirst, WorkflowStep
  PROVE  ApiFirst'
<1>0. /\ TypeOK /\ BaseInv' /\ "runner" \in Procs /\ "api" \in Procs
      /\ Shape(cp) /\ Shape(mem["runner"]) /\ [Next]_vars
      /\ ApiShape /\ ApiShape' /\ RunnerShape /\ RunnerShape'
      /\ old' \subseteq old /\ UNCHANGED <<archive, sweep>>
  BY BaseInductive
     DEF BaseInv, TypeOK, GraphsShaped, WorkflowStep, Procs
<1>1. ~Active => UNCHANGED payload
  BY <1>0, PayloadSteps DEF Active
<1>2. faults'.crashes = 0 =>
         faults.crashes = 0 /\ ~\E p \in Procs : Crash(p)
  BY <1>0, CrashesCount
<1>3. ASSUME Still("api"), Active' => ~Writing /\ proc["api"].pc # "idle",
             cp' # cp => cp'.node # "none" /\ Active
      PROVE  ApiFirst'
  <2>1. proc'["api"] = proc["api"]
    BY <1>3 DEF Still
  <2>2. Writing' = Writing
    BY <2>1 DEF Writing
  <2>3. Writing \/ proc["api"].pc = "idle" =>
           ~Active /\ cp' = cp /\ UNCHANGED payload /\ ~Active'
    BY <1>1, <1>3 DEF ApiFirst
  <2>4. cp'.node = "none" => cp.node = "none"
    BY <1>3
  <2> QED BY <1>0, <1>2, <2>1, <2>2, <2>3, <2>4 DEF ApiFirst
<1>4. ASSUME NEW g \in GraphState, RunnerMoved(g)
      PROVE  ApiFirst'
  <2>1. Active /\ g.node # "none" /\ cp' \in {cp, g} /\ Still("api")
    <3>1. Active
      BY <1>0, <1>4, Supersteps, ShapeAwaitsDraft
         DEF RunnerMoved, Moves, Active
    <3>2. Active' /\ mem'["runner"] = g
      BY <1>4 DEF RunnerMoved, Moves, Stores, Active
    <3> QED BY <1>0, <1>4, <3>1, <3>2 DEF RunnerMoved, RunnerShape
  <2> QED BY <1>3, <2>1 DEF ApiFirst
<1>5. CASE RunnerLooked
  <2>1. cp.parked > 0 /\ cp' = cp /\ Still("api") /\ ~(0 > 0)
    BY <1>5 DEF RunnerLooked, RunnerResumes
  <2>2. ~Writing /\ proc["api"].pc # "idle"
    BY <1>0, <2>1 DEF ApiFirst, Shape, Quiet
  <2> QED BY <1>3, <2>1, <2>2
<1>6. CASE RunnerRested
  <2>1. ~Active' /\ Still("api")
    BY <1>6 DEF RunnerRested, Active
  <2>2. cp' # cp => cp'.node # "none" /\ Active
    BY <1>0, <1>6 DEF RunnerRested, SaveRun, Flushed, Active, RunnerShape
  <2> QED BY <1>3, <2>1, <2>2
<1>7. CASE cp' = cp /\ \A p \in Procs : Still(p)
  <2>1. Active' = Active
    BY <1>0, <1>7 DEF Still, Active
  <2> QED BY <1>0, <1>3, <1>7, <2>1 DEF ApiFirst
<1>8. ASSUME NEW g \in GraphState, RequestMoved(g)
      PROVE  ApiFirst'
  <2>1. /\ Moves("api", g) /\ mem'["api"] = g /\ Still("runner")
        /\ cp' = IF proc'["api"].synced THEN g ELSE cp
        /\ proc'["api"].pc \in {"invoking", "returning"}
        /\ proc["api"].pc = "invoking"
    BY <1>0, <1>8, Supersteps, ShapeAwaitsDraft DEF RequestMoved, Moves, Stores
  <2>2. /\ ~Active /\ ~Active' /\ payload.status = "none"
        /\ payload' = payload
        /\ cp.parked = 0 /\ cp.node \in Early
        /\ old = {} /\ sweep = "idle" /\ archive = "none"
    BY <1>1, <2>1 DEF ApiFirst, Writing, Still, Active
  <2>3. /\ proc'["api"].pc = "invoking" => g.node \in Early /\ g.parked = 0
        /\ proc'["api"].pc = "returning" => g.node # "none"
    BY <1>0, <2>1 DEF ApiShape
  <2> QED BY <1>0, <2>1, <2>2, <2>3 DEF ApiFirst, Writing
<1>9. CASE RequestCame
  <2>1. /\ proc["api"].pc = "idle" /\ proc'["api"].pc = "invoking"
        /\ cp' \in {StartGraph, cp} /\ Still("runner")
    BY <1>9 DEF RequestCame, CreateTicket
  <2>2. /\ ~Active /\ ~Active' /\ payload.status = "none"
        /\ payload' = payload /\ cp.node = "none"
        /\ old = {} /\ sweep = "idle" /\ archive = "none"
    BY <1>1, <2>1 DEF ApiFirst, Still, Active
  <2>3. cp'.parked = 0 /\ cp'.node \in Early
    BY <1>0, <2>1, <2>2 DEF StartGraph, NoGraph, Early, Shape, Quiet
  <2> QED BY <1>0, <2>1, <2>2, <2>3 DEF ApiFirst, Writing
<1>10. CASE RequestEnded
  <2>1. proc'["api"].pc = "done" /\ ~Writing'
    BY <1>10 DEF RequestEnded, Writing
  <2>2. CreateRun /\ cp' = Flushed("api") => cp'.node # "none"
    BY <1>0 DEF CreateRun, Flushed, ApiFirst, Writing, ApiShape
  <2>3. faults'.crashes = 0 => cp'.node # "none"
    BY <1>0, <1>2, <1>10, <2>2 DEF RequestEnded
  <2> QED BY <2>1, <2>3 DEF ApiFirst
<1> QED BY <1>0, <1>4, <1>5, <1>6, <1>7, <1>8, <1>9, <1>10, GraphSteps

\* ... and that of the first row.
LEMMA RowKept ==
  ASSUME BaseInv, RowFirst, WorkflowStep
  PROVE  RowFirst'
<1>0. /\ TypeOK /\ BaseInv' /\ "runner" \in Procs /\ "api" \in Procs
      /\ [Next]_vars /\ ApiShape' /\ UNCHANGED archive
      /\ mem["runner"] \in GraphState
  BY BaseInductive DEF BaseInv, TypeOK, WorkflowStep, Procs
<1>1. ASSUME run'.status = "absent"
      PROVE  run.status = "absent" /\ ~Claim /\ ~SaveRun /\ ~CreateRun
  <2>1. ~SaveRun /\ ~Release
    BY <1>0, <1>1
       DEF SaveRun, Release, RowFirst, GraphState, Statuses, Terminal
  <2>2. run.status = "absent"
    BY <1>0, <1>1, <2>1, StatusSteps
  <2>3. ~CreateRun
    <3>1. CreateRun => mem["api"].status = "classifying"
      BY <1>0 DEF CreateRun, BaseInv, ApiShape, GraphsShaped, Shape
    <3> QED BY <1>1, <2>2, <3>1 DEF CreateRun, InsertedRun
  <2> QED BY <2>1, <2>2, <2>3 DEF Claim
<1>2. ASSUME run'.status = "absent", archive = "none"
      PROVE  cp'.node \in Early /\ proc'["runner"].pc = "idle"
  <2>1. /\ cp.node \in Early /\ proc["runner"].pc = "idle"
        /\ ~Claim /\ ~SaveRun /\ ~CreateRun
    BY <1>1, <1>2 DEF RowFirst
  <2>2. ASSUME NEW g \in GraphState, RequestMoved(g)
        PROVE  cp'.node \in Early /\ proc'["runner"].pc = "idle"
    <3>1. /\ proc'["api"].pc \in {"invoking", "returning"}
          /\ mem'["api"] = g /\ cp' \in {cp, g} /\ Still("runner")
      BY <2>2 DEF RequestMoved, Moves, Stores
    <3> QED BY <1>0, <2>1, <3>1 DEF ApiShape, Early, Still
  <2>3. ASSUME NEW g \in GraphState, RunnerMoved(g)
        PROVE  FALSE
    BY <1>0, <2>1, <2>3, Supersteps, ShapeAwaitsDraft DEF RunnerMoved, Moves
  <2>4. RequestCame => cp'.node \in Early /\ proc'["runner"].pc = "idle"
    BY <2>1 DEF RequestCame, StartGraph, NoGraph, Early, Still
  <2>5. RequestEnded \/ (cp' = cp /\ \A p \in Procs : Still(p)) =>
           cp'.node \in Early /\ proc'["runner"].pc = "idle"
    BY <1>0, <2>1 DEF RequestEnded, Still
  <2>6. RunnerLooked \/ RunnerRested =>
           cp'.node \in Early /\ proc'["runner"].pc = "idle"
    BY <2>1 DEF RunnerLooked, RunnerResumes, RunnerRested, Look
  <2> QED BY <1>0, <2>2, <2>3, <2>4, <2>5, <2>6, GraphSteps
<1>3. ASSUME proc'["runner"].pc \in {"claimed", "releasing"}
      PROVE  proc'["runner"].status # "absent"
  <2>1. CASE RunnerRested
    BY <1>3, <2>1 DEF RunnerRested, Claim, Look, RowFirst
  <2>2. CASE Still("runner")
    BY <1>3, <2>2 DEF Still, RowFirst
  <2>3. ASSUME NEW g \in GraphState, RunnerMoved(g)
        PROVE  FALSE
    BY <1>3, <2>3 DEF RunnerMoved, Moves, Stores
  <2>4. ~RunnerLooked
    BY <1>3 DEF RunnerLooked, RunnerResumes
  <2> QED BY <1>0, <2>1, <2>2, <2>3, <2>4, GraphSteps
          DEF RequestMoved, RequestCame, RequestEnded
<1> QED BY <1>0, <1>2, <1>3 DEF RowFirst

\* Nothing is swept while create_ticket or a thread that is needed is there.
LEMMA OrderSwept ==
  ASSUME RetentionTypeOK, BaseInv, RunnerNear, ApiFirst, RowFirst,
         sweep = "deleting" => archive # "none",
         Aside \/ ArchiveRuns \/ DeleteThread \/ PruneSignals \/ PruneTasks
  PROVE  RunnerNear' /\ ApiFirst' /\ RowFirst'
<1>0. /\ "runner" \in Procs /\ mem["runner"] \in GraphState /\ RunnerShape
      /\ TypeOK
  BY DEF BaseInv, TypeOK, Procs
<1>1. /\ proc'["api"] = proc["api"]
      /\ proc'["runner"].pc = proc["runner"].pc
      /\ proc'["runner"].synced = proc["runner"].synced
      /\ proc'["runner"].resume = proc["runner"].resume
      /\ proc'["runner"].status = proc["runner"].status
      /\ mem' = mem /\ UNCHANGED <<payload, faults>>
      /\ cp' = cp \/ DeleteThread
  <2>1. CASE Aside
    BY <2>1 DEF Aside, vars, queue, graph, rest
  <2>2. CASE ArchiveRuns \/ DeleteThread \/ PruneTasks
    BY <2>2 DEF ArchiveRuns, DeleteThread, PruneTasks, queue, graph, rest
  <2>3. CASE PruneSignals
    BY <1>0, <2>3, SignalsPruned DEF PruneSignals, queue, rest
  <2> QED BY <2>1, <2>2, <2>3
<1>2. Active' = Active /\ Writing' = Writing
  BY <1>1 DEF Active, Writing
<1>3. DeleteThread => /\ cp' = NoGraph /\ NoGraph.node = "none"
                      /\ NoGraph.parked = 0 /\ NoGraph.status = "none"
                      /\ archive' # "none" /\ proc["api"].pc = "done"
  BY DEF DeleteThread, NoGraph, ApiFirst
<1>4. RunnerNear'
  <2>1. CASE cp' = cp
    BY <1>1, <1>2, <2>1 DEF RunnerNear
  <2>2. CASE DeleteThread
    <3>1. Active => AtOrBefore(cp', mem["runner"])
      <4>1. Active => mem["runner"].node \notin {"none", "start"}
        BY <1>0 DEF RunnerShape
      <4> QED BY <1>0, <1>3, <2>2, <4>1, OrderFacts
              DEF AtOrBefore, StageOf, Pos, GraphState, Nodes, Statuses,
                  Terminal
    <3> QED BY <1>1, <1>2, <1>3, <2>2, <3>1 DEF RunnerNear
  <2> QED BY <1>1, <2>1, <2>2
<1>5. old' # {} \/ sweep' # "idle" \/ archive' # "none" =>
         proc["api"].pc = "done"
  BY DEF ApiFirst, Aside, AWeekPasses, ArchiveRefused, SweeperDies, ArchiveRuns,
         DeleteThread, PruneSignals, PruneTasks, ArchivedStatus, Archivable
<1>6. archive # "none" => archive' # "none"
  BY DEF Aside, AWeekPasses, ArchiveRefused, SweeperDies, ArchiveRuns,
         DeleteThread, PruneSignals, PruneTasks, ArchivedStatus, Archivable,
         Terminal
<1>7. ApiFirst'
  <2>1. CASE cp' = cp
    BY <1>1, <1>2, <1>5, <1>6, <2>1 DEF ApiFirst
  <2>2. CASE DeleteThread
    BY <1>1, <1>2, <1>3, <1>5, <2>2 DEF ApiFirst, Writing
  <2> QED BY <1>1, <2>1, <2>2
<1>8. RowFirst'
  <2>1. run'.status = run.status \/ archive' # "none"
    BY DEF Aside, ArchiveRuns, DeleteThread, PruneSignals, PruneTasks,
           ArchivedStatus, Archivable, Terminal, vars, tables
  <2>2. DeleteThread => archive' # "none"
    BY <1>3
  <2> QED BY <1>1, <1>6, <2>1, <2>2 DEF RowFirst
<1> QED BY <1>4, <1>7, <1>8

-----------------------------------------------------------------------------
(* What is recorded and shown *)

\* The graph ends when the result of the finalize task is there.
EndRecorded(g) == g.node = "end" => payload.status # "none" /\ recorded

\* The result of the finalize task is recorded before it is done, and is what a
\* graph ends with.
RecordedInv ==
    /\ task["finalize"] = "done" => recorded
    /\ proc["runner"].resume = "result" /\ mem["runner"].node = "execute" =>
           recorded
    /\ EndRecorded(cp) /\ EndRecorded(mem["runner"])

\* create_ticket has written all it had to, and no graph state is left from
\* before execute.
PastGate ==
    /\ ~Writing /\ proc["api"].pc # "idle"
    /\ cp.node \in {"none", "execute", "end"}
    /\ mem["runner"].node \in {"none", "execute", "end"}

\* No graph state is left from before the end.
AtEnd ==
    /\ cp.node \in {"none", "end"}
    /\ mem["runner"].node \in {"none", "end"}

\* What a status says of the ticket whoever shows it.
Shown(st) ==
    /\ st \in Terminal => PastGate /\ payload.status # "none"
    /\ st = "resolved" => AtEnd /\ recorded

\* So it is for the row, for what the runner and the reconciler remember of it,
\* and for the archive.
ShownInv ==
    /\ Shown(run.status) /\ Shown(seen.status) /\ Shown(archive)
    /\ proc["runner"].pc \in {"claimed", "releasing"} =>
           Shown(proc["runner"].status)
    /\ sweep = "deleting" => archive # "none"

\* The records survive every step of the workflow.
LEMMA RecordedKept ==
  ASSUME BaseInv, RecordedInv, WorkflowStep
  PROVE  RecordedInv'
<1>0. /\ TypeOK /\ BaseInv' /\ "runner" \in Procs /\ "api" \in Procs
      /\ [Next]_vars /\ ApiShape /\ Shape(cp) /\ Shape(mem["runner"])
      /\ FinalizeKnown(mem["runner"])
      /\ recorded \/ task'["finalize"] = "done" => recorded'
      /\ payload.status # "none" => payload'.status # "none"
  BY BaseInductive, PayloadSteps
     DEF BaseInv, TypeOK, GraphsShaped, WorkflowStep, Procs
<1> DEFINE Stays(g) == EndRecorded(g) =>
                         (g.node = "end" => payload'.status # "none" /\ recorded')
<1>1. \A g : Stays(g)
  BY <1>0 DEF EndRecorded
<1>2. Stays(cp) /\ Stays(mem["runner"])
  BY <1>1
<1> HIDE DEF Stays
<1>3. ASSUME NEW g \in GraphState, RunnerMoved(g)
      PROVE  RecordedInv'
  <2>1. /\ Moves("runner", g) /\ mem'["runner"] = g /\ cp' \in {cp, g}
        /\ proc'["runner"].resume = "none" /\ proc["runner"].pc = "invoking"
    BY <1>0, <1>3, Supersteps, ShapeAwaitsDraft DEF RunnerMoved, Moves, Stores
  <2>2. g.node = "end" =>
           mem["runner"].node = "execute" /\ proc["runner"].resume = "result"
    BY <1>0, <2>1
       DEF Moves, DraftingMove, DecidingMove, Enters, Parks, AwaitNode,
           AgentStages, NeedsApproval
  <2>3. g.node = "end" => mem["runner"].parked > 0
    BY <1>0, <2>1, <2>2, ResumesParked
  <2>4. g.node = "end" => payload'.status # "none" /\ recorded'
    BY <1>0, <2>2, <2>3 DEF RecordedInv, FinalizeKnown
  <2> QED BY <1>0, <1>2, <2>1, <2>4 DEF RecordedInv, EndRecorded, Stays
<1>4. CASE RunnerLooked
  <2>1. /\ mem'["runner"] = cp /\ cp' = cp /\ cp.parked > 0
        /\ proc'["runner"].resume = ResumeValue
    BY <1>4 DEF RunnerLooked, RunnerResumes
  <2>2. ResumeValue = "result" /\ cp.node = "execute" => recorded
    <3>1. ~(0 > 0) /\ (cp.node = "execute" => cp.awaits = "finalize")
      BY <1>0, <2>1 DEF Shape
    <3>2. ResumeValue = "result" => task[cp.awaits] = "done"
      BY DEF ResumeValue
    <3> QED BY <3>1, <3>2 DEF RecordedInv
  <2> QED BY <1>0, <1>2, <2>1, <2>2 DEF RecordedInv, EndRecorded, Stays
<1>5. CASE RunnerRested
  <2>1. ~Active' /\ cp' \in {cp, mem["runner"]}
    BY <1>5 DEF RunnerRested, Active, Flushed
  <2>2. mem'["runner"].node = "none" /\ proc'["runner"].resume = "none"
    BY <1>0, <2>1 DEF BaseInv, RunnerShape
  <2> QED BY <1>0, <1>2, <2>1, <2>2 DEF RecordedInv, EndRecorded, Stays
<1>6. ASSUME Still("runner"), cp' # cp => cp'.node # "end"
      PROVE  RecordedInv'
  BY <1>0, <1>2, <1>6 DEF RecordedInv, EndRecorded, Stays, Still
<1>7. ASSUME NEW g \in GraphState, RequestMoved(g)
      PROVE  RecordedInv'
  <2>1. /\ proc'["api"].pc \in {"invoking", "returning"}
        /\ mem'["api"] = g /\ cp' \in {cp, g} /\ Still("runner")
    BY <1>7 DEF RequestMoved, Moves, Stores
  <2>2. g.node # "end"
    BY <1>0, <2>1 DEF BaseInv, ApiShape, Early
  <2> QED BY <1>6, <2>1, <2>2
<1>8. CASE RequestCame
  BY <1>6, <1>8 DEF RequestCame, StartGraph, NoGraph
<1>9. CASE RequestEnded
  <2>1. CreateRun /\ cp' = Flushed("api") /\ cp' # cp => cp'.node # "end"
    BY <1>0 DEF CreateRun, Flushed, ApiShape
  <2> QED BY <1>6, <1>9, <2>1 DEF RequestEnded
<1>10. CASE cp' = cp /\ \A p \in Procs : Still(p)
  BY <1>0, <1>6, <1>10
<1> QED BY <1>0, <1>3, <1>4, <1>5, <1>7, <1>8, <1>9, <1>10, GraphSteps

\* A status that was right stays right: whatever goes on with the ticket goes on
\* from execute, or not at all.
LEMMA ShownStays ==
  ASSUME BaseInv, WorkflowStep, NEW st, Shown(st)
  PROVE  Shown(st)'
<1>0. /\ TypeOK /\ BaseInv' /\ "runner" \in Procs /\ "api" \in Procs
      /\ [Next]_vars /\ RunnerShape /\ RunnerShape'
      /\ recorded => recorded'
      /\ payload.status # "none" => payload'.status # "none"
  BY BaseInductive, PayloadSteps DEF BaseInv, WorkflowStep, Procs
<1>1. ASSUME PastGate
      PROVE  PastGate' /\ (AtEnd => AtEnd')
  <2>1. ~Writing /\ proc["api"].pc # "idle"
    BY <1>1 DEF PastGate
  <2>2. ASSUME NEW g \in GraphState, RunnerMoved(g)
        PROVE  PastGate' /\ (AtEnd => AtEnd')
    <3>1. /\ Moves("runner", g) /\ mem'["runner"] = g /\ cp' \in {cp, g}
          /\ proc["runner"].pc = "invoking" /\ Still("api")
      BY <1>0, <2>2, Supersteps, ShapeAwaitsDraft DEF RunnerMoved, Moves
    <3>2. mem["runner"].node = "execute" /\ g.node \in {"execute", "end"}
      BY <1>1, <3>1
         DEF PastGate, Moves, DraftingMove, DecidingMove, Enters, Parks,
             AwaitNode, AgentStages
    <3>3. ~AtEnd
      BY <3>2 DEF AtEnd
    <3> QED BY <1>1, <2>1, <3>1, <3>2, <3>3 DEF PastGate, Writing, Still
  <2>3. CASE RunnerLooked
    <3>1. mem'["runner"] = cp /\ cp' = cp /\ Still("api")
      BY <2>3 DEF RunnerLooked, RunnerResumes
    <3> QED BY <1>1, <2>1, <3>1 DEF PastGate, AtEnd, Writing, Still
  <2>4. CASE RunnerRested
    <3>1. ~Active' /\ cp' \in {cp, mem["runner"]} /\ Still("api")
      BY <2>4 DEF RunnerRested, Active, Flushed
    <3>2. mem'["runner"].node = "none"
      BY <1>0, <3>1 DEF RunnerShape
    <3> QED BY <1>1, <2>1, <3>1, <3>2 DEF PastGate, AtEnd, Writing, Still
  <2>5. ASSUME NEW g \in GraphState, RequestMoved(g)
        PROVE  FALSE
    BY <1>0, <2>1, <2>5, Supersteps, ShapeAwaitsDraft
       DEF RequestMoved, Moves, Writing
  <2>6. ~RequestCame
    BY <2>1 DEF RequestCame, CreateTicket
  <2>7. CASE RequestEnded
    <3>1. proc'["api"].pc = "done" /\ Still("runner") /\ cp' = cp
      BY <2>1, <2>7 DEF RequestEnded, CreateRun, Flushed, Writing
    <3> QED BY <1>1, <2>1, <3>1 DEF PastGate, AtEnd, Writing, Still
  <2>8. CASE cp' = cp /\ \A p \in Procs : Still(p)
    BY <1>0, <1>1, <2>1, <2>8 DEF PastGate, AtEnd, Writing, Still
  <2> QED BY <1>0, <2>2, <2>3, <2>4, <2>5, <2>6, <2>7, <2>8, GraphSteps
<1>2. st = "resolved" => st \in Terminal
  BY DEF Terminal
<1> QED BY <1>0, <1>1, <1>2 DEF Shown

\* What save_run writes is right: it has flushed the checkpoint.
LEMMA SavedShown ==
  ASSUME BaseInv, RunnerNear, ApiFirst, RecordedInv, WorkflowStep, SaveRun,
         NEW st, st = mem["runner"].status
  PROVE  Shown(st)'
<1> DEFINE m == mem["runner"]
<1>1. /\ TypeOK /\ Active /\ Shape(m) /\ FinalizeKnown(m)
      /\ m.parked > 0 \/ m.node = "end"
      /\ m \in GraphState
      /\ proc["runner"].pc = "returning"
  BY DEF SaveRun, BaseInv, RunnerShape, Active, TypeOK, GraphsShaped, Procs
<1>2. /\ cp' = Flushed("runner") /\ mem'["runner"].node = "none"
      /\ proc'["api"] = proc["api"] /\ UNCHANGED payload
      /\ recorded => recorded'
  BY <1>1
     DEF SaveRun, TypeOK, NoGraph, Procs, queue, WorkflowStep
<1>3. cp'.node \in {"none", m.node}
  BY <1>1, <1>2 DEF Flushed, RunnerNear
<1>4. ~Writing' /\ proc'["api"].pc # "idle"
  BY <1>1, <1>2 DEF ApiFirst, Writing
<1>5. ~(0 > 0)
  OBVIOUS
<1>6. CASE m.node = "execute"
  <2>1. m.status # "resolved" /\ payload.status # "none"
    BY <1>1, <1>6 DEF Shape, FinalizeKnown
  <2>2. PastGate'
    BY <1>2, <1>3, <1>4, <1>6 DEF PastGate
  <2> QED BY <1>2, <2>1, <2>2 DEF Shown
<1>7. CASE m.node = "end"
  <2>1. payload.status # "none" /\ recorded
    BY <1>7 DEF RecordedInv, EndRecorded
  <2>2. PastGate' /\ AtEnd'
    BY <1>2, <1>3, <1>4, <1>7 DEF PastGate, AtEnd
  <2> QED BY <1>2, <2>1, <2>2 DEF Shown
<1>8. CASE m.node \notin {"execute", "end"}
  <2>1. m.status \notin Terminal
    BY <1>1, <1>8 DEF Shape, GraphState, Nodes, Terminal
  <2>2. m.status # "resolved"
    BY <2>1 DEF Terminal
  <2> QED BY <2>1, <2>2 DEF Shown
<1> QED BY <1>6, <1>7, <1>8

\* The reconciler reads a checkpoint, or forgets what it has read.
LEMMA SeenSteps ==
  ASSUME BaseInv, [Next]_vars
  PROVE  \/ seen'.status \in {seen.status, "absent"}
         \/ /\ run.status = "absent" /\ cp.node \notin {"none", "start"}
            /\ seen'.status = cp.status
<1>0. TypeOK /\ \A p \in Procs : AwaitsDraft(p)
  BY ShapeAwaitsDraft DEF BaseInv
<1>1. ASSUME NEW p \in Procs, Superstep(p)
      PROVE  UNCHANGED seen
    BY <1>0, <1>1, Supersteps DEF Stores, Raises, rest
<1>2. CASE TableStep
  BY <1>0, <1>2, RowSteps
<1> QED BY <1>1, <1>2
        DEF Next, TableStep, vars, rest, CreateTicket, CreateRun, Claim, Look,
            Release, SaveRun, Crash

\* What is shown stays right in every step of the workflow.
LEMMA ShownKept ==
  ASSUME RetentionTypeOK, BaseInv, RunnerNear, ApiFirst, RowFirst, RecordedInv,
         ShownInv, WorkflowStep
  PROVE  ShownInv'
<1>0. /\ TypeOK /\ [Next]_vars /\ UNCHANGED <<archive, sweep>>
      /\ "runner" \in Procs /\ RunnerShape /\ Shape(cp) /\ cp \in GraphState
      /\ mem["runner"] \in GraphState
  BY DEF BaseInv, TypeOK, GraphsShaped, WorkflowStep, Procs
<1>1. \A st : Shown(st) => Shown(st)'
  BY ShownStays
<1>2. \A st : st \notin Terminal => Shown(st)'
  BY DEF Shown, Terminal
<1>3. \A st : st = run'.status => Shown(st)'
  <2>1. CASE SaveRun /\ run'.status = mem["runner"].status
    BY <2>1, SavedShown
  <2>2. CASE CreateRun /\ run'.status = "classifying"
    BY <1>2, <2>2 DEF Terminal
  <2>3. CASE Release /\ run'.status = proc["runner"].status
    BY <1>1, <2>3 DEF Release, ShownInv
  <2>4. CASE run'.status \in {run.status, seen.status}
    BY <1>1, <2>4 DEF ShownInv
  <2> QED BY <1>0, <2>1, <2>2, <2>3, <2>4, StatusSteps
<1>4. \A st : st = seen'.status => Shown(st)'
  <2>1. CASE seen'.status \in {seen.status, "absent"}
    BY <1>1, <1>2, <2>1 DEF ShownInv, Terminal
  <2>2. CASE /\ run.status = "absent" /\ seen'.status = cp.status
    <3>1. CASE cp.status \notin Terminal
      BY <1>2, <2>2, <3>1
    <3>2. CASE cp.status \in Terminal
      <4>1. /\ cp.node \in {"execute", "end"}
            /\ cp.status = "resolved" => cp.node = "end"
        BY <1>0, <3>2 DEF Shape, GraphState, Nodes, Terminal
      <4>2. archive \in Terminal
        BY <2>2, <4>1 DEF RowFirst, Early, RetentionTypeOK
      <4>3. PastGate /\ payload.status # "none"
        BY <4>2 DEF ShownInv, Shown
      <4>4. cp.node = "end" => AtEnd /\ recorded
        <5>1. Active /\ cp.node = "end" => mem["runner"].node = "end"
          BY <1>0 DEF RunnerNear, AtOrBefore, Pos, GraphState, Nodes
        <5>2. ~Active => mem["runner"].node = "none"
          BY <1>0 DEF RunnerShape
        <5> QED BY <5>1, <5>2 DEF AtEnd, RecordedInv, EndRecorded
      <4>5. Shown(cp.status)
        BY <4>1, <4>3, <4>4 DEF Shown
      <4> QED BY <1>1, <2>2, <4>5
    <3> QED BY <3>1, <3>2
  <2> QED BY <1>0, <2>1, <2>2, SeenSteps
<1>5. proc'["runner"].pc \in {"claimed", "releasing"} =>
         \A st : st = proc'["runner"].status => Shown(st)'
  <2>1. CASE RunnerRested
    BY <1>1, <2>1 DEF RunnerRested, Look, ShownInv
  <2>2. CASE Still("runner")
    BY <1>1, <2>2 DEF Still, ShownInv
  <2>3. ASSUME NEW g \in GraphState, RunnerMoved(g)
        PROVE  proc'["runner"].pc \notin {"claimed", "releasing"}
    BY <2>3 DEF RunnerMoved, Moves, Stores
  <2>4. RunnerLooked => proc'["runner"].pc \notin {"claimed", "releasing"}
    BY DEF RunnerLooked, RunnerResumes
  <2> QED BY <1>0, <2>1, <2>2, <2>3, <2>4, GraphSteps
          DEF RequestMoved, RequestCame, RequestEnded
<1>6. \A st : st = archive' => Shown(st)'
  BY <1>0, <1>1 DEF ShownInv
<1> QED BY <1>0, <1>3, <1>4, <1>5, <1>6 DEF ShownInv

\* What is recorded and shown survives the sweep.
LEMMA ShownSwept ==
  ASSUME RetentionTypeOK, BaseInv, RecordedInv, ShownInv,
         Aside \/ ArchiveRuns \/ DeleteThread \/ PruneSignals \/ PruneTasks
  PROVE  RecordedInv' /\ ShownInv'
<1>0. /\ "runner" \in Procs /\ "finalize" \in TaskKeys /\ TypeOK
  BY KeysAre DEF BaseInv, Procs
<1>1. /\ proc'["api"] = proc["api"]
      /\ proc'["runner"].pc = proc["runner"].pc
      /\ proc'["runner"].synced = proc["runner"].synced
      /\ proc'["runner"].resume = proc["runner"].resume
      /\ proc'["runner"].status = proc["runner"].status
      /\ mem' = mem /\ seen' = seen /\ UNCHANGED <<payload, recorded>>
      /\ cp' \in {cp, NoGraph}
      /\ task'["finalize"] \in {task["finalize"], "absent"}
  <2>1. CASE Aside
    BY <2>1
       DEF Aside, AWeekPasses, ArchiveRefused, SweeperDies, vars, queue, graph,
           rest
  <2>2. CASE ArchiveRuns \/ DeleteThread
    BY <2>2 DEF ArchiveRuns, DeleteThread, queue, graph, rest
  <2>3. CASE PruneSignals
    BY <1>0, <2>3, SignalsPruned DEF PruneSignals, queue, rest
  <2>4. CASE PruneTasks
    BY <1>0, <2>4 DEF PruneTasks, graph, rest
  <2> QED BY <2>1, <2>2, <2>3, <2>4
<1>2. NoGraph.node = "none"
  BY DEF NoGraph
<1>3. RecordedInv'
  BY <1>1, <1>2 DEF RecordedInv, EndRecorded
<1>4. \A st : Shown(st) => Shown(st)'
  BY <1>1, <1>2 DEF Shown, PastGate, AtEnd, Writing
<1>5. run'.status \in {run.status, "absent"}
  BY DEF Aside, ArchiveRuns, NoRun, DeleteThread, PruneSignals, PruneTasks,
         vars, tables
<1>6. archive' \in {archive, run.status}
  BY DEF Aside, AWeekPasses, ArchiveRefused, SweeperDies, ArchiveRuns,
         DeleteThread, PruneSignals, PruneTasks, ArchivedStatus
<1>7. sweep' = "deleting" => archive' # "none"
  BY DEF ShownInv, Aside, AWeekPasses, ArchiveRefused, SweeperDies, ArchiveRuns,
         DeleteThread, PruneSignals, PruneTasks, ArchivedStatus, Archivable,
         AfterArchive, Terminal
<1>8. Shown("absent")
  BY DEF Shown, Terminal
<1> QED BY <1>1, <1>3, <1>4, <1>5, <1>6, <1>7, <1>8 DEF ShownInv

-----------------------------------------------------------------------------
(* The ticket beside the sweep *)

\* What holds of the workflow although a sweep takes its rows, its thread and
\* its tasks away.
SweepInv ==
    /\ RetentionTypeOK /\ BaseInv
    /\ RunnerNear /\ ApiFirst /\ RowFirst
    /\ RecordedInv /\ ShownInv

\* It is inductive.
LEMMA SweepInductive == SweepInv /\ [RetentionNext]_sweepVars => SweepInv'
<1> SUFFICES ASSUME SweepInv, [RetentionNext]_sweepVars PROVE SweepInv'
  OBVIOUS
<1>1. CASE WorkflowStep
  <2>1. BaseInv' /\ TypeOK'
    BY <1>1, BaseInductive DEF SweepInv, WorkflowStep, BaseInv
  <2>2. RetentionTypeOK'
    BY <1>1, <2>1 DEF SweepInv, RetentionTypeOK, WorkflowStep
  <2>3. RunnerNear' /\ ApiFirst' /\ RowFirst'
    BY <1>1, NearKept, FirstKept, RowKept DEF SweepInv, WorkflowStep
  <2>4. RecordedInv' /\ ShownInv'
    BY <1>1, RecordedKept, ShownKept DEF SweepInv
  <2> QED BY <2>1, <2>2, <2>3, <2>4 DEF SweepInv
<1>2. CASE Aside \/ ArchiveRuns \/ DeleteThread \/ PruneSignals \/ PruneTasks
  <2>1. BaseInv' /\ RetentionTypeOK'
    BY <1>2, BaseSwept DEF SweepInv
  <2>2. RunnerNear' /\ ApiFirst' /\ RowFirst'
    BY <1>2, OrderSwept DEF SweepInv, ShownInv
  <2>3. RecordedInv' /\ ShownInv'
    BY <1>2, ShownSwept DEF SweepInv
  <2> QED BY <2>1, <2>2, <2>3 DEF SweepInv
<1> QED BY <1>1, <1>2, StepKinds DEF SweepInv, RecordedInv

\* It holds at the start.
LEMMA SweepInit == RetentionInit => SweepInv
<1> SUFFICES ASSUME RetentionInit PROVE SweepInv
  OBVIOUS
<1>1. BaseInv
  BY ShapeInit DEF RetentionInit, ShapeInv
<1>2. RetentionTypeOK
  BY <1>1 DEF BaseInv, RetentionInit, RetentionTypeOK
<1>3. /\ proc["api"].pc = "idle" /\ proc["runner"].pc = "idle"
      /\ proc["runner"].resume = "none"
      /\ cp.node = "none" /\ mem["runner"].node = "none"
      /\ run.status = "absent" /\ seen.status = "absent"
      /\ payload.status = "none" /\ task["finalize"] = "absent"
      /\ archive = "none" /\ old = {} /\ sweep = "idle"
  BY IdleRecord, KeysAre DEF RetentionInit, Init, NoGraph, NoRun, Procs
<1>4. RunnerNear /\ ApiFirst /\ RowFirst
  BY <1>3 DEF RunnerNear, ApiFirst, RowFirst, Active, Writing, Early
<1>5. RecordedInv /\ ShownInv
  BY <1>3 DEF RecordedInv, EndRecorded, ShownInv, Shown, Terminal
<1> QED BY <1>1, <1>2, <1>4, <1>5 DEF SweepInv

\* The sweep takes nothing away that somebody still needs: what a status says of
\* the ticket stays true of it wherever the status is kept.
THEOREM SweepHolds == RetentionSpec => []SweepInv
<1> QED BY SweepInit, SweepInductive, PTL DEF RetentionSpec

\* Types of the state (RetentionTypeOK).
THEOREM RetentionTyped == RetentionSpec => []RetentionTypeOK
<1>1. SweepInv => RetentionTypeOK
  BY DEF SweepInv
<1> QED BY <1>1, SweepHolds, PTL

\* Without crashes GET /tickets/{id} finds a ticket in the checkpoint or in the
\* read model, unless it was archived as rejected or escalated before its result
\* was recorded (TicketReadable): only an archived thread is deleted, and what
\* is archived as resolved has been recorded.
THEOREM TicketsStayReadable == RetentionSpec => []TicketReadable
<1>1. SweepInv => TicketReadable
  BY DEF SweepInv, ApiFirst, ShownInv, Shown, RetentionTypeOK, Terminal,
         TicketReadable
<1> QED BY <1>1, SweepHolds, PTL

\* No step starts work of an agent for an archived ticket: whoever still has a
\* graph state of it has one at execute or later.
LEMMA ArchivedAtRest ==
  ASSUME SweepInv, [RetentionNext]_sweepVars, archive # "none",
         NEW k \in AgentKeys, task[k] = "absent"
  PROVE  task'[k] = "absent"
<1>0. /\ BaseInv /\ TypeOK /\ k \in TaskKeys /\ PastGate /\ RunnerShape
      /\ \A p \in Procs : AwaitsDraft(p)
  BY ShapeAwaitsDraft
     DEF SweepInv, ShownInv, Shown, RetentionTypeOK, BaseInv, TaskKeys
<1>1. ASSUME NEW p \in Procs, Superstep(p)
      PROVE  task'[k] = "absent"
  <2>1. proc[p].pc = "invoking"
    BY <1>0, <1>1, Supersteps
  <2>2. p = "runner"
    BY <1>0, <2>1 DEF PastGate, Writing, Procs
  <2>3. mem[p].node \in {"execute", "end"}
    BY <1>0, <2>1, <2>2 DEF PastGate, RunnerShape, Active
  <2>4. EnqueueFinalize(p)
    BY <1>0, <1>1, <2>3, Supersteps
       DEF DraftingMove, DecidingMove, Raises, AwaitNode, AgentStages
  <2> QED BY <1>0, <2>4, PayloadKept
<1>2. CASE WorkflowStep
  BY <1>0, <1>1, <1>2, TableSteps
     DEF WorkflowStep, Next, TableStep, CreateTicket, CreateRun, Claim, Look,
         Release, SaveRun, Crash, vars, queue
<1>3. CASE Aside \/ ArchiveRuns \/ DeleteThread \/ PruneSignals \/ PruneTasks
  BY <1>0, <1>3
     DEF Aside, ArchiveRuns, DeleteThread, PruneSignals, PruneTasks, vars,
         queue
<1> QED BY <1>2, <1>3, StepKinds DEF SweepInv, RecordedInv

\* Nobody starts an archived ticket's work again (NoAgentWorkAfterArchive),
\* though its tasks have been pruned and the reconciler may have given it a new
\* row.
THEOREM ArchiveIsFinal == RetentionSpec => NoAgentWorkAfterArchive
<1>1. /\ SweepInv /\ [RetentionNext]_sweepVars
      => [archive # "none" =>
            \A k \in AgentKeys :
               task[k] = "absent" => task'[k] = "absent"]_sweepVars
  BY ArchivedAtRest
<1> QED BY <1>1, SweepHolds, PTL DEF RetentionSpec, NoAgentWorkAfterArchive

-----------------------------------------------------------------------------
(* What rests on a resolution *)

\* A submitted approval is waiting to be carried out.
Granted == \E i \in Unconsumed : signals[i].approved

\* The task has been done, and may have been pruned since.
Answered(k) == task[k] \in {"done", "absent"}

\* Whoever goes on from graph state g goes on to resolve the ticket, as far as
\* what is on record decides it.
Resolving(g) ==
    \/ g.node \in {"none", "end"}
    \/ g.node = "execute" /\ ~Refuses(g)
    \/ g.node = "decide_approval" /\ ~NeedsApproval(g.draft)
    \/ g.node = "await_approval" /\ g.parked = 1 /\ Granted
    \/ /\ g.node = "await_draft" /\ g.awaits # "none"
       /\ Answered(g.awaits) /\ ~NeedsApproval(answer[g.awaits])

\* The ticket is resolved, or the runner is going to resolve it.
Resolves ==
    \/ payload.status = "resolved"
    \/ LET m == mem["runner"] IN
       \/ m.node = "execute" /\ ~Refuses(m)
       \/ m.node = "decide_approval" /\ ~NeedsApproval(m.draft)

\* A run waits for the fallback worker only when the draft task was taken away.
Handed(g) ==
    g.node = "await_draft" /\ g.awaits = Fallback["draft"] =>
        task["draft"] \in {"failed", "absent"}

\* The decision that the runner has looked up is the one that is waiting.
SignalHeld ==
    LET n == proc["runner"].signal
        v == proc["runner"].resume
        m == mem["runner"]
    IN
    /\ \A i, j \in Unconsumed : i = j
    /\ n # 0 =>
          /\ n \in Unconsumed
          /\ \/ /\ m.node = "await_approval"
                /\ v = IF signals[n].approved THEN "approved" ELSE "rejected"
             \/ m.node \in {"execute", "end"}
    /\ v \in {"approved", "rejected"} => n # 0

\* What a runner has looked up leads to a resolution when there is one.
LookupHeld ==
    LET v == proc["runner"].resume
        m == mem["runner"]
    IN
    /\ payload.status = "resolved" /\ v # "none" =>
          /\ m.node = "await_draft" => v # "task_failed"
          /\ m.node = "await_approval" => v = "approved"
    /\ v = "result" /\ m.node = "await_draft" => Answered(m.awaits)

\* Once the ticket is resolved, or about to be, no graph state that is left leads
\* to anything else: not even one whose tasks have been pruned, and which runs
\* into execute again.
ResolutionInv ==
    /\ Resolves => Resolving(cp) /\ Resolving(mem["runner"])
    /\ SignalHeld
    /\ LookupHeld
    /\ Handed(cp) /\ Handed(mem["runner"])

\* Who settles, adds or takes away a draft task.
LEMMA DraftSteps ==
  ASSUME BaseInv, [Next]_vars
  PROVE  \/ \A k \in DraftKeys :
               /\ task[k] \in {"done", "failed", "absent"} => task'[k] = task[k]
               /\ Answered(k) => answer'[k] = answer[k]
         \/ /\ mem["runner"].node = "dispatch_draft"
            /\ proc["runner"].pc = "invoking"
            /\ task' = Enqueued(task, "draft") /\ UNCHANGED answer
         \/ /\ mem["runner"].node = "await_draft"
            /\ task["draft"] = "pending"
            /\ task' = Redispatched("draft") /\ UNCHANGED answer
<1>0. /\ TypeOK /\ task \in [TaskKeys -> TaskStatus]
      /\ answer \in [DraftKeys -> Drafts \cup {"none"}]
      /\ \A p \in Procs : AwaitsDraft(p)
      /\ DraftKeys = {"draft", "draft:fallback"} /\ DraftKeys \subseteq TaskKeys
  BY ShapeAwaitsDraft, KeysAre DEF BaseInv, TypeOK, TaskStatus, DraftKeys
<1> DEFINE same == \A k \in DraftKeys :
                      /\ task'[k] = task[k] /\ answer'[k] = answer[k]
<1>1. \A s \in AgentStages : /\ task[s] # "pending" => Redispatched(s) = task
                             /\ s \in {"classify", "draft"}
  BY <1>0, InsertedTasks DEF AgentStages
<1>2. /\ \A k \in DraftKeys : Redispatched("classify")[k] = task[k]
      /\ \A k \in DraftKeys : /\ Enqueued(task, "classify")[k] = task[k]
                              /\ Enqueued(task, "finalize")[k] = task[k]
  <2>1. /\ \A k \in DraftKeys : k \in TaskKeys
                                      \ {"classify", Fallback["classify"]}
        /\ \A k \in DraftKeys : k \in TaskKeys \ {"classify"}
        /\ \A k \in DraftKeys : k \in TaskKeys \ {"finalize"}
        /\ "classify" \in AgentStages
        /\ "classify" \in TaskKeys /\ "finalize" \in TaskKeys
    BY <1>0, KeysAre DEF AgentStages
  <2>2. \A k \in DraftKeys : Redispatched("classify")[k] = task[k]
    BY <1>0, <1>1, <2>1, InsertedTasks
  <2> QED BY <1>0, <2>1, <2>2, InsertedTasks
<1>3. ASSUME NEW p \in Procs, Superstep(p)
      PROVE  \/ same
             \/ /\ mem["runner"].node = "dispatch_draft"
                /\ proc["runner"].pc = "invoking"
                /\ task' = Enqueued(task, "draft") /\ UNCHANGED answer
             \/ /\ mem["runner"].node = "await_draft"
                /\ task["draft"] = "pending"
                /\ task' = Redispatched("draft") /\ UNCHANGED answer
  <2>1. /\ UNCHANGED answer /\ proc[p].pc = "invoking"
        /\ \/ task' \in {task, Enqueued(task, "classify"),
                         Enqueued(task, "finalize"), Redispatched("classify")}
           \/ mem[p].node = "dispatch_draft" /\ task' = Enqueued(task, "draft")
           \/ mem[p].node = "await_draft" /\ task' = Redispatched("draft")
    <3>1. CASE Raises(p)
      BY <1>0, <1>1, <1>3, <3>1, Supersteps
         DEF Raises, EnqueueFinalize, AwaitNode
    <3>2. CASE ~Raises(p)
      <4>1. PICK g \in GraphState :
                   /\ proc[p].pc = "invoking" /\ Stores(p, g)
                   /\ DraftingMove(p, g) \/ DecidingMove(p, g)
        BY <1>0, <1>3, <3>2, Supersteps
      <4>2. UNCHANGED answer
        BY <4>1 DEF Stores
      <4>3. CASE DraftingMove(p, g)
        BY <1>1, <4>1, <4>2, <4>3 DEF DraftingMove, Rerun, AwaitNode
      <4>4. CASE DecidingMove(p, g)
        BY <4>1, <4>2, <4>4 DEF DecidingMove, EnqueueFinalize
      <4> QED BY <4>1, <4>3, <4>4
    <3> QED BY <3>1, <3>2
  <2>2. mem[p].node \in {"dispatch_draft", "await_draft"} => p = "runner"
    BY <2>1 DEF BaseInv, ApiShape, Early, Procs
  <2>3. task["draft"] # "pending" => Redispatched("draft") = task
    BY <1>0, InsertedTasks DEF AgentStages
  <2> QED BY <1>2, <2>1, <2>2, <2>3
<1>4. ASSUME NEW j \in TaskKeys, CompleteTask(j) \/ FailTask(j)
      PROVE  \A k \in DraftKeys :
                /\ task[k] \in {"done", "failed", "absent"} =>
                      task'[k] = task[k]
                /\ Answered(k) => answer'[k] = answer[k]
  BY <1>0, <1>4 DEF CompleteTask, FailTask, Answered
<1>5. ASSUME NEW j \in TaskKeys, Lease(j) \/ Requeue(j)
      PROVE  \A k \in DraftKeys :
                /\ task[k] \in {"done", "failed", "absent"} =>
                      task'[k] = task[k]
                /\ answer'[k] = answer[k]
  BY <1>0, <1>5 DEF Lease, Requeue
<1>6. CASE /\ \A p \in Procs : ~Superstep(p)
           /\ \A j \in TaskKeys : /\ ~Lease(j) /\ ~Requeue(j)
                                  /\ ~CompleteTask(j) /\ ~FailTask(j)
  <2>1. UNCHANGED <<task, answer>>
    BY <1>6
       DEF Next, CreateTicket, CreateRun, Claim, Look, Release, SaveRun, Crash,
           SubmitApproval, RunLeaseExpires, ReclaimRuns, ReconcileRead,
           ReconcileInsert, Settle, WakeRun, WorkerDies, DeadlinePasses, vars,
           queue
  <2> QED BY <2>1
<1> QED BY <1>3, <1>4, <1>5, <1>6

\* A decision waits until the save_run of the runner that has looked it up.
LEMMA DecisionWaits ==
  ASSUME BaseInv, SignalHeld, [Next]_vars
  PROVE  /\ \A i, j \in Unconsumed' : i = j
         /\ \A i \in Unconsumed :
               ~(SaveRun /\ proc["runner"].signal = i) =>
                  i \in Unconsumed' /\ signals'[i] = signals[i]
<1>0. /\ TypeOK /\ \A i, j \in Unconsumed : i = j
      /\ DOMAIN signals = 1..Len(signals)
      /\ \A i \in DOMAIN signals : signals[i] \in Signal
  BY SignalSteps DEF BaseInv, SignalHeld
<1>1. CASE UNCHANGED signals
  BY <1>0, <1>1 DEF Unconsumed
<1>2. CASE SaveRun
  <2>1. \A i \in Unconsumed' : i \in Unconsumed
    BY <1>0, <1>2, SignalSteps DEF Unconsumed, Signal
  <2>2. \A i \in DOMAIN signals : i # proc["runner"].signal =>
                                     signals'[i] = signals[i]
    BY <1>2 DEF SaveRun
  <2> QED BY <1>0, <1>2, <2>1, <2>2, SignalSteps DEF Unconsumed
<1>3. CASE \E approved \in BOOLEAN : SubmitApproval(approved)
  <2>1. Unconsumed = {}
    BY <1>3 DEF SubmitApproval
  <2>2. PICK approved \in BOOLEAN : SubmitApproval(approved)
    BY <1>3
  <2>3. /\ DOMAIN signals' = DOMAIN signals \cup {Len(signals) + 1}
        /\ \A i \in DOMAIN signals : signals'[i] = signals[i]
    BY <1>0, <2>2, SignalSteps
  <2>4. \A i \in Unconsumed' : i = Len(signals) + 1
    BY <2>1, <2>3 DEF Unconsumed
  <2> QED BY <2>1, <2>4
<1> QED BY <1>1, <1>2, <1>3, SignalWriters

\* A graph state that leads to the resolution goes on leading there, as long as
\* nobody consumes the approval it waits for.
LEMMA ResolvingStays ==
  ASSUME BaseInv, SignalHeld, [Next]_vars,
         mem["runner"].node # "dispatch_draft",
         SaveRun => proc["runner"].signal = 0,
         NEW g \in GraphState, Shape(g), Handed(g), Resolving(g)
  PROVE  Resolving(g)'
<1>1. Granted => Granted'
  <2>1. \A i \in Unconsumed : i \in Unconsumed' /\ signals'[i] = signals[i]
    <3>1. 0 \notin Unconsumed
      BY SignalSteps DEF BaseInv, Unconsumed
    <3> QED BY <3>1, DecisionWaits
  <2> QED BY <2>1 DEF Granted
<1>2. ASSUME g.node = "await_draft", g.awaits # "none", Answered(g.awaits)
      PROVE  task'[g.awaits] = task[g.awaits]
             /\ answer'[g.awaits] = answer[g.awaits]
  <2>1. /\ g.awaits \in DraftKeys
        /\ g.awaits \in {"draft", Fallback["draft"]}
    BY <1>2, KeysAre DEF Shape, Waits, GraphState, DraftKeys
  <2>2. task["draft"] # "pending"
    BY <1>2, <2>1 DEF Handed, Answered
  <2> QED BY <1>2, <2>1, <2>2, DraftSteps DEF Answered
<1>3. Resolving(g) /\ g.node = "await_draft" => Resolving(g)'
  BY <1>2 DEF Resolving, Answered
<1> QED BY <1>1, <1>3 DEF Resolving, Refuses

\* A resolution stays: whoever runs into execute again writes the same one.
LEMMA ResolutionStays ==
  ASSUME BaseInv, ResolutionInv, [Next]_vars
  PROVE  /\ payload.status = "resolved" => payload'.status = "resolved"
         /\ payload'.status = "resolved" => Resolves
<1>1. CASE /\ EnqueueFinalize("runner")
           /\ mem["runner"].node = "execute"
  <2>1. payload' = payload \/ payload'.status = FinalStatus(mem["runner"])
    BY <1>1 DEF EnqueueFinalize
  <2>2. FinalStatus(mem["runner"]) = "resolved" <=> ~Refuses(mem["runner"])
    BY <1>1 DEF FinalStatus, Refuses
  <2>3. payload.status = "resolved" => ~Refuses(mem["runner"])
    BY <1>1 DEF ResolutionInv, Resolves, Resolving
  <2> QED BY <1>1, <2>1, <2>2, <2>3 DEF Resolves
<1>2. CASE UNCHANGED payload
  BY <1>2 DEF Resolves
<1> QED BY <1>1, <1>2, PayloadSteps

\* The decision that save_run consumes has been carried out.
LEMMA ConsumedAtEnd ==
  ASSUME BaseInv, SignalHeld, SaveRun, proc["runner"].signal # 0
  PROVE  mem["runner"].node \in {"execute", "end"}
<1>1. proc["runner"].resume = "none"
  BY DEF SaveRun, BaseInv, RunnerShape
<1> QED BY <1>1 DEF SignalHeld

\* The runner that resolves a ticket, or finds it resolved, keeps to that.
LEMMA MoveResolving ==
  ASSUME BaseInv, ResolutionInv, Resolves, [Next]_vars,
         NEW g \in GraphState, RunnerMoved(g)
  PROVE  Resolving(g)'
<1> DEFINE m == mem["runner"]
           v == proc["runner"].resume
<1>0. /\ Moves("runner", g) /\ proc["runner"].pc = "invoking"
      /\ Resolving(m) /\ Shape(m) /\ Handed(m) /\ m \in GraphState
      /\ RunnerShape /\ "runner" \in Procs /\ TypeOK
  BY Supersteps, ShapeAwaitsDraft
     DEF RunnerMoved, Moves, ResolutionInv, BaseInv, TypeOK, GraphsShaped,
         Procs
<1>1. m.parked > 0 <=> v # "none"
  <2>1. m.parked \in 0..2
    BY <1>0 DEF GraphState
  <2> QED BY <1>0, <2>1 DEF RunnerShape
<1>2. m.node \notin {"none", "start"}
  BY <1>0 DEF RunnerShape, Active
<1>3. CASE m.node = "execute"
  <2>1. \/ g.node = "end"
        \/ g.node = "execute" /\ g.status = m.status
    BY <1>0, <1>3
       DEF Moves, DraftingMove, DecidingMove, Enters, Parks, AwaitNode,
           AgentStages
  <2> QED BY <1>0, <1>3, <2>1 DEF Resolving, Refuses
<1>4. CASE m.node = "decide_approval"
  <2>1. g.node = "execute" /\ g.status = "drafting"
    BY <1>0, <1>4
       DEF Moves, DraftingMove, DecidingMove, Enters, AwaitNode, AgentStages,
           Resolving, Shape
  <2> QED BY <2>1 DEF Resolving, Refuses
<1>5. CASE m.node = "await_approval"
  <2>1. m.parked = 1 /\ payload.status = "resolved"
    BY <1>0, <1>5 DEF Resolving, Resolves, ResolutionInv
  <2>2. v = "approved"
    BY <1>1, <1>5, <2>1 DEF ResolutionInv, LookupHeld
  <2>3. g.node = "execute" /\ g.status = "awaiting_approval"
    BY <1>0, <1>5, <2>1, <2>2
       DEF Moves, DraftingMove, DecidingMove, Enters, Parks, AwaitNode,
           AgentStages, Shape
  <2> QED BY <2>3 DEF Resolving, Refuses
<1>6. CASE m.node = "await_draft"
  <2>1. /\ m.awaits # "none" /\ Answered(m.awaits)
        /\ ~NeedsApproval(answer[m.awaits]) /\ payload.status = "resolved"
    BY <1>0, <1>6 DEF Resolving, Resolves
  <2>2. m.parked > 0 /\ m.parked # 0
    BY <1>0, <1>6, <2>1 DEF Shape, Waits, GraphState
  <2>3. v # "task_failed"
    BY <1>1, <1>6, <2>1, <2>2 DEF ResolutionInv, LookupHeld
  <2>4. \/ g.node = "decide_approval" /\ g.draft = answer[m.awaits]
        \/ /\ m.parked = 1 /\ g.node = "await_draft"
           /\ g.awaits = RedispatchKey("draft")
    BY <1>0, <1>6, <2>2, <2>3
       DEF Moves, DraftingMove, DecidingMove, Enters, Parks, AwaitNode,
           AgentStages
  <2>5. CASE g.node = "decide_approval" /\ g.draft = answer[m.awaits]
    BY <2>1, <2>5 DEF Resolving, NeedsApproval
  <2>6. CASE /\ m.parked = 1 /\ g.node = "await_draft"
             /\ g.awaits = RedispatchKey("draft")
    <3>1. m.awaits = "draft"
      BY <1>0, <1>6, <2>6 DEF Shape, Waits
    <3>2. g.awaits = m.awaits
      BY <2>1, <2>6, <3>1 DEF Answered, RedispatchKey
    <3>3. ~SaveRun
      BY <1>0 DEF SaveRun
    <3>4. \A h \in GraphState : Shape(h) /\ Handed(h) /\ Resolving(h) =>
                                   Resolving(h)'
      BY <1>6, <3>3, ResolvingStays DEF ResolutionInv
    <3>5. \A h : h = m => Resolving(h)'
      BY <1>0, <3>4
    <3> QED BY <1>6, <2>1, <2>6, <3>2, <3>5 DEF Resolving
  <2> QED BY <2>4, <2>5, <2>6
<1> QED BY <1>0, <1>2, <1>3, <1>4, <1>5, <1>6
        DEF Resolving, Moves, DraftingMove, DecidingMove, AwaitNode,
            AgentStages

\* The runner that comes to resolve a ticket has what it looked up on record, at
\* the checkpoint that it started from.
LEMMA MoveSupports ==
  ASSUME SweepInv, ResolutionInv, ~Resolves, [Next]_vars,
         NEW g \in GraphState, RunnerMoved(g),
         \/ g.node = "execute" /\ ~Refuses(g)
         \/ g.node = "decide_approval" /\ ~NeedsApproval(g.draft)
  PROVE  /\ Resolving(g)'
         /\ \A h : h = cp => Resolving(h)'
<1> DEFINE m == mem["runner"]
           v == proc["runner"].resume
           n == proc["runner"].signal
<1>0. /\ Moves("runner", g) /\ proc["runner"].pc = "invoking"
      /\ Shape(m) /\ Handed(m) /\ m \in GraphState
      /\ RunnerShape /\ "runner" \in Procs /\ TypeOK /\ BaseInv
      /\ ~SaveRun
  BY Supersteps, ShapeAwaitsDraft
     DEF RunnerMoved, Moves, ResolutionInv, SweepInv, BaseInv, TypeOK,
         GraphsShaped, Procs, SaveRun
<1>1. m.parked > 0 <=> v # "none"
  <2>1. m.parked \in 0..2
    BY <1>0 DEF GraphState
  <2> QED BY <1>0, <2>1 DEF RunnerShape
<1>2. v # "none" => cp.node = "none" \/ cp = m
  BY <1>0 DEF SweepInv, RunnerNear, Active
<1>3. Resolving(g)'
  BY DEF Resolving, Refuses
<1>4. \/ m.node = "await_approval" /\ v = "approved"
      \/ m.node = "await_draft" /\ v = "result" /\ g.draft = answer[m.awaits]
  <2>1. m.node # "execute"
    <3>1. m.node = "execute" => \/ g.node = "end"
                                \/ g.node = "execute" /\ g.status = m.status
      BY <1>0
         DEF Moves, DraftingMove, DecidingMove, Enters, Parks, AwaitNode,
             AgentStages
    <3> QED BY <3>1 DEF Resolves, Refuses
  <2>2. m.node # "decide_approval"
    BY <1>0
       DEF Moves, DraftingMove, DecidingMove, Enters, AwaitNode, AgentStages,
           Resolves
  <2> QED BY <1>0, <2>1, <2>2
          DEF Moves, DraftingMove, DecidingMove, Enters, Parks, AwaitNode,
              AgentStages, Refuses
<1>5. Resolving(m)
  <2>1. CASE m.node = "await_approval" /\ v = "approved"
    <3>1. n \in Unconsumed /\ signals[n].approved
      BY <2>1 DEF ResolutionInv, SignalHeld
    <3>2. m.parked = 1
      BY <1>0, <1>1, <2>1 DEF Shape, GraphState
    <3> QED BY <2>1, <3>1, <3>2 DEF Resolving, Granted
  <2>2. CASE /\ m.node = "await_draft" /\ v = "result"
             /\ g.draft = answer[m.awaits]
    <3>1. Answered(m.awaits)
      BY <2>2 DEF ResolutionInv, LookupHeld
    <3>2. m.awaits # "none" /\ g.node = "decide_approval"
      <4>1. m.parked # 0
        BY <1>0, <1>1, <2>2 DEF GraphState
      <4> QED BY <1>0, <2>2, <4>1
              DEF Shape, Waits, Moves, DraftingMove, DecidingMove, Enters,
                  Parks, AwaitNode, AgentStages
    <3> QED BY <2>2, <3>1, <3>2 DEF Resolving
  <2> QED BY <1>4, <2>1, <2>2
<1>6. \A h \in GraphState : Shape(h) /\ Handed(h) /\ Resolving(h) =>
                               Resolving(h)'
  BY <1>0, <1>4, ResolvingStays DEF ResolutionInv
<1>7. \A h : h = m => Resolving(h)'
  BY <1>0, <1>5, <1>6
<1>8. \A h : h.node = "none" => Resolving(h)'
  BY DEF Resolving
<1> QED BY <1>1, <1>2, <1>3, <1>4, <1>7, <1>8

\* Every graph state that is left when the ticket is resolved, or about to be,
\* leads to the resolution.
LEMMA ResolvingKept ==
  ASSUME SweepInv, ResolutionInv, [Next]_vars, Resolves'
  PROVE  Resolving(cp)' /\ Resolving(mem["runner"])'
<1> DEFINE m == mem["runner"]
<1> SUFFICES \A h : h \in {cp', mem'["runner"]} => Resolving(h)'
  BY DEF Resolving, Refuses, Granted, Answered
<1>0. /\ BaseInv /\ TypeOK /\ BaseInv' /\ RunnerShape /\ RunnerShape'
      /\ "runner" \in Procs /\ "api" \in Procs
      /\ m \in GraphState /\ cp \in GraphState
      /\ Shape(m) /\ Shape(cp) /\ Handed(m) /\ Handed(cp)
      /\ ~Active => m.node = "none"
      /\ ~Active' => mem'["runner"].node = "none"
  BY BaseInductive
     DEF SweepInv, BaseInv, TypeOK, GraphsShaped, RunnerShape, ResolutionInv,
         Procs
<1>1. \A h : h.node = "none" => Resolving(h)'
  BY DEF Resolving
<1>2. CASE Resolves
  <2>1. Resolving(cp) /\ Resolving(m)
    BY <1>2 DEF ResolutionInv
  <2>2. ~Writing /\ proc["api"].pc # "idle"
    BY <1>0, <1>2 DEF SweepInv, ApiFirst, Resolves
  <2>3. CASE SaveRun /\ proc["runner"].signal # 0
    <3>1. m.node \in {"execute", "end"}
      BY <1>0, <2>3, ConsumedAtEnd DEF ResolutionInv
    <3>2. \A h : h = m => Resolving(h)'
      BY <2>1, <3>1 DEF Resolving, Refuses
    <3>3. /\ cp' = Flushed("runner") /\ Active
          /\ mem'["runner"].node = "none"
      BY <1>0, <2>3 DEF SaveRun, Active, NoGraph, TypeOK
    <3>4. cp' = m \/ cp'.node = "none"
      BY <3>3 DEF Flushed, SweepInv, RunnerNear
    <3> QED BY <1>1, <3>2, <3>3, <3>4
  <2>4. CASE ~(SaveRun /\ proc["runner"].signal # 0)
    <3>1. m.node # "dispatch_draft"
      BY <2>1 DEF Resolving
    <3>2. \A h \in GraphState : Shape(h) /\ Handed(h) /\ Resolving(h) =>
                                   Resolving(h)'
      BY <1>0, <2>4, <3>1, ResolvingStays DEF ResolutionInv
    <3>3. \A h : h \in {cp, m} => Resolving(h)'
      BY <1>0, <2>1, <3>2
    <3>4. ASSUME NEW g \in GraphState, RunnerMoved(g)
          PROVE  \A h : h \in {cp', mem'["runner"]} => Resolving(h)'
      <4>1. Resolving(g)'
        BY <1>0, <1>2, <3>4, MoveResolving
      <4>2. cp' \in {cp, g} /\ mem'["runner"] = g
        BY <3>4 DEF RunnerMoved
      <4> QED BY <3>3, <4>1, <4>2
    <3>5. CASE RunnerLooked
      BY <3>3, <3>5 DEF RunnerLooked, RunnerResumes
    <3>6. CASE RunnerRested
      <4>1. cp' \in {cp, m} /\ mem'["runner"].node = "none"
        BY <1>0, <3>6 DEF RunnerRested, Flushed, Active
      <4> QED BY <1>1, <3>3, <4>1
    <3>7. ASSUME NEW g \in GraphState, RequestMoved(g)
          PROVE  FALSE
      BY <1>0, <2>2, <3>7, Supersteps, ShapeAwaitsDraft
         DEF RequestMoved, Moves, Writing
    <3>8. ~RequestCame
      BY <2>2 DEF RequestCame, CreateTicket
    <3>9. CASE RequestEnded
      <4>1. cp' = cp /\ mem'["runner"] = m
        BY <2>2, <3>9 DEF RequestEnded, CreateRun, Flushed, Writing, Still
      <4> QED BY <3>3, <4>1
    <3>10. CASE cp' = cp /\ \A p \in Procs : Still(p)
      BY <1>0, <3>3, <3>10 DEF Still
    <3> QED BY <1>0, <3>4, <3>5, <3>6, <3>7, <3>8, <3>9, <3>10, GraphSteps
  <2> QED BY <2>3, <2>4
<1>3. CASE ~Resolves
  <2>1. LET q == mem'["runner"] IN
        \/ q.node = "execute" /\ ~Refuses(q)
        \/ q.node = "decide_approval" /\ ~NeedsApproval(q.draft)
    BY <1>0, <1>3, ResolutionStays DEF Resolves, Refuses
  <2>2. ASSUME NEW g \in GraphState, RunnerMoved(g)
        PROVE  \A h : h \in {cp', mem'["runner"]} => Resolving(h)'
    <3>1. cp' \in {cp, g} /\ mem'["runner"] = g
      BY <2>2 DEF RunnerMoved
    <3>2. Resolving(g)' /\ \A h : h = cp => Resolving(h)'
      BY <1>3, <2>1, <2>2, <3>1, MoveSupports
    <3> QED BY <3>1, <3>2
  <2>3. CASE RunnerLooked
    <3>1. \A h : h = mem'["runner"] => Resolving(h)'
      BY <2>1 DEF Resolving, Refuses
    <3> QED BY <2>3, <3>1 DEF RunnerLooked, RunnerResumes
  <2>4. ~RunnerRested
    BY <1>0, <2>1 DEF RunnerRested, Active
  <2>5. mem'["runner"] # m
    BY <1>3, <2>1 DEF Resolves
  <2> QED BY <1>0, <2>2, <2>3, <2>4, <2>5, GraphSteps
          DEF RequestMoved, RequestCame, RequestEnded, Still
<1> QED BY <1>2, <1>3

\* The decision that the runner has looked up is carried out before it is
\* consumed.
LEMMA SignalKept ==
  ASSUME SweepInv, ResolutionInv, [Next]_vars
  PROVE  SignalHeld'
<1> DEFINE m == mem["runner"]
           v == proc["runner"].resume
           n == proc["runner"].signal
<1>0. /\ BaseInv /\ TypeOK /\ BaseInv' /\ RunnerShape /\ RunnerShape'
      /\ "runner" \in Procs /\ SignalHeld
      /\ \A i, j \in Unconsumed' : i = j
      /\ ~SaveRun => \A i \in Unconsumed :
                        i \in Unconsumed' /\ signals'[i] = signals[i]
  BY BaseInductive, DecisionWaits
     DEF SweepInv, BaseInv, ResolutionInv, Procs
<1>1. ASSUME NEW g \in GraphState, RunnerMoved(g)
      PROVE  SignalHeld'
  <2>1. /\ Moves("runner", g) /\ mem'["runner"] = g
        /\ proc["runner"].pc = "invoking"
        /\ proc'["runner"].resume = "none" /\ proc'["runner"].signal = n
    BY <1>0, <1>1, Supersteps, ShapeAwaitsDraft DEF RunnerMoved, Moves, Stores
  <2>2. ~SaveRun
    BY <2>1 DEF SaveRun
  <2>3. ASSUME m.node = "await_approval", v \in {"approved", "rejected"}
        PROVE  g.node = "execute"
    <3>1. m.parked # 0
      BY <1>0, <2>1, <2>3 DEF RunnerShape
    <3> QED BY <2>1, <2>3, <3>1
            DEF Moves, DraftingMove, DecidingMove, Enters, Parks, AwaitNode,
                AgentStages
  <2>4. m.node \in {"execute", "end"} => g.node \in {"execute", "end"}
    BY <2>1 DEF Moves, DraftingMove, DecidingMove, Enters, Parks, AwaitNode,
                AgentStages
  <2> QED BY <1>0, <2>1, <2>2, <2>3, <2>4 DEF SignalHeld
<1>2. CASE RunnerLooked
  <2>1. /\ mem'["runner"] = cp /\ UNCHANGED signals
        /\ proc'["runner"].resume = ResumeValue
        /\ proc'["runner"].signal =
              IF ResumeValue \in {"approved", "rejected"}
                THEN CHOOSE i \in Unconsumed : TRUE ELSE 0
    BY <1>2 DEF RunnerLooked, RunnerResumes, Look, tables
  <2>2. CASE ResumeValue \in {"approved", "rejected"}
    <3>1. /\ cp.node = "await_approval" /\ Unconsumed # {}
          /\ ResumeValue = IF \E i \in Unconsumed : signals[i].approved
                             THEN "approved" ELSE "rejected"
      BY <2>2 DEF ResumeValue
    <3>2. PICK k \in Unconsumed : k = CHOOSE i \in Unconsumed : TRUE
      BY <3>1
    <3>3. proc'["runner"].signal = k
      BY <2>1, <2>2, <3>2
    <3>4. Unconsumed' = Unconsumed
      BY <2>1 DEF Unconsumed
    <3>5. ResumeValue = IF signals[k].approved THEN "approved" ELSE "rejected"
      BY <1>0, <3>1, <3>2 DEF SignalHeld
    <3>6. k # 0
      BY <1>0, <3>2, SignalSteps DEF Unconsumed
    <3> QED BY <1>0, <2>1, <3>1, <3>2, <3>3, <3>4, <3>5, <3>6 DEF SignalHeld
  <2>3. CASE ResumeValue \notin {"approved", "rejected"}
    BY <1>0, <2>1, <2>3 DEF SignalHeld
  <2> QED BY <2>2, <2>3
<1>3. CASE RunnerRested
  <2>1. proc'["runner"].signal = 0 /\ proc'["runner"].resume = "none"
    BY <1>0, <1>3 DEF RunnerRested, RunnerShape, Active
  <2> QED BY <1>0, <2>1 DEF SignalHeld
<1>4. CASE Still("runner")
  <2>1. ~SaveRun
    <3>1. SaveRun => proc'["runner"].pc = "idle"
      BY <1>0, IdleRecord DEF SaveRun, TypeOK
    <3> QED BY <1>4, <3>1 DEF SaveRun, Still
  <2> QED BY <1>0, <1>4, <2>1 DEF SignalHeld, Still
<1> QED BY <1>0, <1>1, <1>2, <1>3, <1>4, GraphSteps
        DEF RequestMoved, RequestCame, RequestEnded

\* What the runner has looked up stays so until it uses it.
LEMMA LookupKept ==
  ASSUME SweepInv, ResolutionInv, [Next]_vars
  PROVE  LookupHeld'
<1> DEFINE m == mem["runner"]
           v == proc["runner"].resume
<1>0. /\ BaseInv /\ TypeOK /\ BaseInv' /\ RunnerShape /\ RunnerShape'
      /\ "runner" \in Procs /\ LookupHeld /\ Shape(m) /\ Handed(m)
      /\ m \in GraphState
  BY BaseInductive
     DEF SweepInv, BaseInv, TypeOK, GraphsShaped, ResolutionInv, Procs
<1>1. ASSUME NEW g \in GraphState, RunnerMoved(g)
      PROVE  LookupHeld'
  <2>1. proc'["runner"].resume = "none"
    BY <1>1 DEF RunnerMoved, Moves, Stores
  <2> QED BY <2>1 DEF LookupHeld
<1>2. CASE RunnerLooked
  <2>1. /\ mem'["runner"] = cp /\ UNCHANGED <<task, payload>>
        /\ proc'["runner"].resume = ResumeValue
    BY <1>2 DEF RunnerLooked, RunnerResumes, Look, queue
  <2>2. ASSUME payload.status = "resolved"
        PROVE  /\ cp.node = "await_draft" => ResumeValue # "task_failed"
               /\ cp.node = "await_approval" => ResumeValue = "approved"
    <3>1. Resolving(cp)
      BY <2>2 DEF ResolutionInv, Resolves
    <3>2. cp.node = "await_draft" =>
             cp.awaits # "none" /\ task[cp.awaits] # "failed"
      BY <3>1 DEF Resolving, Answered
    <3>3. cp.node = "await_approval" => ResumeValue = "approved"
      BY <3>1 DEF Resolving, Granted, ResumeValue
    <3> QED BY <3>2, <3>3 DEF ResumeValue
  <2>3. ResumeValue = "result" => task[cp.awaits] = "done"
    BY DEF ResumeValue
  <2> QED BY <2>1, <2>2, <2>3 DEF LookupHeld, Answered
<1>3. CASE RunnerRested
  <2>1. proc'["runner"].resume = "none"
    BY <1>0, <1>3 DEF RunnerRested, RunnerShape, Active
  <2> QED BY <2>1 DEF LookupHeld
<1>4. CASE Still("runner") /\ v # "none"
  <2>1. /\ proc'["runner"].resume = v /\ mem'["runner"] = m
        /\ proc["runner"].pc = "invoking"
    BY <1>0, <1>4 DEF Still, RunnerShape, Active
  <2>2. UNCHANGED payload
    <3>1. Superstep("runner") => proc'["runner"].resume = "none"
      <4>1. Raises("runner") => proc'["runner"].resume = "none"
        BY <1>0, EndedProcess DEF Raises, Becomes
      <4> QED BY <1>0, <4>1, Supersteps, ShapeAwaitsDraft DEF Stores
    <3> QED BY <1>0, <1>4, <2>1, <3>1, PayloadSteps
  <2>3. ASSUME v = "result", m.node = "await_draft"
        PROVE  task'[m.awaits] \in {"done", "absent"}
    <3>1. m.parked > 0 /\ ~(0 > 0)
      BY <1>0, <2>1, <2>3, ResumesParked
    <3>2. m.awaits \in DraftKeys /\ m.awaits \in {"draft", Fallback["draft"]}
      BY <1>0, <2>3, <3>1, KeysAre DEF Shape, Waits, DraftKeys
    <3>3. task[m.awaits] \in {"done", "absent"}
      BY <1>0, <2>3 DEF LookupHeld, Answered
    <3>4. task["draft"] # "pending"
      BY <1>0, <2>3, <3>2, <3>3 DEF Handed
    <3> QED BY <1>0, <2>3, <3>2, <3>3, <3>4, DraftSteps
  <2> QED BY <1>0, <2>1, <2>2, <2>3 DEF LookupHeld, Answered
<1>5. CASE Still("runner") /\ v = "none"
  BY <1>5 DEF Still, LookupHeld
<1> QED BY <1>0, <1>1, <1>2, <1>3, <1>4, <1>5, GraphSteps
        DEF RequestMoved, RequestCame, RequestEnded

\* A draft task that was taken away for the fallback worker is not given back.
LEMMA HandedKept ==
  ASSUME SweepInv, ResolutionInv, [Next]_vars
  PROVE  Handed(cp)' /\ Handed(mem["runner"])'
<1> DEFINE m == mem["runner"]
<1> SUFFICES \A h : h \in {cp', mem'["runner"]} => Handed(h)'
  BY DEF Handed
<1>0. /\ BaseInv /\ TypeOK /\ BaseInv' /\ RunnerShape /\ RunnerShape'
      /\ ApiShape /\ ApiShape'
      /\ "runner" \in Procs /\ "api" \in Procs /\ Handed(m) /\ Handed(cp)
      /\ m \in GraphState /\ cp \in GraphState
      /\ task \in [TaskKeys -> TaskStatus]
      /\ ~Active' => mem'["runner"].node = "none"
  BY BaseInductive
     DEF SweepInv, BaseInv, TypeOK, TaskStatus, ResolutionInv, RunnerShape,
         Procs
<1>1. \A h : h \in {cp, m} => Handed(h)'
  <2> SUFFICES ASSUME NEW h, h \in {cp, m}, h.node = "await_draft",
                      h.awaits = Fallback["draft"]
               PROVE  task'["draft"] \in {"failed", "absent"}
    BY DEF Handed
  <2>1. task["draft"] \in {"failed", "absent"} /\ "draft" \in DraftKeys
    BY <1>0 DEF Handed, DraftKeys
  <2>2. ~(m.node = "dispatch_draft" /\ proc["runner"].pc = "invoking")
    <3>1. Active => Pos[cp.node] < Pos[m.node] \/ cp.node = m.node
      BY DEF SweepInv, RunnerNear, AtOrBefore
    <3>2. ~(Pos["await_draft"] < Pos["dispatch_draft"])
      BY DEF Pos
    <3> QED BY <3>1, <3>2 DEF Active
  <2> QED BY <1>0, <2>1, <2>2, DraftSteps
<1>2. \A h : h.node # "await_draft" => Handed(h)'
  BY DEF Handed
<1>3. ASSUME NEW g \in GraphState, RunnerMoved(g)
      PROVE  \A h : h \in {cp', mem'["runner"]} => Handed(h)'
  <2>1. Moves("runner", g) /\ cp' \in {cp, g} /\ mem'["runner"] = g
    BY <1>3 DEF RunnerMoved
  <2>2. ASSUME g.node = "await_draft", g.awaits = Fallback["draft"]
        PROVE  task'["draft"] = "failed"
    <3>1. g.awaits \notin {"none", "draft"}
      BY <2>2, KeysAre
    <3>2. task' = Redispatched("draft") /\ g.awaits = RedispatchKey("draft")
      BY <2>1, <2>2, <3>1
         DEF Moves, DraftingMove, DecidingMove, Enters, Parks, AwaitNode,
             AgentStages
    <3>3. task["draft"] = "pending"
      BY <3>1, <3>2 DEF RedispatchKey
    <3> QED BY <1>0, <3>2, <3>3, InsertedTasks DEF AgentStages
  <2>3. Handed(g)'
    BY <2>2 DEF Handed
  <2> QED BY <1>1, <2>1, <2>3
<1>4. CASE RunnerLooked
  BY <1>1, <1>4 DEF RunnerLooked, RunnerResumes
<1>5. CASE RunnerRested
  <2>1. cp' \in {cp, m} /\ mem'["runner"].node # "await_draft"
    BY <1>0, <1>5 DEF RunnerRested, Flushed, Active
  <2> QED BY <1>1, <1>2, <2>1
<1>6. ASSUME NEW g \in GraphState, RequestMoved(g)
      PROVE  \A h : h \in {cp', mem'["runner"]} => Handed(h)'
  <2>1. /\ proc'["api"].pc \in {"invoking", "returning"}
        /\ mem'["api"] = g /\ cp' \in {cp, g} /\ mem'["runner"] = m
    BY <1>6 DEF RequestMoved, Moves, Stores, Still
  <2>2. g.node # "await_draft"
    BY <1>0, <2>1 DEF ApiShape, Early
  <2> QED BY <1>1, <1>2, <2>1, <2>2
<1>7. CASE RequestCame
  <2>1. cp' \in {cp, StartGraph} /\ mem'["runner"] = m
    BY <1>7 DEF RequestCame, Still
  <2>2. StartGraph.node # "await_draft"
    BY DEF StartGraph, NoGraph
  <2> QED BY <1>1, <1>2, <2>1, <2>2
<1>8. CASE RequestEnded
  <2>1. cp' \in {cp, mem["api"]} /\ mem'["runner"] = m
    BY <1>8 DEF RequestEnded, Flushed, Still
  <2>2. mem["api"].node # "await_draft"
    BY <1>0 DEF ApiShape, Early
  <2> QED BY <1>1, <1>2, <2>1, <2>2
<1>9. CASE cp' = cp /\ \A p \in Procs : Still(p)
  BY <1>0, <1>1, <1>9 DEF Still
<1> QED BY <1>0, <1>3, <1>4, <1>5, <1>6, <1>7, <1>8, <1>9, GraphSteps

\* The sweep does not change what a resolution rests on: it prunes what is done,
\* and of the decisions those that are consumed.
LEMMA ResolutionSwept ==
  ASSUME BaseInv, ResolutionInv,
         Aside \/ ArchiveRuns \/ DeleteThread \/ PruneSignals \/ PruneTasks
  PROVE  ResolutionInv' /\ UNCHANGED payload
<1> DEFINE m == mem["runner"]
           n == proc["runner"].signal
<1>0. /\ TypeOK /\ "runner" \in Procs
      /\ m \in GraphState /\ cp \in GraphState /\ Shape(m) /\ Shape(cp)
  BY DEF BaseInv, TypeOK, GraphsShaped, Procs
<1>1. CASE UNCHANGED <<queue, signals, proc, mem>> /\ cp' \in {cp, NoGraph}
  <2>1. cp'.node = "none" \/ cp' = cp
    BY <1>1 DEF NoGraph
  <2>2. Unconsumed' = Unconsumed
    BY <1>1 DEF Unconsumed
  <2>3. SignalHeld' /\ LookupHeld'
    BY <1>1, <2>2
       DEF ResolutionInv, SignalHeld, LookupHeld, Answered, queue
  <2>4. Handed(cp)' /\ Handed(mem["runner"])'
    BY <1>1, <2>1 DEF ResolutionInv, Handed, queue
  <2>5. Resolves' => Resolving(cp)' /\ Resolving(mem["runner"])'
    BY <1>1, <2>1, <2>2
       DEF ResolutionInv, Resolves, Resolving, Refuses, Granted, Answered,
           queue
  <2> QED BY <1>1, <2>3, <2>4, <2>5 DEF ResolutionInv, queue
<1>2. CASE Aside \/ ArchiveRuns \/ DeleteThread
  <2>1. UNCHANGED <<queue, signals, proc, mem>> /\ cp' \in {cp, NoGraph}
    BY <1>2 DEF Aside, ArchiveRuns, DeleteThread, vars, tables, graph
  <2> QED BY <1>1, <2>1
<1>3. CASE PruneSignals /\ "signals" \notin old
  <2>1. UNCHANGED <<queue, signals, proc, mem, cp>>
    BY <1>3 DEF PruneSignals
  <2> QED BY <1>1, <2>1
<1>4. CASE PruneSignals /\ "signals" \in old
  <2>1. /\ UNCHANGED <<queue, mem, cp>> /\ signals' = Undecided
        /\ proc' = [proc EXCEPT !["runner"].signal = IF @ = 0 THEN 0 ELSE 1]
    BY <1>4 DEF PruneSignals
  <2>2. /\ proc'["runner"].signal = IF n = 0 THEN 0 ELSE 1
        /\ proc'["runner"].resume = proc["runner"].resume
    BY <1>0, <2>1 DEF TypeOK
  <2>3. CASE Unconsumed = {}
    <3>1. Unconsumed' = {} /\ ~Granted /\ n = 0
      BY <2>1, <2>3
         DEF Undecided, Unconsumed, Granted, ResolutionInv, SignalHeld
    <3>2. SignalHeld'
      BY <2>1, <2>2, <3>1 DEF ResolutionInv, SignalHeld
    <3>3. LookupHeld' /\ Handed(cp)' /\ Handed(mem["runner"])'
      BY <2>1, <2>2 DEF ResolutionInv, LookupHeld, Handed, Answered, queue
    <3>4. Resolves' => Resolving(cp)' /\ Resolving(mem["runner"])'
      BY <2>1, <3>1
         DEF ResolutionInv, Resolves, Resolving, Refuses, Granted, Answered,
             queue
    <3> QED BY <2>1, <3>2, <3>3, <3>4 DEF ResolutionInv, queue
  <2>4. CASE Unconsumed # {}
    <3>1. PICK k \in Unconsumed : k = CHOOSE i \in Unconsumed : TRUE
      BY <2>4
    <3>2. signals' = <<signals[k]>> /\ \A i \in Unconsumed : i = k
      BY <2>1, <2>4, <3>1 DEF Undecided, ResolutionInv, SignalHeld
    <3>3. signals'[1] = signals[k] /\ Unconsumed' = {1}
      BY <3>1, <3>2 DEF Unconsumed
    <3>4. SignalHeld'
      BY <2>1, <2>2, <3>2, <3>3 DEF ResolutionInv, SignalHeld
    <3>5. LookupHeld' /\ Handed(cp)' /\ Handed(mem["runner"])'
      BY <2>1, <2>2 DEF ResolutionInv, LookupHeld, Handed, Answered, queue
    <3>6. Granted => Granted'
      BY <3>2, <3>3 DEF Granted
    <3>7. Resolves' => Resolving(cp)' /\ Resolving(mem["runner"])'
      BY <2>1, <3>6
         DEF ResolutionInv, Resolves, Resolving, Refuses, Answered, queue
    <3> QED BY <2>1, <3>4, <3>5, <3>7 DEF ResolutionInv, queue
  <2> QED BY <2>3, <2>4
<1>5. CASE PruneTasks
  <2>1. /\ UNCHANGED <<answer, payload, signals, proc, mem, cp>>
        /\ \A k \in TaskKeys :
              \/ task'[k] = task[k]
              \/ task[k] \in {"done", "failed"} /\ task'[k] = "absent"
    BY <1>5 DEF PruneTasks, Prunable, tables, graph
  <2>2. /\ "draft" \in TaskKeys /\ Unconsumed' = Unconsumed
        /\ m.awaits \in TaskKeys \cup {"none"}
        /\ cp.awaits \in TaskKeys \cup {"none"}
    BY <1>0, <2>1, KeysAre DEF GraphState, Unconsumed
  <2>3. \A k \in TaskKeys : Answered(k) => Answered(k)'
    BY <2>1 DEF Answered
  <2>4. Handed(cp)' /\ Handed(mem["runner"])' /\ SignalHeld'
    BY <2>1, <2>2 DEF ResolutionInv, Handed, SignalHeld
  <2>5. LookupHeld'
    <3>1. /\ proc["runner"].resume = "result" /\ m.node = "await_draft"
          => m.awaits # "none"
      <4>1. proc["runner"].resume # "none" => proc["runner"].pc = "invoking"
        BY DEF BaseInv, RunnerShape, Active
      <4>2. proc["runner"].resume = "result" => m.parked > 0 /\ ~(0 > 0)
        BY <1>0, <4>1, ResumesParked
      <4> QED BY <1>0, <4>2 DEF Shape, Waits
    <3> QED BY <2>1, <2>2, <2>3, <3>1 DEF ResolutionInv, LookupHeld, Answered
  <2>6. Resolves' => Resolving(cp)' /\ Resolving(mem["runner"])'
    BY <2>1, <2>2, <2>3
       DEF ResolutionInv, Resolves, Resolving, Refuses, Granted, Answered
  <2> QED BY <2>1, <2>4, <2>5, <2>6 DEF ResolutionInv
<1> QED BY <1>2, <1>3, <1>4, <1>5

\* No status says resolved of a ticket whose payload does not.
ResolvedOnly(st) == st = "resolved" => payload.status = "resolved"

\* Not that of the row, of a checkpoint, of what is remembered or archived.
ResolvedInv ==
    /\ \A st \in {run.status, seen.status, archive, cp.status,
                  mem["runner"].status} : ResolvedOnly(st)
    /\ proc["runner"].pc \in {"claimed", "releasing"} =>
           ResolvedOnly(proc["runner"].status)

\* A graph ends with the status of the payload, and nobody shows another one.
LEMMA ResolvedShownKept ==
  ASSUME SweepInv, ResolutionInv, ResolvedInv, [Next]_vars, UNCHANGED archive
  PROVE  ResolvedInv'
<1> DEFINE m == mem["runner"]
           ok(st) == st = "resolved" => payload'.status = "resolved"
<1>0. /\ BaseInv /\ TypeOK /\ BaseInv' /\ RunnerShape' /\ ApiShape
      /\ "runner" \in Procs /\ "api" \in Procs
      /\ Shape(mem["runner"]) /\ Shape(mem["api"])
      /\ Shape(mem'["runner"]) /\ Shape(mem'["api"]) /\ ApiShape'
      /\ ~Active' => mem'["runner"].node = "none"
  BY BaseInductive
     DEF SweepInv, BaseInv, TypeOK, GraphsShaped, Shape, Quiet, Waits,
         RunnerShape, Procs
<1>1. /\ \A st \in {run.status, seen.status, archive, cp.status, m.status,
                    "absent", "none", "classifying", "received"} : ok(st)
      /\ proc["runner"].pc \in {"claimed", "releasing"} =>
            ok(proc["runner"].status)
  BY <1>0, ResolutionStays DEF ResolvedInv, ResolvedOnly
<1>2. ok(run'.status)
  <2>1. Release => proc["runner"].pc = "releasing"
    BY DEF Release
  <2> HIDE DEF ok
  <2> QED BY <1>0, <1>1, <2>1, StatusSteps
<1>3. ok(seen'.status)
  <2> HIDE DEF ok
  <2> QED BY <1>0, <1>1, SeenSteps
<1>4. mem["api"].status \in {"none", "received", "classifying"}
      /\ mem'["api"].status \in {"none", "received", "classifying"}
  BY <1>0 DEF ApiShape, Shape, Early
<1>5. ASSUME NEW g \in GraphState, RunnerMoved(g)
      PROVE  ok(g.status)
  <2>1. g.status = "resolved" =>
           m.status = "resolved" \/ payload.status = "resolved"
    BY <1>5
       DEF RunnerMoved, Moves, DraftingMove, DecidingMove, Enters, Parks
  <2> QED BY <1>0, <1>1, <2>1, ResolutionStays
<1>6. mem'["runner"].node = "none" => mem'["runner"].status = "none"
  BY <1>0 DEF Shape
<1>7. StartGraph.status = "none"
  BY DEF StartGraph, NoGraph
<1>8. ok(cp'.status) /\ ok(mem'["runner"].status)
  <2> HIDE DEF ok
  <2>1. ASSUME NEW g \in GraphState, RunnerMoved(g)
        PROVE  ok(cp'.status) /\ ok(mem'["runner"].status)
    BY <1>1, <1>5, <2>1 DEF RunnerMoved
  <2>2. CASE RunnerLooked
    BY <1>1, <2>2 DEF RunnerLooked, RunnerResumes
  <2>3. CASE RunnerRested
    <3>1. cp' \in {cp, m} /\ mem'["runner"].node = "none"
      BY <1>0, <2>3 DEF RunnerRested, Flushed, Active
    <3> QED BY <1>1, <1>6, <3>1
  <2>4. ASSUME NEW g \in GraphState, RequestMoved(g)
        PROVE  ok(cp'.status) /\ ok(mem'["runner"].status)
    BY <1>1, <1>4, <2>4 DEF RequestMoved, Still
  <2>5. CASE RequestCame
    BY <1>1, <1>7, <2>5 DEF RequestCame, Still
  <2>6. CASE RequestEnded
    BY <1>1, <1>4, <2>6 DEF RequestEnded, Flushed, Still
  <2>7. CASE cp' = cp /\ \A p \in Procs : Still(p)
    BY <1>0, <1>1, <2>7 DEF Still
  <2> QED BY <1>0, <2>1, <2>2, <2>3, <2>4, <2>5, <2>6, <2>7, GraphSteps
<1>9. proc'["runner"].pc \in {"claimed", "releasing"} =>
         ok(proc'["runner"].status)
  <2> HIDE DEF ok
  <2>1. CASE RunnerRested
    BY <1>1, <2>1 DEF RunnerRested, Look
  <2>2. CASE Still("runner")
    BY <1>1, <2>2 DEF Still
  <2>3. ASSUME NEW g \in GraphState, RunnerMoved(g)
        PROVE  proc'["runner"].pc \notin {"claimed", "releasing"}
    BY <2>3 DEF RunnerMoved, Moves, Stores
  <2>4. RunnerLooked => proc'["runner"].pc \notin {"claimed", "releasing"}
    BY DEF RunnerLooked, RunnerResumes
  <2> QED BY <1>0, <2>1, <2>2, <2>3, <2>4, GraphSteps
          DEF RequestMoved, RequestCame, RequestEnded
<1> QED BY <1>1, <1>2, <1>3, <1>8, <1>9 DEF ResolvedInv, ResolvedOnly

\* What a sweep moves to the archive is what the row said.
LEMMA ResolvedShownSwept ==
  ASSUME BaseInv, ResolvedInv, UNCHANGED payload,
         Aside \/ ArchiveRuns \/ DeleteThread \/ PruneSignals \/ PruneTasks
  PROVE  ResolvedInv'
<1>0. TypeOK
  BY DEF BaseInv
<1>1. /\ proc'["runner"].pc = proc["runner"].pc
      /\ proc'["runner"].status = proc["runner"].status
      /\ mem' = mem /\ seen' = seen /\ cp' \in {cp, NoGraph}
  <2>1. CASE Aside \/ ArchiveRuns \/ DeleteThread \/ PruneTasks
    BY <2>1
       DEF Aside, ArchiveRuns, DeleteThread, PruneTasks, vars, graph, rest
  <2>2. CASE PruneSignals
    BY <1>0, <2>2, SignalsPruned DEF PruneSignals, rest
  <2> QED BY <2>1, <2>2
<1>2. run'.status \in {run.status, "absent"}
  BY DEF Aside, ArchiveRuns, NoRun, DeleteThread, PruneSignals, PruneTasks,
         vars, tables
<1>3. archive' \in {archive, run.status}
  BY DEF Aside, AWeekPasses, ArchiveRefused, SweeperDies, ArchiveRuns,
         DeleteThread, PruneSignals, PruneTasks, ArchivedStatus
<1>4. NoGraph.status = "none"
  BY DEF NoGraph
<1> QED BY <1>1, <1>2, <1>3, <1>4 DEF ResolvedInv, ResolvedOnly

\* What becomes of a ticket is decided once, whatever is swept.
OutcomeInv == SweepInv /\ ResolutionInv /\ ResolvedInv

\* It is inductive.
LEMMA OutcomeInductive ==
  OutcomeInv /\ [RetentionNext]_sweepVars => OutcomeInv'
<1> SUFFICES ASSUME OutcomeInv, [RetentionNext]_sweepVars PROVE OutcomeInv'
  OBVIOUS
<1>0. SweepInv'
  BY SweepInductive DEF OutcomeInv
<1>1. CASE WorkflowStep
  <2>1. Resolves' => Resolving(cp)' /\ Resolving(mem["runner"])'
    BY <1>1, ResolvingKept DEF OutcomeInv, WorkflowStep
  <2>2. SignalHeld' /\ LookupHeld' /\ Handed(cp)' /\ Handed(mem["runner"])'
    BY <1>1, SignalKept, LookupKept, HandedKept DEF OutcomeInv, WorkflowStep
  <2>3. ResolvedInv'
    BY <1>1, ResolvedShownKept DEF OutcomeInv, WorkflowStep
  <2> QED BY <1>0, <2>1, <2>2, <2>3 DEF OutcomeInv, ResolutionInv
<1>2. CASE Aside \/ ArchiveRuns \/ DeleteThread \/ PruneSignals \/ PruneTasks
  <2>1. ResolutionInv' /\ UNCHANGED payload
    BY <1>2, ResolutionSwept DEF OutcomeInv, SweepInv
  <2>2. ResolvedInv'
    BY <1>2, <2>1, ResolvedShownSwept DEF OutcomeInv, SweepInv
  <2> QED BY <1>0, <2>1, <2>2 DEF OutcomeInv
<1> QED BY <1>1, <1>2, StepKinds DEF OutcomeInv, SweepInv, RecordedInv

\* A resolution is never turned into anything else, although its task may be
\* pruned and enqueued again, in every behaviour.
THEOREM OutcomeHolds == RetentionSpec => []OutcomeInv
<1>1. RetentionInit => OutcomeInv
  <2> SUFFICES ASSUME RetentionInit PROVE OutcomeInv
    OBVIOUS
  <2>1. /\ proc["runner"].pc = "idle" /\ proc["runner"].signal = 0
        /\ proc["runner"].resume = "none"
        /\ cp.node = "none" /\ mem["runner"].node = "none"
        /\ cp.status = "none" /\ mem["runner"].status = "none"
        /\ run.status = "absent" /\ seen.status = "absent"
        /\ payload.status = "none" /\ archive = "none" /\ signals = <<>>
    BY IdleRecord DEF RetentionInit, Init, NoGraph, NoRun, Procs
  <2>2. ResolutionInv
    BY <2>1
       DEF ResolutionInv, Resolves, SignalHeld, LookupHeld, Handed, Unconsumed
  <2>3. ResolvedInv
    BY <2>1 DEF ResolvedInv, ResolvedOnly
  <2> QED BY <2>2, <2>3, SweepInit DEF OutcomeInv
<1> QED BY <1>1, OutcomeInductive, PTL DEF RetentionSpec

\* A ticket is archived only when what becomes of it is durable
\* (ArchivedTicketsDecided): its terminal task was enqueued, and of one that is
\* archived as resolved the effects were done and recorded, and it was a
\* resolution.
THEOREM ArchivedAreDecided == RetentionSpec => []ArchivedTicketsDecided
<1>1. OutcomeInv => ArchivedTicketsDecided
  BY DEF OutcomeInv, SweepInv, ShownInv, Shown, ResolvedInv, ResolvedOnly,
         RetentionTypeOK, ArchivedTicketsDecided
<1> QED BY <1>1, OutcomeHolds, PTL
==============================================================================

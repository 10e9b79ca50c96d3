--------------------------- MODULE TicketLifeProofs ---------------------------
(***************************************************************************)
(* Theorems about the decisions and the outcome of a ticket, from the      *)
(* invariants of TicketRunProofs: what a graph state and a payload rest    *)
(* on, the order of the stored checkpoint and a running graph, and that    *)
(* the workflow implements TicketLife.                                     *)
(***************************************************************************)
EXTENDS TicketRunProofs

-----------------------------------------------------------------------------
(* What an outcome rests on *)

\* A human has approved the ticket.
Approved == \E i \in DOMAIN signals : signals[i].approved
Refused  == \E i \in DOMAIN signals : ~signals[i].approved

\* Draft d is what a draft worker has answered.
Drafted(d) == \E k \in DraftKeys : task[k] = "done" /\ answer[k] = d

\* The draft of a graph state is on record, and so is the decision it acts on.
Backed(g) ==
    /\ g.draft \in Drafts => Drafted(g.draft)
    /\ \/ g.node \in {"decide_approval", "prepare_approval", "await_approval"}
       \/ g.node = "execute" /\ g.status \in {"drafting", "awaiting_approval"}
       => g.draft \in Drafts
    /\ g.node = "execute" /\ g.status = "awaiting_approval" => Approved
    /\ g.node = "execute" /\ g.status = "rejected" => Refused
    /\ g.node = "end" => task["finalize"] = "done" /\ payload.status = g.status

\* What a resume value says is so.
Resumed ==
    LET v == proc["runner"].resume
        m == mem["runner"]
    IN
    /\ v = "result" => m.awaits # "none" /\ task[m.awaits] = "done"
    /\ v = "task_failed" => m.awaits # "none" /\ task[m.awaits] = "failed"
    /\ v = "approved" => Approved
    /\ v = "rejected" => Refused

\* A resolution rests on a draft that needs no approval or on an approval, and a
\* refund on an approval.
PayloadBacked ==
    /\ payload.status = "resolved" =>
           \/ Approved
           \/ \E d \in Drafts : Drafted(d) /\ ~NeedsApproval(d)
    /\ payload.status = "resolved" /\ payload.refund => Approved
    /\ payload.status = "rejected" => Refused

\* What graph states, the payload, the runner and the row say is on record.
BackedInv ==
    /\ Backed(cp) /\ \A p \in Procs : Backed(mem[p])
    /\ Resumed
    /\ PayloadBacked
    /\ \A k \in DraftKeys : task[k] = "done" => answer[k] \in Drafts

\* What is on record stays there.
LEMMA RecordsStay ==
  ASSUME TypeOK, Grows
  PROVE  /\ Approved => Approved'
         /\ Refused => Refused'
         /\ \A d : Drafted(d) => Drafted(d)'
         /\ \A g : Shape(g) /\ Backed(g) => Backed(g)'
<1>1. \A k \in DraftKeys : k \in TaskKeys
  BY DEF DraftKeys, TaskKeys, AgentKeys, AgentStages, Fallback
<1>2. Approved => Approved'
  BY DEF Approved, Grows
<1>3. Refused => Refused'
  BY DEF Refused, Grows
<1>4. \A d : Drafted(d) => Drafted(d)'
  BY <1>1 DEF Drafted, Grows
<1>5. ASSUME NEW g, Shape(g), Backed(g)
      PROVE  Backed(g)'
  <2>1. g.node = "end" =>
           task'["finalize"] = "done" /\ payload'.status = g.status
    <3>1. "finalize" \in TaskKeys /\ "none" \notin Terminal
      BY KeysAre DEF Terminal
    <3> QED BY <1>5, <3>1 DEF Backed, Shape, Grows
  <2> QED BY <1>2, <1>3, <1>4, <1>5, <2>1 DEF Backed
<1> QED BY <1>2, <1>3, <1>4, <1>5

\* A superstep leads to a state that is backed.
LEMMA MoveBacked ==
  ASSUME ShapeInv, BackedInv, Grows, NEW p \in Procs, NEW g \in GraphState,
         Moves(p, g)
  PROVE  Backed(g)'
<1> DEFINE m == mem[p]
           v == proc[p].resume
<1>0. /\ TypeOK /\ m \in GraphState /\ Shape(m) /\ Backed(m)
      /\ proc[p].pc = "invoking" /\ AwaitsDraft(p)
  BY Supersteps, ShapeAwaitsDraft
     DEF ShapeInv, BaseInv, TypeOK, GraphsShaped, BackedInv, Moves
<1>1. /\ v = "result" => m.awaits # "none" /\ task[m.awaits] = "done"
      /\ v = "approved" => Approved
      /\ v = "rejected" => Refused
      /\ v # "none" => m.parked > 0
  BY <1>0, ResumesParked DEF ShapeInv, BackedInv, Resumed
<1>2. /\ Approved => Approved'
      /\ Refused => Refused'
      /\ \A d : Drafted(d) => Drafted(d)'
      /\ "failed" \notin Drafts
  BY <1>0, RecordsStay, RunAssumption
<1>3. CASE DraftingMove(p, g)
  <2> DEFINE answers == /\ g.draft = answer[m.awaits]
                        /\ m.node = "await_draft" /\ v = "result"
  <2>1. g.draft \in {m.draft, "failed"} \/ answers
    BY <1>3 DEF DraftingMove, Enters, Parks, AwaitNode
  <2>2. g.draft \in Drafts => Drafted(g.draft)
    <3>1. CASE answers
      BY <1>0, <1>1, <3>1 DEF AwaitsDraft, Drafted
    <3> QED BY <1>0, <1>2, <2>1, <3>1 DEF Backed
  <2>3. \/ g.node \notin {"decide_approval", "prepare_approval",
                         "await_approval", "execute", "end"}
        \/ g.node = "execute" /\ g.status = "escalated"
        \/ g.node = "decide_approval" /\ answers
    BY <1>3 DEF DraftingMove, Enters, Parks, AwaitNode, AgentStages
  <2>4. g.node = "decide_approval" => g.draft \in Drafts
    BY <1>0, <1>1, <2>3 DEF AwaitsDraft, BackedInv
  <2> QED BY <1>2, <2>2, <2>3, <2>4 DEF Backed
<1>4. CASE DecidingMove(p, g)
  <2>1. g.draft = m.draft
    BY <1>4 DEF DecidingMove, Enters, Parks
  <2>2. CASE m.node \in
                {"decide_approval", "prepare_approval", "await_approval"}
    <3>1. /\ g.node \in {"prepare_approval", "await_approval", "execute"}
          /\ g.node = "execute" =>
                \/ g.status = "drafting" \/ g.status = "escalated"
                \/ g.status = "rejected" /\ v = "rejected"
                \/ g.status = "awaiting_approval" /\ v = "approved"
      BY <1>0, <1>4, <2>2 DEF DecidingMove, Enters, Parks, Shape
    <3> QED BY <1>0, <1>1, <1>2, <2>1, <2>2, <3>1 DEF Backed
  <2>3. CASE m.node = "execute"
    <3>1. /\ EnqueueFinalize(p)
          /\ \/ g.node = "execute" /\ g.status = m.status
             \/ g.node = "end" /\ g.status = payload.status /\ v = "result"
      BY <1>4, <2>3 DEF DecidingMove, Enters, Parks
    <3>2. CASE g.node = "execute" /\ g.status = m.status
      BY <1>0, <1>2, <2>1, <2>3, <3>2 DEF Backed
    <3>3. CASE g.node = "end" /\ g.status = payload.status /\ v = "result"
      <4>1. task["finalize"] = "done"
        BY <1>0, <1>1, <2>3, <3>3 DEF Shape
      <4>2. payload' = payload /\ task'["finalize"] = "done"
        BY <4>1, KeysAre DEF ShapeInv, BaseInv, PayloadKnown, PayloadHeld, Grows
      <4> QED BY <1>0, <1>2, <2>1, <3>3, <4>2 DEF Backed
    <3> QED BY <3>1, <3>2, <3>3
  <2> QED BY <1>4, <2>2, <2>3 DEF DecidingMove
<1> QED BY <1>3, <1>4 DEF Moves

\* What becomes of the runner in a step.
RunnerStays == /\ proc'["runner"] = proc["runner"]
               /\ mem'["runner"] = mem["runner"]
RunnerRests == /\ proc'["runner"].pc \notin {"invoking", "returning"}
               /\ proc'["runner"].resume = "none"
               /\ proc'["runner"].signal = 0
RunnerResumes == /\ Look /\ cp.parked > 0 /\ ResumeValue # "none"
                 /\ proc'["runner"].pc = "invoking"
                 /\ proc'["runner"].resume = ResumeValue
                 /\ proc'["runner"].signal =
                       IF ResumeValue \in {"approved", "rejected"}
                         THEN CHOOSE i \in Unconsumed : TRUE ELSE 0
                 /\ mem'["runner"] = cp
RunnerMoves == \E g \in GraphState : Moves("runner", g) /\ mem'["runner"] = g

\* There is no other way for the runner.
LEMMA RunnerOrigins ==
  ASSUME BaseInv, [Next]_vars
  PROVE  RunnerStays \/ RunnerRests \/ RunnerResumes \/ RunnerMoves
<1>0. /\ TypeOK /\ "api" \in Procs /\ "runner" \in Procs
      /\ \A p \in Procs : \A g :
            /\ [mem EXCEPT ![p] = g][p] = g
            /\ \A q \in Procs \ {p} : [mem EXCEPT ![p] = g][q] = mem[q]
  BY DEF BaseInv, TypeOK, Procs
<1>1. ASSUME NEW p \in Procs, Superstep(p)
      PROVE  RunnerStays \/ RunnerRests \/ RunnerMoves
  <2>1. CASE Raises(p)
    <3>1. Becomes(p, "idle", "none", 0) /\ mem' = [mem EXCEPT ![p] = NoGraph]
      BY <1>0, <2>1, EndedProcess DEF Raises, Raise
    <3> QED BY <1>0, <3>1 DEF Becomes, RunnerStays, RunnerRests, Procs
  <2>2. CASE ~Raises(p)
    <3>1. PICK g \in GraphState : Moves(p, g)
      BY <1>0, <1>1, <2>2, Supersteps, ShapeAwaitsDraft DEF Moves
    <3>2. /\ mem' = [mem EXCEPT ![p] = g]
          /\ \A q \in Procs \ {p} : proc'[q] = proc[q]
      BY <3>1 DEF Moves, Stores
    <3> QED BY <1>0, <3>1, <3>2 DEF RunnerStays, RunnerMoves, Procs
  <2> QED BY <2>1, <2>2
<1>2. CASE CreateTicket
  BY <1>0, <1>2, RequestArrives DEF Becomes, RunnerStays
<1>3. CASE CreateRun
  <2>1. Becomes("api", "done", "none", 0)
    BY <1>0, <1>3, EndedProcess
  <2> QED BY <1>0, <1>3, <2>1 DEF CreateRun, Becomes, RunnerStays
<1>4. CASE Claim
  BY <1>0, <1>4, ClaimedProcess DEF Becomes, RunnerRests
<1>5. CASE Release \/ SaveRun
  <2>1. Becomes("runner", "idle", "none", 0)
    BY <1>0, <1>5, EndedProcess
  <2> QED BY <2>1 DEF Becomes, RunnerRests
<1>6. ASSUME NEW p \in Procs, Crash(p)
      PROVE  RunnerStays \/ RunnerRests
  <2>1. /\ Becomes(p, IF p = "api" THEN "done" ELSE "idle", "none", 0)
        /\ mem' = [mem EXCEPT ![p] = NoGraph]
    BY <1>0, <1>6, EndedProcess DEF Crash
  <2> QED BY <1>0, <2>1 DEF Becomes, RunnerStays, RunnerRests, Procs
<1>7. CASE Look
  <2>1. proc["runner"].resume = "none" /\ proc["runner"].signal = 0
    BY <1>7 DEF Look, BaseInv, RunnerShape, Active
  <2> QED BY <1>0, <1>7, <2>1, LookedUp
          DEF Becomes, RunnerRests, RunnerResumes
<1>8. CASE TableStep \/ UNCHANGED vars
  BY <1>0, <1>8, TableSteps DEF RunnerStays, vars, graph
<1> QED BY <1>1, <1>2, <1>3, <1>4, <1>5, <1>6, <1>7, <1>8 DEF Next, TableStep

\* The payload is written once, by a process whose graph is at execute.
LEMMA PayloadOrigins ==
  ASSUME ShapeInv, [Next]_vars, payload' # payload
  PROVE  \E p \in Procs :
            /\ Superstep(p) /\ mem[p].node = "execute"
            /\ payload.status = "none"
            /\ payload' = [status |-> FinalStatus(mem[p]),
                           refund |-> mem[p].draft = "refund"]
<1>1. PICK p \in Procs : Superstep(p)
  BY TableSteps
     DEF ShapeInv, BaseInv, Next, TableStep, CreateTicket, CreateRun, Claim,
         Look, Release, SaveRun, Crash, vars, queue
<1>2. mem[p].node = "execute" /\ EnqueueFinalize(p)
  <2>1. TypeOK /\ AwaitsDraft(p)
    BY ShapeAwaitsDraft DEF ShapeInv, BaseInv
  <2> QED BY <1>1, <2>1, Supersteps DEF Raises, DecidingMove
<1> QED BY <1>1, <1>2
           DEF EnqueueFinalize, ShapeInv, BaseInv, PayloadKnown, PayloadHeld

\* Only a worker completes a task.
LEMMA DoneOrigins ==
  ASSUME ShapeInv, [Next]_vars, NEW k \in TaskKeys, task'[k] # task[k],
         task'[k] \in {"done", "failed"}
  PROVE  \/ task[k] = "leased" /\ (CompleteTask(k) \/ FailTask(k))
         \/ \E s \in AgentStages : k = s /\ task'[k] = "failed"
<1>0. /\ TypeOK /\ task \in [TaskKeys -> TaskStatus] /\ "finalize" \in TaskKeys
      /\ \A s \in AgentStages : s \in TaskKeys /\ Fallback[s] \in TaskKeys
  BY KeysAre DEF ShapeInv, BaseInv, TypeOK, TaskStatus
<1>1. \A j \in TaskKeys : ~(Enqueued(task, j)[k] # task[k]
                            /\ Enqueued(task, j)[k] \in {"done", "failed"})
  BY <1>0, InsertedTasks
<1>2. ASSUME NEW s \in AgentStages, task' = Redispatched(s)
      PROVE  k = s /\ task'[k] = "failed"
  <2>1. task[s] = "pending"
    BY <1>0, <1>2, InsertedTasks
  <2>2. k # Fallback[s]
    BY <1>0, <1>2, <2>1, InsertedTasks
  <2>3. k = s
    BY <1>0, <1>2, <2>2, InsertedTasks
  <2> QED BY <1>0, <1>2, <2>1, <2>3, InsertedTasks
<1>3. ASSUME NEW p \in Procs, Superstep(p)
      PROVE  \E s \in AgentStages : k = s /\ task'[k] = "failed"
  <2>1. \/ UNCHANGED task
        \/ \E j \in AgentStages \cup {"finalize"} : task' = Enqueued(task, j)
        \/ \E s \in AgentStages : task' = Redispatched(s)
    BY <1>3 DEF Superstep, Start, Dispatch, AwaitAgent, AgentTimeout,
         AgentFailed, AgentAnswered, AgentRaises, DecideApproval,
         PrepareApproval, AwaitApproval, Decided, Execute, Finalized,
         FinalizeRaises, EnqueueFinalize, Rerun, queue
  <2> QED BY <1>0, <1>1, <1>2, <2>1
<1>4. ASSUME NEW j \in TaskKeys, Lease(j) \/ Requeue(j)
      PROVE  FALSE
  BY <1>0, <1>4 DEF Lease, Requeue
<1>5. ASSUME NEW j \in TaskKeys, CompleteTask(j) \/ FailTask(j)
      PROVE  j = k /\ task[k] = "leased"
  BY <1>0, <1>5 DEF CompleteTask, FailTask
<1>6. \/ \E p \in Procs : Superstep(p)
      \/ \E j \in TaskKeys :
            Lease(j) \/ Requeue(j) \/ CompleteTask(j) \/ FailTask(j)
  BY DEF Next, CreateTicket, CreateRun, Claim, Look, Release, SaveRun, Crash,
         SubmitApproval, RunLeaseExpires, ReclaimRuns, ReconcileRead,
         ReconcileInsert, Settle, WakeRun, WorkerDies, DeadlinePasses, vars,
         queue
<1> QED BY <1>3, <1>4, <1>5, <1>6

\* The strengthening is inductive.
LEMMA BackedInductive == ShapeInv /\ BackedInv /\ [Next]_vars => BackedInv'
<1> SUFFICES ASSUME ShapeInv, BackedInv, [Next]_vars PROVE BackedInv'
  OBVIOUS
<1>0. /\ TypeOK /\ Grows /\ TypeOK' /\ RunnerShape'
      /\ \A k \in DraftKeys :
            k \in TaskKeys /\ k \notin {"classify", "finalize"}
  BY StepsGrow, ShapeInductive
     DEF ShapeInv, BaseInv, DraftKeys, TaskKeys, AgentKeys, AgentStages,
         Fallback
<1>1. /\ Approved => Approved'
      /\ Refused => Refused'
      /\ \A d : Drafted(d) => Drafted(d)'
      /\ \A g : Shape(g) /\ Backed(g) => Backed(g)'
  BY <1>0, RecordsStay
<1>2. \A g \in Around : Shape(g) /\ Backed(g)
  <2>1. \A g \in {NoGraph, StartGraph} : Shape(g) /\ Backed(g)
    BY RunAssumption DEF NoGraph, StartGraph, Shape, Quiet, Backed
  <2> QED BY <2>1 DEF Around, ShapeInv, BaseInv, GraphsShaped, BackedInv
<1>3. Backed(cp)' /\ \A p \in Procs : Backed(mem[p])'
  <2>1. CASE /\ cp' \in Around
             /\ \A q \in Procs : mem'[q] \in Around
    <3>1. \A g \in Around : Backed(g)'
      BY <1>1, <1>2
    <3> QED BY <2>1, <3>1 DEF Backed, Approved, Refused, Drafted
  <2>2. ASSUME NEW p \in Procs, NEW g \in GraphState, Moves(p, g),
               mem'[p] = g, cp' \in {cp, g},
               \A q \in Procs \ {p} : mem'[q] = mem[q]
        PROVE  Backed(cp)' /\ \A q \in Procs : Backed(mem[q])'
    <3>1. Backed(g)'
      BY <1>0, <2>2, MoveBacked
    <3>2. \A h \in {cp} \cup {mem[q] : q \in Procs} : Backed(h)'
      BY <1>1, <1>2 DEF Around
    <3> QED BY <2>2, <3>1, <3>2 DEF Backed, Approved, Refused, Drafted
  <2> QED BY <2>1, <2>2, GraphOrigins DEF ShapeInv
<1>4. Resumed'
  <2>1. CASE RunnerStays
    <3>1. \A k \in TaskKeys :
             task[k] \in {"done", "failed"} => task'[k] = task[k]
      BY <1>0 DEF Grows
    <3>2. mem["runner"].awaits \in TaskKeys \cup {"none"}
      BY <1>0 DEF TypeOK, GraphState, Procs
    <3> QED BY <1>1, <2>1, <3>1, <3>2 DEF RunnerStays, BackedInv, Resumed
  <2>2. CASE RunnerRests
    BY <2>2 DEF RunnerRests, Resumed
  <2>3. CASE RunnerMoves
    BY <2>3 DEF RunnerMoves, Moves, Stores, Resumed
  <2>4. CASE RunnerResumes
    <3>1. UNCHANGED <<task, signals>>
      BY <2>4 DEF RunnerResumes, Look, queue, tables
    <3>2. /\ ResumeValue = "result" =>
                cp.awaits # "none" /\ task[cp.awaits] = "done"
          /\ ResumeValue = "task_failed" =>
                cp.awaits # "none" /\ task[cp.awaits] = "failed"
      BY DEF ResumeValue
    <3>3. /\ ResumeValue = "approved" => Approved
          /\ ResumeValue = "rejected" => Refused
      BY DEF ResumeValue, Unconsumed, Approved, Refused
    <3> QED BY <1>1, <2>4, <3>1, <3>2, <3>3 DEF RunnerResumes, Resumed
  <2> QED BY <2>1, <2>2, <2>3, <2>4, RunnerOrigins DEF ShapeInv
<1>5. PayloadBacked'
  <2>1. CASE payload' = payload
    BY <1>1, <2>1 DEF BackedInv, PayloadBacked
  <2>2. CASE payload' # payload
    <3>1. PICK p \in Procs :
            /\ mem[p].node = "execute"
            /\ payload' = [status |-> FinalStatus(mem[p]),
                           refund |-> mem[p].draft = "refund"]
      BY <2>2, PayloadOrigins
    <3>2. /\ Shape(mem[p]) /\ Backed(mem[p])
          /\ payload'.status = FinalStatus(mem[p])
          /\ payload'.refund = (mem[p].draft = "refund")
      BY <3>1 DEF ShapeInv, BaseInv, GraphsShaped, BackedInv
    <3>3. CASE mem[p].status = "drafting"
      <4>1. /\ ~NeedsApproval(mem[p].draft) /\ Drafted(mem[p].draft)
            /\ mem[p].draft \in Drafts /\ payload'.status = "resolved"
            /\ ~payload'.refund
        BY <3>1, <3>2, <3>3 DEF Shape, Backed, FinalStatus, NeedsApproval
      <4> QED BY <1>1, <4>1 DEF PayloadBacked
    <3>4. CASE mem[p].status = "awaiting_approval"
      BY <1>1, <3>1, <3>2, <3>4 DEF Backed, FinalStatus, PayloadBacked
    <3>5. CASE mem[p].status \in {"rejected", "escalated"}
      BY <1>1, <3>1, <3>2, <3>5 DEF Backed, FinalStatus, PayloadBacked
    <3> QED BY <3>1, <3>2, <3>3, <3>4, <3>5 DEF Shape
  <2> QED BY <2>1, <2>2
<1>6. \A k \in DraftKeys : task'[k] = "done" => answer'[k] \in Drafts
  <2> SUFFICES ASSUME NEW k \in DraftKeys, task'[k] = "done"
               PROVE  answer'[k] \in Drafts
    OBVIOUS
  <2>1. CASE task[k] = "done"
    BY <1>0, <2>1 DEF BackedInv, Grows
  <2>2. CASE task[k] # "done"
    <3>1. CompleteTask(k) \/ FailTask(k)
      BY <1>0, <2>2, DoneOrigins
    <3>2. CompleteTask(k)
      BY <1>0, <3>1 DEF FailTask, TypeOK
    <3> QED BY <3>2 DEF CompleteTask
  <2> QED BY <2>1, <2>2
<1> QED BY <1>3, <1>4, <1>5, <1>6 DEF BackedInv

\* What a graph state rests on is on record, in every behaviour.
THEOREM RecordsHold == Spec => []BackedInv
<1>1. Init => BackedInv
  <2>1. \A k \in DraftKeys : k \in TaskKeys
    BY DEF DraftKeys, TaskKeys, AgentKeys, AgentStages, Fallback
  <2>2. "runner" \in Procs /\ "none" \notin Drafts
    BY RunAssumption DEF Procs
  <2> QED BY <2>1, <2>2
          DEF Init, BackedInv, Backed, NoGraph, IdleProc, Resumed, PayloadBacked
<1> QED BY <1>1, BackedInductive, GraphShaped, PTL DEF Spec

\* Money is paid only after a human has approved (RefundNeedsApproval): the
\* terminal task is enqueued from a state whose draft and decision are on
\* record, whoever has resumed the graph and how often.
THEOREM ApprovedRefunds == Spec => []RefundNeedsApproval
<1>1. BackedInv => RefundNeedsApproval
  BY DEF BackedInv, PayloadBacked, Approved, RefundNeedsApproval
<1> QED BY <1>1, RecordsHold, PTL

-----------------------------------------------------------------------------
(* The order of the checkpoint and the graphs that run *)

\* The order of the nodes.
Pos == [none |-> 0, start |-> 1, dispatch_classify |-> 2, await_classify |-> 3,
        dispatch_draft |-> 4, await_draft |-> 5, decide_approval |-> 6,
        prepare_approval |-> 7, await_approval |-> 8, execute |-> 9, end |-> 10]

\* TicketLife's Stage, for a graph without a status as well.
StageOf == [none |-> 0, absent |-> 0, received |-> 1, classifying |-> 2,
            drafting |-> 3, awaiting_approval |-> 4, rejected |-> 5,
            escalated |-> 5, resolved |-> 6]

\* Graph state h is g, or one that the workflow reaches from it.
AtOrBefore(g, h) ==
    /\ StageOf[g.status] <= StageOf[h.status]
    /\ \/ Pos[g.node] < Pos[h.node]
       \/ /\ g.node = h.node /\ g.status = h.status /\ g.draft = h.draft
          /\ g.parked < h.parked \/ (g.parked = h.parked /\ g.awaits = h.awaits)

\* What the runner works on starts from the checkpoint, which catches up with
\* it.
RunnerAhead ==
    Active =>
        /\ AtOrBefore(cp, mem["runner"])
        /\ proc["runner"].synced \/ proc["runner"].resume # "none" =>
               cp = mem["runner"]

\* create_ticket still has something to write.
Writing == \/ proc["api"].pc = "invoking"
           \/ proc["api"].pc = "returning" /\ ~proc["api"].synced

\* As long as it has, nobody else works on the graph.
ApiAhead ==
    /\ Writing =>
          /\ ~Active
          /\ cp.parked = 0 /\ cp.node \in Early
          /\ AtOrBefore(cp, mem["api"])
          /\ proc["api"].synced => cp = mem["api"]
    /\ proc["api"].pc = "idle" => cp.node = "none" /\ run.status = "absent"
    /\ proc["api"].pc = "returning" => Writing \/ Pos[cp.node] >= 3

\* The run row follows the checkpoint, whoever inserts it.
RowBehind ==
    /\ run.status = "absent" => cp.node \in Early /\ proc["runner"].pc = "idle"
    /\ proc["runner"].pc \in {"claimed", "releasing"} =>
           proc["runner"].status = run.status
    /\ StageOf[run.status] <= StageOf[cp.status]
    /\ seen.status \in {"absent", "received", "classifying"}
    /\ StageOf[seen.status] <= StageOf[cp.status]

\* Checkpoint, copies and row follow each other in this order.
OrderInv == RunnerAhead /\ ApiAhead /\ RowBehind

\* Positions and stages are numbers, and the order is a preorder.
LEMMA OrderFacts ==
  /\ \A g \in GraphState :
        /\ Pos[g.node] \in 0..10 /\ StageOf[g.status] \in 0..6
        /\ AtOrBefore(g, g)
  /\ \A g, h, k \in GraphState :
        AtOrBefore(g, h) /\ AtOrBefore(h, k) => AtOrBefore(g, k)
<1>1. \A g \in GraphState : Pos[g.node] \in 0..10 /\ g.parked \in 0..2
  BY DEF GraphState, Nodes, Pos
<1>2. \A g \in GraphState : StageOf[g.status] \in 0..6
  BY DEF GraphState, Statuses, Terminal, StageOf
<1>3. \A g \in GraphState : AtOrBefore(g, g)
  BY <1>1, <1>2 DEF AtOrBefore
<1>4. ASSUME NEW g \in GraphState, NEW h \in GraphState, NEW k \in GraphState,
             AtOrBefore(g, h), AtOrBefore(h, k)
      PROVE  AtOrBefore(g, k)
  <2>1. StageOf[g.status] <= StageOf[k.status]
    BY <1>2, <1>4 DEF AtOrBefore
  <2> DEFINE Same(a, b) ==
        /\ a.node = b.node /\ a.status = b.status /\ a.draft = b.draft
        /\ a.parked < b.parked \/ (a.parked = b.parked /\ a.awaits = b.awaits)
  <2>2. /\ Pos[g.node] < Pos[h.node] \/ Same(g, h)
        /\ Pos[h.node] < Pos[k.node] \/ Same(h, k)
    BY <1>4 DEF AtOrBefore
  <2>3. Pos[g.node] < Pos[k.node] \/ Same(g, k)
    BY <1>1, <2>2
  <2> QED BY <2>1, <2>3 DEF AtOrBefore
<1> QED BY <1>1, <1>2, <1>3, <1>4

\* A superstep takes the graph forward.
LEMMA MoveForward ==
  ASSUME BaseInv, NEW p \in Procs, NEW g \in GraphState, Moves(p, g)
  PROVE  AtOrBefore(mem[p], g)
<1> DEFINE m == mem[p]
<1>0. /\ TypeOK /\ m \in GraphState /\ Shape(m) /\ FinalizeKnown(m)
      /\ PayloadKnown
      /\ proc[p].pc = "invoking" /\ AwaitsDraft(p)
  BY Supersteps, ShapeAwaitsDraft
     DEF BaseInv, TypeOK, GraphsShaped, Moves
<1>1. proc[p].resume # "none" => m.parked > 0
  BY <1>0, ResumesParked
<1>2. StageOf[m.status] \in 0..6
  BY <1>0, OrderFacts
<1>3. CASE \E n \in {1, 2} : \E k : Parks(m, g, n, k) /\ m.parked < n
  BY <1>2, <1>3 DEF Parks, AtOrBefore
<1>4. CASE DraftingMove(p, g)
  <2>1. CASE m.node = "start"
    BY <1>0, <1>4, <2>1
       DEF DraftingMove, Enters, AwaitNode, AgentStages, AtOrBefore, Pos,
           StageOf, Shape
  <2>2. CASE m.node \in {"dispatch_classify", "dispatch_draft"}
    BY <1>0, <1>4, <2>2
       DEF DraftingMove, Enters, AwaitNode, AgentStages, AtOrBefore, Pos,
           StageOf, Shape
  <2>3. CASE m.node \in {"await_classify", "await_draft"}
    <3>1. \/ \E n \in {1, 2} : \E k : Parks(m, g, n, k) /\ m.parked < n
          \/ g.node = "execute" /\ g.status = "escalated"
          \/ /\ m.node = "await_classify"
             /\ g.node = "dispatch_draft" /\ g.status = "classifying"
          \/ /\ m.node = "await_draft"
             /\ g.node = "decide_approval" /\ g.status = "drafting"
      <4>1. 0 < 1 /\ 1 < 2
        OBVIOUS
      <4>2. PICK s \in AgentStages :
              /\ m.node = AwaitNode(s)
              /\ \/ m.parked = 0 /\ Parks(m, g, 1, s)
                 \/ m.parked = 1 /\ Parks(m, g, 2, RedispatchKey(s))
                 \/ Enters(g, "execute", "escalated", "failed")
                 \/ /\ s = "classify"
                    /\ Enters(g, "dispatch_draft", "classifying", m.draft)
                 \/ /\ s = "draft"
                    /\ Enters(g, "decide_approval", "drafting",
                              answer[m.awaits])
        BY <1>4, <2>3 DEF DraftingMove
      <4>3. CASE m.parked = 0 /\ Parks(m, g, 1, s)
        BY <4>1, <4>3
      <4>4. CASE m.parked = 1 /\ Parks(m, g, 2, RedispatchKey(s))
        BY <4>1, <4>4
      <4> QED BY <4>2, <4>3, <4>4 DEF Enters, AwaitNode
    <3>2. m.status = IF m.node = "await_classify" THEN "classifying"
                                                  ELSE "drafting"
      BY <1>0, <2>3 DEF Shape
    <3> QED BY <1>3, <2>3, <3>1, <3>2 DEF AtOrBefore, Pos, StageOf
  <2> QED BY <1>4, <2>1, <2>2, <2>3 DEF DraftingMove, AwaitNode
<1>5. CASE DecidingMove(p, g)
  <2>1. CASE m.node \in {"decide_approval", "prepare_approval"}
    <3>1. /\ m.status = "drafting"
          /\ \/ /\ m.node = "decide_approval" /\ g.status = "drafting"
                /\ g.node \in {"prepare_approval", "execute"}
             \/ /\ m.node = "prepare_approval"
                /\ g.status = "awaiting_approval" /\ g.node = "await_approval"
      BY <1>0, <1>5, <2>1 DEF DecidingMove, Enters, Shape
    <3> QED BY <3>1 DEF AtOrBefore, Pos, StageOf
  <2>2. CASE m.node = "await_approval"
    <3>1. /\ m.status = "awaiting_approval"
          /\ \/ m.parked = 0 /\ Parks(m, g, 1, m.awaits)
             \/ /\ g.node = "execute"
                /\ g.status \in {"escalated", "rejected", "awaiting_approval"}
      BY <1>0, <1>5, <2>2 DEF DecidingMove, Enters, Shape
    <3>2. 0 < 1
      OBVIOUS
    <3>3. CASE m.parked = 0 /\ Parks(m, g, 1, m.awaits)
      BY <1>3, <3>2, <3>3
    <3> QED BY <2>2, <3>1, <3>3 DEF AtOrBefore, Pos, StageOf
  <2>3. CASE m.node = "execute"
    <3>1. \/ m.parked = 0 /\ Parks(m, g, 1, "finalize")
          \/ /\ proc[p].resume = "result"
             /\ g.node = "end" /\ g.status = payload.status
      BY <1>5, <2>3 DEF DecidingMove, Enters
    <3>2. 0 < 1
      OBVIOUS
    <3>3. CASE m.parked = 0 /\ Parks(m, g, 1, "finalize")
      BY <1>3, <3>2, <3>3
    <3>4. CASE /\ proc[p].resume = "result"
               /\ g.node = "end" /\ g.status = payload.status
      <4>1. payload.status \in Terminal
        BY <1>0, <1>1, <2>3, <3>4
           DEF FinalizeKnown, PayloadKnown, TypeOK
      <4>2. m.status \in {"drafting", "awaiting_approval", "rejected",
                          "escalated"}
        BY <1>0, <2>3 DEF Shape
      <4> QED BY <2>3, <3>4, <4>1, <4>2 DEF AtOrBefore, Pos, StageOf, Terminal
    <3> QED BY <3>1, <3>3, <3>4
  <2> QED BY <1>5, <2>1, <2>2, <2>3 DEF DecidingMove
<1> QED BY <1>4, <1>5 DEF Moves

\* The stored checkpoint never goes back.
LEMMA CheckpointForward ==
  ASSUME ShapeInv, OrderInv, [Next]_vars
  PROVE  AtOrBefore(cp, cp')
<1>0. /\ TypeOK /\ cp \in GraphState
      /\ mem["api"] \in GraphState /\ mem["runner"] \in GraphState
      /\ Shape(cp)
  BY DEF ShapeInv, BaseInv, TypeOK, Procs, GraphsShaped
<1>1. ASSUME NEW p \in Procs, Superstep(p), cp' # cp
      PROVE  AtOrBefore(cp, cp')
  <2>1. PICK g \in GraphState : Moves(p, g) /\ cp' = g
    BY <1>0, <1>1, Supersteps, ShapeAwaitsDraft
       DEF ShapeInv, BaseInv, Moves, Raises, Raise, Stores
  <2>2. AtOrBefore(cp, mem[p])
    BY <1>0, <1>1, Supersteps, ShapeAwaitsDraft
       DEF ShapeInv, BaseInv, OrderInv, RunnerAhead, ApiAhead, Writing, Active,
           Procs
  <2>3. mem[p] \in GraphState
    BY <1>0 DEF Procs
  <2> QED BY <1>0, <2>1, <2>2, <2>3, MoveForward, OrderFacts DEF ShapeInv
<1>2. CASE CreateTicket
  <2>1. cp' \in {cp, StartGraph} /\ proc["api"].pc = "idle"
    BY <1>0, <1>2, RequestArrives DEF StartGraph, CreateTicket
  <2>2. cp.node = "none" /\ cp.status = "none"
    BY <1>0, <2>1 DEF OrderInv, ApiAhead, Shape
  <2>3. AtOrBefore(cp, StartGraph)
    BY <2>2 DEF AtOrBefore, StartGraph, NoGraph, Pos, StageOf
  <2> QED BY <1>0, <2>1, <2>3, OrderFacts
<1>3. CASE CreateRun
  BY <1>0, <1>3, OrderFacts
     DEF CreateRun, Flushed, OrderInv, ApiAhead, Writing
<1>4. CASE SaveRun
  BY <1>0, <1>4, OrderFacts
     DEF SaveRun, Flushed, OrderInv, RunnerAhead, Active
<1>5. CASE \/ TableStep \/ UNCHANGED vars \/ Claim \/ Look \/ Release
           \/ \E p \in Procs : Crash(p)
  <2>1. cp' = cp
    BY <1>0, <1>5, TableSteps DEF vars, graph, Claim, Look, Release, Crash
  <2> QED BY <1>0, <2>1, OrderFacts
<1> QED BY <1>0, <1>1, <1>2, <1>3, <1>4, <1>5, OrderFacts DEF Next, TableStep

\* The order survives the supersteps of the runner.
LEMMA RunnerStepOrdered ==
  ASSUME ShapeInv, OrderInv, Superstep("runner")
  PROVE  OrderInv'
<1>0. /\ TypeOK /\ ShapeInv' /\ AtOrBefore(cp, cp') /\ [Next]_vars
      /\ "api" \in Procs /\ "runner" \in Procs /\ "runner" # "api"
      /\ proc["runner"].pc = "invoking" /\ AwaitsDraft("runner")
  <2>1. [Next]_vars /\ "runner" \in Procs
    BY DEF Next, Procs
  <2> QED BY <2>1, CheckpointForward, ShapeInductive, Supersteps,
             ShapeAwaitsDraft
          DEF ShapeInv, BaseInv, Procs
<1>1. /\ Active /\ ~Writing /\ proc["api"].pc # "idle"
      /\ run.status # "absent" /\ AtOrBefore(cp, mem["runner"])
      /\ proc["runner"].pc \notin {"claimed", "releasing"}
  BY <1>0 DEF Active, OrderInv, RunnerAhead, ApiAhead, RowBehind
<1>2. /\ cp \in GraphState /\ cp' \in GraphState /\ mem["runner"] \in GraphState
      /\ run.status \in Statuses \cup {"absent"}
  BY <1>0 DEF ShapeInv, BaseInv, TypeOK
<1>3. UNCHANGED <<run, seen>> /\ proc'["api"] = proc["api"]
      /\ proc'["runner"].pc \in {"invoking", "returning", "idle"}
  <2>1. CASE Raises("runner")
    BY <1>0, <2>1, EndedProcess DEF Raises, Raise, Becomes, tables
  <2>2. CASE \E g \in GraphState : Stores("runner", g)
    BY <1>0, <2>2 DEF Stores, tables, rest
  <2> QED BY <1>0, <2>1, <2>2, Supersteps
<1>4. ApiAhead'
  <2>1. ~Writing'
    BY <1>1, <1>3 DEF Writing
  <2>2. proc["api"].pc = "returning" => Pos[cp'.node] >= 3
    <3>1. proc["api"].pc = "returning" => Pos[cp.node] >= 3
      BY <1>1 DEF OrderInv, ApiAhead
    <3> QED BY <1>0, <1>2, <3>1, OrderFacts DEF AtOrBefore
  <2> QED BY <1>1, <1>3, <2>1, <2>2 DEF ApiAhead
<1>5. RowBehind'
  <2>1. StageOf[run.status] \in 0..6 /\ StageOf[seen.status] \in 0..6
    BY <1>0 DEF TypeOK, Statuses, Terminal, StageOf
  <2>2. /\ StageOf[run.status] <= StageOf[cp'.status]
        /\ StageOf[seen.status] <= StageOf[cp'.status]
    BY <1>0, <1>2, <2>1, OrderFacts DEF OrderInv, RowBehind, AtOrBefore
  <2> QED BY <1>1, <1>3, <2>2 DEF OrderInv, RowBehind
<1>6. RunnerAhead'
  <2>1. CASE Raises("runner")
    <3>1. ~Active'
      BY <1>0, <2>1, EndedProcess DEF Raises, Becomes, Active
    <3> QED BY <3>1 DEF RunnerAhead
  <2>2. CASE ~Raises("runner")
    <3>1. PICK g \in GraphState : Moves("runner", g)
      BY <1>0, <2>2, Supersteps DEF Moves
    <3>2. /\ mem'["runner"] = g /\ proc'["runner"].resume = "none"
          /\ cp' = IF proc'["runner"].synced THEN g ELSE cp
      BY <1>0, <3>1 DEF Moves, Stores, TypeOK
    <3>3. AtOrBefore(cp, g) /\ AtOrBefore(g, g)
      BY <1>0, <1>1, <1>2, <3>1, MoveForward, OrderFacts DEF ShapeInv
    <3> QED BY <3>2, <3>3 DEF RunnerAhead
  <2> QED BY <2>1, <2>2
<1> QED BY <1>4, <1>5, <1>6 DEF OrderInv

\* ... and those of create_ticket.
LEMMA ApiStepOrdered ==
  ASSUME ShapeInv, OrderInv, Superstep("api")
  PROVE  OrderInv'
<1>0. /\ TypeOK /\ ShapeInv' /\ AtOrBefore(cp, cp') /\ [Next]_vars
      /\ "api" \in Procs /\ "runner" \in Procs /\ "runner" # "api"
      /\ proc["api"].pc = "invoking" /\ AwaitsDraft("api")
  <2>1. [Next]_vars /\ "api" \in Procs
    BY DEF Next, Procs
  <2> QED BY <2>1, CheckpointForward, ShapeInductive, Supersteps,
             ShapeAwaitsDraft
          DEF ShapeInv, BaseInv, Procs
<1>1. /\ ~Active /\ cp.parked = 0 /\ cp.node \in Early
      /\ AtOrBefore(cp, mem["api"]) /\ proc["api"].resume = "none"
  BY <1>0 DEF OrderInv, ApiAhead, Writing, ShapeInv, BaseInv, ApiShape
<1>2. /\ cp \in GraphState /\ cp' \in GraphState /\ mem["api"] \in GraphState
      /\ run.status \in Statuses \cup {"absent"}
  BY <1>0 DEF ShapeInv, BaseInv, TypeOK
<1>3. PICK g \in GraphState : Moves("api", g)
  BY <1>0, <1>1, Supersteps DEF Moves, Raises
<1>4. /\ mem'["api"] = g /\ proc'["runner"] = proc["runner"]
      /\ proc'["api"].pc = IF g.parked > 0 \/ g.node = "end" THEN "returning"
                                                            ELSE "invoking"
      /\ cp' = IF proc'["api"].synced THEN g ELSE cp
      /\ UNCHANGED <<run, seen>>
  BY <1>0, <1>3 DEF Moves, Stores, TypeOK, tables, rest
<1>5. AtOrBefore(cp, g) /\ AtOrBefore(g, g)
  BY <1>0, <1>1, <1>2, <1>3, MoveForward, OrderFacts DEF ShapeInv
<1>6. \/ proc'["api"].pc = "invoking" /\ g.node \in Early /\ g.parked = 0
      \/ proc'["api"].pc = "returning" /\ g.node = "await_classify"
  BY <1>0, <1>4 DEF ShapeInv, BaseInv, ApiShape, Early
<1>7. cp'.node \in Early
  BY <1>1, <1>4, <1>6 DEF Early
<1>8. ApiAhead'
  <2>1. Writing' => /\ ~Active' /\ cp'.parked = 0 /\ cp'.node \in Early
                    /\ AtOrBefore(cp', g)
                    /\ proc'["api"].synced => cp' = g
    BY <1>1, <1>4, <1>5, <1>6, <1>7 DEF Writing, Active
  <2>2. proc'["api"].pc = "returning" => Writing' \/ Pos[cp'.node] >= 3
    BY <1>4, <1>6 DEF Writing, Pos
  <2>3. proc'["api"].pc # "idle"
    BY <1>6
  <2> QED BY <1>4, <2>1, <2>2, <2>3 DEF ApiAhead
<1>9. RowBehind'
  <2>1. StageOf[run.status] \in 0..6 /\ StageOf[seen.status] \in 0..6
    BY <1>0 DEF TypeOK, Statuses, Terminal, StageOf
  <2>2. /\ StageOf[run.status] <= StageOf[cp'.status]
        /\ StageOf[seen.status] <= StageOf[cp'.status]
    BY <1>0, <1>2, <2>1, OrderFacts DEF OrderInv, RowBehind, AtOrBefore
  <2> QED BY <1>4, <1>7, <2>2 DEF OrderInv, RowBehind
<1>10. RunnerAhead'
  BY <1>1, <1>4 DEF RunnerAhead, Active
<1> QED BY <1>8, <1>9, <1>10 DEF OrderInv

\* The order survives what the handlers and the runner do outside ainvoke.
LEMMA ProcessOrdered ==
  ASSUME ShapeInv, OrderInv,
         \/ CreateTicket \/ CreateRun \/ Claim \/ Look \/ Release \/ SaveRun
         \/ \E p \in Procs : Crash(p)
  PROVE  OrderInv'
<1>0. /\ TypeOK /\ ShapeInv' /\ AtOrBefore(cp, cp') /\ [Next]_vars
      /\ "api" \in Procs /\ "runner" \in Procs /\ "runner" # "api"
  <2>1. [Next]_vars
    BY DEF Next
  <2> QED BY <2>1, CheckpointForward, ShapeInductive
             DEF ShapeInv, BaseInv, Procs
<1>1. /\ cp \in GraphState /\ cp' \in GraphState
      /\ run.status \in Statuses \cup {"absent"}
      /\ StageOf[run.status] \in 0..6 /\ StageOf[seen.status] \in 0..6
      /\ StageOf[cp.status] \in 0..6 /\ StageOf[cp'.status] \in 0..6
      /\ Pos[cp.node] \in 0..10 /\ Pos[cp'.node] \in 0..10
      /\ "absent" \notin Statuses
  BY <1>0, OrderFacts DEF ShapeInv, BaseInv, TypeOK, Statuses, Terminal, StageOf
<1>2. /\ StageOf[run.status] <= StageOf[cp'.status]
      /\ StageOf[seen.status] <= StageOf[cp'.status]
      /\ Pos[cp.node] <= Pos[cp'.node]
  BY <1>0, <1>1 DEF OrderInv, RowBehind, AtOrBefore
<1>3. Active => /\ ~Writing /\ run.status # "absent"
                /\ proc["api"].pc # "idle"
  BY DEF Active, OrderInv, ApiAhead, RowBehind
<1>4. CASE CreateTicket
  <2>1. /\ Becomes("api", "invoking", proc["api"].resume, proc["api"].signal)
        /\ mem'["api"] = StartGraph
        /\ cp' = IF proc'["api"].synced THEN StartGraph ELSE cp
        /\ proc["api"].pc = "idle" /\ UNCHANGED <<run, seen>>
    BY <1>0, <1>4, RequestArrives
       DEF StartGraph, CreateTicket, TypeOK, tables, rest
  <2>2. /\ cp.node = "none" /\ cp.parked = 0 /\ run.status = "absent"
        /\ proc["runner"].pc = "idle"
    BY <2>1
       DEF OrderInv, ApiAhead, RowBehind, ShapeInv, BaseInv, GraphsShaped,
           Shape,
                Quiet
  <2>3. StartGraph.node = "start" /\ StartGraph.parked = 0
    BY DEF StartGraph, NoGraph
  <2>4. AtOrBefore(cp', StartGraph)
    <3>1. StartGraph \in GraphState
      BY DEF StartGraph, NoGraph, GraphState, Wakeups
    <3>2. cp.status = "none"
      BY <2>2 DEF ShapeInv, BaseInv, GraphsShaped, Shape
    <3>3. AtOrBefore(cp, StartGraph)
      BY <2>2, <3>2 DEF AtOrBefore, StartGraph, NoGraph, Pos, StageOf
    <3> QED BY <2>1, <3>1, <3>3, OrderFacts
  <2>5. ApiAhead' /\ RunnerAhead'
    BY <1>0, <2>1, <2>2, <2>3, <2>4
       DEF ApiAhead, RunnerAhead, Writing, Active, Becomes, Early
  <2>6. RowBehind'
    BY <1>0, <1>2, <2>1, <2>2, <2>3 DEF OrderInv, RowBehind, Becomes, Early
  <2> QED BY <2>5, <2>6 DEF OrderInv
<1>5. CASE CreateRun
  <2>1. /\ Becomes("api", "done", "none", 0)
        /\ cp' = Flushed("api") /\ proc["api"].pc = "returning"
        /\ mem' = [mem EXCEPT !["api"] = NoGraph]
        /\ run' = InsertedRun(mem["api"].status, mem["api"].wakeup)
        /\ seen' = seen
    <3>1. Becomes("api", "done", "none", 0)
      BY <1>0, <1>5, EndedProcess
    <3> QED BY <1>5, <3>1 DEF CreateRun, rest
  <2>2. /\ mem'["runner"] = mem["runner"] /\ proc'["runner"] = proc["runner"]
        /\ proc'["api"].pc = "done"
    BY <1>0, <2>1 DEF Becomes, TypeOK
  <2>3. Active => cp' = cp
    BY <1>3, <2>1 DEF Flushed, Writing
  <2>4. RunnerAhead' /\ ApiAhead'
    BY <2>2, <2>3 DEF OrderInv, RunnerAhead, ApiAhead, Active, Writing
  <2>5. mem["api"].status = "classifying" /\ mem["api"].node = "await_classify"
    BY <2>1 DEF ShapeInv, BaseInv, ApiShape, GraphsShaped, Shape, Procs
  <2>6. /\ run'.status = IF run.status = "absent" THEN "classifying"
                                                  ELSE run.status
        /\ run'.status # "absent"
    BY <2>1, <2>5 DEF InsertedRun
  <2>7. 2 <= StageOf[cp'.status]
    <3>1. CASE Writing
      BY <2>1, <2>5, <3>1 DEF Writing, Flushed, StageOf
    <3>2. CASE ~Writing
      <4>1. cp' = cp /\ Pos[cp.node] >= 3
        BY <2>1, <3>2 DEF Writing, Flushed, OrderInv, ApiAhead
      <4>2. cp.node \in Nodes \cup {"end"}
            /\ cp.node # "dispatch_classify"
        BY <1>1, <4>1 DEF GraphState, Pos
      <4> QED BY <4>1, <4>2
                 DEF ShapeInv, BaseInv, GraphsShaped, Shape, Nodes, Terminal,
                                StageOf
    <3> QED BY <3>1, <3>2
  <2>8. proc["runner"].pc \in {"claimed", "releasing"} => run.status # "absent"
    BY DEF OrderInv, RowBehind
  <2>9. RowBehind'
    <3>1. StageOf[run'.status] <= StageOf[cp'.status]
      BY <1>2, <2>6, <2>7 DEF StageOf
    <3> QED BY <1>2, <2>1, <2>2, <2>6, <2>8, <3>1 DEF OrderInv, RowBehind
  <2> QED BY <2>4, <2>9 DEF OrderInv
<1>6. CASE SaveRun
  <2>1. /\ Becomes("runner", "idle", "none", 0) /\ Active
        /\ cp' = Flushed("runner")
        /\ run'.status = mem["runner"].status /\ UNCHANGED seen
    <3>1. Becomes("runner", "idle", "none", 0)
      BY <1>0, <1>6, EndedProcess
    <3> QED BY <1>6, <3>1 DEF SaveRun, rest, Active
  <2>2. proc'["api"] = proc["api"] /\ proc'["runner"].pc = "idle"
    BY <1>0, <2>1 DEF Becomes
  <2>3. ApiAhead' /\ RunnerAhead'
    BY <1>1, <1>2, <1>3, <2>1, <2>2
       DEF OrderInv, ApiAhead, RunnerAhead, Writing, Active
  <2>4. cp' = mem["runner"] /\ cp' \in GraphState
    BY <1>1, <2>1 DEF Flushed, OrderInv, RunnerAhead
  <2>5. run'.status # "absent"
    <3>1. mem["runner"].status \in Statuses \cup {"none"}
      BY <1>0 DEF TypeOK, GraphState
    <3> QED BY <1>1, <2>1, <3>1
  <2>6. RowBehind'
    BY <1>1, <1>2, <2>1, <2>2, <2>4, <2>5 DEF OrderInv, RowBehind
  <2> QED BY <2>3, <2>6 DEF OrderInv
<1>7. ASSUME NEW p \in Procs, Crash(p)
      PROVE  OrderInv'
  <2>1. /\ Becomes(p, IF p = "api" THEN "done" ELSE "idle", "none", 0)
        /\ mem' = [mem EXCEPT ![p] = NoGraph] /\ cp' = cp
        /\ UNCHANGED <<run, seen>> /\ proc[p].pc # "idle"
    BY <1>0, <1>7, EndedProcess DEF Crash, tables
  <2>2. \A q \in Procs \ {p} : mem'[q] = mem[q] /\ proc'[q] = proc[q]
    BY <1>0, <2>1 DEF Becomes, TypeOK
  <2>3. CASE p = "api"
    BY <1>0, <1>2, <2>1, <2>2, <2>3
       DEF OrderInv, RunnerAhead, ApiAhead, RowBehind, Active, Writing, Becomes
  <2>4. CASE p = "runner"
    BY <1>0, <1>2, <2>1, <2>2, <2>4
       DEF OrderInv, RunnerAhead, ApiAhead, RowBehind, Active, Writing, Becomes
  <2> QED BY <2>3, <2>4 DEF Procs
<1>8. CASE Claim \/ Release
  <2>1. /\ proc'["api"] = proc["api"] /\ UNCHANGED <<cp, mem, seen>>
        /\ run'.status = run.status /\ ~Active /\ ~Active'
        /\ run.status # "absent"
        /\ proc'["runner"].pc = "idle"
           \/ (proc'["runner"].pc = "claimed"
               /\ proc'["runner"].status = run.status)
    <3>1. CASE Claim
      <4>1. /\ proc'["api"] = proc["api"] /\ proc'["runner"].pc = "claimed"
            /\ proc'["runner"].status = run.status
        BY <1>0, <3>1, ClaimedProcess DEF Becomes
      <4>2. run'.status = run.status
        BY <1>0, <3>1 DEF Claim, TypeOK
      <4> QED BY <3>1, <4>1, <4>2 DEF Claim, Active, rest
    <3>2. CASE Release
      <4>1. proc'["api"] = proc["api"] /\ proc'["runner"].pc = "idle"
        BY <1>0, <3>2, EndedProcess DEF Becomes
      <4>2. run'.status = run.status /\ run.status # "absent"
        BY <3>2 DEF Release, OrderInv, RowBehind
      <4> QED BY <3>2, <4>1, <4>2 DEF Release, Active, rest
    <3> QED BY <1>8, <3>1, <3>2
  <2> QED BY <1>2, <2>1
          DEF OrderInv, RunnerAhead, ApiAhead, RowBehind, Writing
<1>9. CASE Look
  <2>1. /\ UNCHANGED <<cp, run, seen>> /\ proc["runner"].pc = "claimed"
        /\ proc'["api"] = proc["api"] /\ mem'["api"] = mem["api"]
        /\ \/ /\ cp.parked > 0 /\ mem'["runner"] = cp
              /\ proc'["runner"].pc = "invoking"
           \/ /\ proc'["runner"].pc = "releasing"
              /\ proc'["runner"].status = proc["runner"].status
    BY <1>0, <1>9, LookedUp DEF Look, Becomes, TypeOK, tables, rest
  <2>2. run.status # "absent" /\ ~Active /\ ~(0 > 0)
    BY <2>1 DEF OrderInv, RowBehind, Active
  <2>3. ApiAhead'
    BY <2>1, <2>2 DEF OrderInv, ApiAhead, Writing, Active
  <2>4. RunnerAhead'
    BY <1>1, <2>1, OrderFacts DEF RunnerAhead, Active
  <2>5. RowBehind'
    BY <1>2, <2>1, <2>2 DEF OrderInv, RowBehind
  <2> QED BY <2>3, <2>4, <2>5 DEF OrderInv
<1> QED BY <1>4, <1>5, <1>6, <1>7, <1>8, <1>9

\* What leaves the graph alone inserts a run row only where there is none.
LEMMA RowSteps ==
  ASSUME TypeOK, TableStep
  PROVE  /\ \/ run'.status = run.status
            \/ /\ ReconcileInsert
               /\ run.status = "absent" /\ run'.status = seen.status
         /\ \/ seen'.status \in {seen.status, "absent"}
            \/ /\ run.status = "absent" /\ cp.node \notin {"none", "start"}
               /\ seen'.status = cp.status
<1>1. CASE ReconcileRead
  BY <1>1 DEF ReconcileRead, tables, NoRun
<1>2. CASE ReconcileInsert
  BY <1>2 DEF ReconcileInsert, InsertedRun, NoRun
<1>3. CASE \/ RunLeaseExpires \/ ReclaimRuns
           \/ \E approved \in BOOLEAN : SubmitApproval(approved)
  BY <1>3 DEF RunLeaseExpires, ReclaimRuns, SubmitApproval, TypeOK, rest
<1>4. CASE \E k \in TaskKeys : WakeRun(k)
  BY <1>4 DEF WakeRun, TypeOK, rest
<1>5. CASE \/ \E k \in TaskKeys : Lease(k) \/ Requeue(k) \/ Settle(k)
                                  \/ WorkerDies(k)
           \/ \E t \in Timers : DeadlinePasses(t)
  BY <1>5 DEF Lease, Requeue, Settle, CompleteTask, FailTask, WorkerDies,
              DeadlinePasses, tables, rest
<1> QED BY <1>1, <1>2, <1>3, <1>4, <1>5 DEF TableStep

\* The order is inductive.
LEMMA OrderInductive == ShapeInv /\ OrderInv /\ [Next]_vars => OrderInv'
<1> SUFFICES ASSUME ShapeInv, OrderInv, [Next]_vars PROVE OrderInv'
  OBVIOUS
<1>1. CASE TableStep
  <2>1. TypeOK /\ UNCHANGED <<cp, mem, proc>> /\ cp \in GraphState
    BY <1>1, TableSteps DEF ShapeInv, BaseInv, TypeOK
  <2>2. /\ StageOf[cp.status] \in 0..6 /\ StageOf["absent"] = 0
        /\ StageOf[cp.status] <= StageOf[cp.status]
    BY <2>1, OrderFacts DEF StageOf
  <2>3. /\ \/ run'.status = run.status
           \/ run.status = "absent" /\ run'.status = seen.status
        /\ \/ seen'.status \in {seen.status, "absent"}
           \/ /\ run.status = "absent" /\ cp.node \notin {"none", "start"}
              /\ seen'.status = cp.status
    BY <1>1, <2>1, RowSteps
  <2>4. ApiAhead'
    <3>1. proc["api"].pc = "idle" => run'.status = "absent"
      <4>1. proc["api"].pc = "idle" => cp.status = "none"
        BY DEF OrderInv, ApiAhead, ShapeInv, BaseInv, GraphsShaped, Shape
      <4> QED BY <2>3, <4>1 DEF OrderInv, ApiAhead, RowBehind, StageOf
    <3> QED BY <2>1, <3>1 DEF OrderInv, ApiAhead, Writing, Active
  <2>5. RunnerAhead'
    BY <2>1 DEF OrderInv, RunnerAhead, Active
  <2>6. RowBehind'
    <3>1. seen'.status \in {"absent", "received", "classifying"}
      <4>1. run.status = "absent" /\ cp.node \notin {"none", "start"} =>
               cp.status \in {"received", "classifying"}
        BY DEF OrderInv, RowBehind, Early, ShapeInv, BaseInv, GraphsShaped,
               Shape
      <4> QED BY <2>3, <4>1 DEF OrderInv, RowBehind
    <3>2. StageOf[seen'.status] <= StageOf[cp.status]
      BY <2>2, <2>3 DEF OrderInv, RowBehind
    <3>3. StageOf[run'.status] <= StageOf[cp.status]
      BY <2>3 DEF OrderInv, RowBehind
    <3>4. /\ run'.status = "absent" => run.status = "absent"
          /\ run.status # "absent" => run'.status = run.status
      BY <2>3
    <3> QED BY <2>1, <3>1, <3>2, <3>3, <3>4 DEF OrderInv, RowBehind
  <2> QED BY <2>4, <2>5, <2>6 DEF OrderInv
<1>2. CASE UNCHANGED vars
  BY <1>2
     DEF vars, tables, graph, rest, OrderInv, RunnerAhead, ApiAhead, RowBehind,
         Writing, Active
<1>3. CASE \E p \in Procs : Superstep(p)
  BY <1>3, RunnerStepOrdered, ApiStepOrdered DEF Procs
<1> QED BY <1>1, <1>2, <1>3, ProcessOrdered DEF Next, TableStep

\* The order holds of every behaviour.
THEOREM OrderHolds == Spec => []OrderInv
<1>1. Init => OrderInv
  <2> SUFFICES ASSUME Init PROVE OrderInv
    OBVIOUS
  <2>1. /\ "api" \in Procs /\ "runner" \in Procs
        /\ IdleProc.pc = "idle"
    BY IdleRecord DEF Procs
  <2> QED BY <2>1
          DEF Init, OrderInv, RunnerAhead, ApiAhead, RowBehind, Active, Writing,
              NoGraph, NoRun, StageOf, Early
<1> QED BY <1>1, OrderInductive, GraphShaped, PTL DEF Spec

\* The stored checkpoint of a ticket never goes back, whoever crashes, resumes
\* an old one or catches up late: what ainvoke flushes is at or after what is
\* stored.
THEOREM CheckpointMonotone == Spec => [][AtOrBefore(cp, cp')]_vars
<1>1. ShapeInv /\ OrderInv /\ [Next]_vars => [AtOrBefore(cp, cp')]_vars
  BY CheckpointForward
<1> QED BY <1>1, GraphShaped, OrderHolds, PTL DEF Spec

-----------------------------------------------------------------------------
(* Resolved means finalized *)

\* A run row says resolved only when the terminal task is done.
LEMMA ResolvedKept ==
  ASSUME ShapeInv, BackedInv, OrderInv, ResolvedMeansFinalized, [Next]_vars
  PROVE  ResolvedMeansFinalized'
<1>0. /\ TypeOK /\ Grows /\ "finalize" \in TaskKeys /\ "runner" \in Procs
      /\ "api" \in Procs
  BY StepsGrow, KeysAre DEF ShapeInv, BaseInv, Procs
<1>1. ASSUME payload.status = "resolved", task["finalize"] = "done"
      PROVE  ResolvedMeansFinalized'
  BY <1>0, <1>1 DEF Grows, ResolvedMeansFinalized
<1>2. CASE run'.status = run.status
  BY <1>1, <1>2 DEF ResolvedMeansFinalized
<1>3. CASE SaveRun
  <2>1. run'.status = mem["runner"].status /\ Active
        /\ proc["runner"].pc = "returning"
    BY <1>3 DEF SaveRun, Active
  <2>2. CASE mem["runner"].status = "resolved"
    <3>1. /\ Shape(mem["runner"]) /\ Backed(mem["runner"])
          /\ mem["runner"] \in GraphState
      BY <1>0 DEF ShapeInv, BaseInv, GraphsShaped, BackedInv, TypeOK
    <3>2. mem["runner"].node = "end"
      BY <2>2, <3>1 DEF Shape, GraphState, Nodes
    <3>3. payload.status = "resolved" /\ task["finalize"] = "done"
      BY <2>2, <3>1, <3>2 DEF Backed
    <3> QED BY <1>1, <3>3
  <2> QED BY <2>1, <2>2 DEF ResolvedMeansFinalized
<1>4. CASE CreateRun
  <2>1. mem["api"].status = "classifying"
    BY <1>0, <1>4
       DEF CreateRun, ShapeInv, BaseInv, ApiShape, GraphsShaped, Shape
  <2>2. run'.status \in {run.status, "classifying"}
    BY <1>4, <2>1 DEF CreateRun, InsertedRun
  <2> QED BY <1>2, <2>2 DEF ResolvedMeansFinalized
<1>5. CASE TableStep
  <2>1. run'.status \in {run.status, seen.status}
    BY <1>0, <1>5, RowSteps
  <2>2. seen.status # "resolved"
    BY DEF OrderInv, RowBehind
  <2> QED BY <1>2, <2>1, <2>2 DEF ResolvedMeansFinalized
<1>6. CASE \/ UNCHANGED vars \/ CreateTicket \/ Claim \/ Look \/ Release
           \/ \E p \in Procs : Superstep(p) \/ Crash(p)
  <2>1. ASSUME NEW p \in Procs, Superstep(p)
        PROVE  UNCHANGED run
    BY <2>1, Supersteps, ShapeAwaitsDraft
       DEF ShapeInv, BaseInv, Stores, Raises, tables
  <2>2. Release => run'.status = run.status
    BY DEF Release, OrderInv, RowBehind
  <2>3. Claim => run'.status = run.status
    BY <1>0 DEF Claim, TypeOK
  <2> QED BY <1>2, <1>6, <2>1, <2>2, <2>3
          DEF vars, tables, CreateTicket, Look, Crash
<1> QED BY <1>3, <1>4, <1>5, <1>6 DEF Next, TableStep

\* The projection says resolved only when the terminal task is done and was
\* enqueued to resolve the ticket (ResolvedMeansFinalized), whoever wrote the
\* row: save_run, create_run, the reconciler or a release.
THEOREM ResolvedIsFinal == Spec => []ResolvedMeansFinalized
<1>1. Init => ResolvedMeansFinalized
  BY DEF Init, NoRun, ResolvedMeansFinalized
<1>2. /\ ShapeInv /\ BackedInv /\ OrderInv
      /\ ResolvedMeansFinalized /\ [Next]_vars
      => ResolvedMeansFinalized'
  BY ResolvedKept
<1> QED BY <1>1, <1>2, GraphShaped, OrderHolds, RecordsHold, PTL DEF Spec

-----------------------------------------------------------------------------
(* Decisions *)

\* The draft is through: nobody will resume the graph with a failure of it.
DraftOver ==
    \/ Pos[cp.node] >= 6
    \/ /\ cp.node = "await_draft" /\ cp.awaits # "none"
       /\ task[cp.awaits] = "done"

\* A graph that is not going to resolve the ticket.
Refuses(g) == g.node = "execute" /\ g.status \in {"rejected", "escalated"}

\* A decision the runner has looked up: it is carried out, unless the ticket was
\* escalated before.
Carries(i) ==
    LET m == mem["runner"]
        v == proc["runner"].resume
    IN
    /\ Active /\ i \in Unconsumed
    /\ \/ /\ m.node = "await_approval"
          /\ v = IF signals[i].approved THEN "approved" ELSE "rejected"
       \/ m.node = "execute" /\ v = "none" /\ FinalStatus(m) = Wanted(i)
    /\ payload.status \in {"none", "escalated", Wanted(i)}

\* The decisions of a ticket are carried out one at a time, and none is
\* contradicted.
DecisionInv ==
    /\ \A i, j \in Unconsumed : i = j
    /\ \A i \in DOMAIN signals :
          signals[i].consumed => cp.node \in {"execute", "end"}
    /\ payload.status = "resolved" =>
          /\ DraftOver
          /\ ~Refuses(cp) /\ ~Refuses(mem["runner"])
    /\ /\ Active /\ Pos[mem["runner"].node] >= 6
       /\ mem["runner"].status # "escalated"
       => DraftOver
    /\ proc["runner"].signal # 0 => Carries(proc["runner"].signal)
    /\ proc["runner"].resume \in {"approved", "rejected"} =>
          proc["runner"].signal # 0
    /\ (/\ proc["runner"].resume = "timeout"
        /\ mem["runner"].node = "await_approval")
       => payload.status \in {"none", "escalated"}
    /\ DecisionNotReversed

\* What has been proved so far, and stays so in every step.
LifeInv == ShapeInv /\ AwaitInv /\ ExclusiveDispatch /\ BackedInv /\ OrderInv

\* It is inductive, and gives the order of the two checkpoints of a step.
LEMMA LifeInductive ==
  ASSUME LifeInv, [Next]_vars
  PROVE  LifeInv' /\ Grows /\ AtOrBefore(cp, cp')
BY ShapeInductive, AwaitInductive, DispatchKept, BackedInductive,
   OrderInductive, StepsGrow, CheckpointForward
   DEF LifeInv

\* It holds of every behaviour.
LEMMA LifeHolds == Spec => []LifeInv
<1>1. Init => AwaitInv
  BY DEF Init, AwaitInv, Awaited, NoGraph, AwaitNode, AgentStages
<1>2. Spec => []AwaitInv
  BY <1>1, AwaitInductive, GraphShaped, PTL DEF Spec
<1>3. ShapeInv /\ AwaitInv /\ ExclusiveDispatch /\ BackedInv /\ OrderInv
      => LifeInv
  BY DEF LifeInv
<1> QED BY <1>2, <1>3, GraphShaped, NoDoubleDispatch, RecordsHold, OrderHolds,
           PTL

\* There is one draft: the throttled worker and the fallback worker never both
\* complete.
LEMMA OneDraft ==
  ASSUME LifeInv, NEW d, NEW e, Drafted(d), Drafted(e)
  PROVE  d = e
BY KeysAre DEF Drafted, DraftKeys, LifeInv, ExclusiveDispatch, AgentStages

\* A draft that is through stays so: the checkpoint only goes forward, and what
\* it waits for at await_draft is not replaced once it is done.
LEMMA DraftOverStays ==
  ASSUME LifeInv, [Next]_vars, DraftOver
  PROVE  DraftOver'
<1>0. /\ LifeInv' /\ Grows /\ AtOrBefore(cp, cp')
      /\ cp \in GraphState /\ cp' \in GraphState /\ Shape(cp) /\ Shape(cp)'
  BY LifeInductive DEF LifeInv, ShapeInv, BaseInv, TypeOK, GraphsShaped
<1>1. Pos[cp.node] \in 0..10 /\ Pos[cp'.node] \in 0..10
  BY <1>0, OrderFacts
<1>2. CASE Pos[cp.node] >= 6
  BY <1>0, <1>1, <1>2 DEF AtOrBefore, DraftOver
<1>3. CASE /\ cp.node = "await_draft" /\ cp.awaits # "none"
           /\ task[cp.awaits] = "done"
  <2>1. /\ "draft" \in TaskKeys /\ Fallback["draft"] = "draft:fallback"
        /\ "draft" \in AgentStages /\ AwaitNode("draft") = "await_draft"
        /\ cp.awaits \in TaskKeys
    BY <1>0, <1>3, KeysAre DEF AgentStages, AwaitNode, GraphState
  <2>2. CASE Pos[cp.node] < Pos[cp'.node]
    BY <1>1, <1>3, <2>2 DEF Pos, DraftOver
  <2>3. CASE cp'.node = cp.node /\ cp'.awaits = cp.awaits
    BY <1>0, <1>3, <2>1, <2>3 DEF Grows, DraftOver
  <2>4. CASE cp'.node = cp.node /\ cp.parked < cp'.parked
    <3>1. Waits(cp, "draft") /\ Waits(cp', "draft")
      BY <1>0, <1>3, <2>4 DEF Shape
    <3>2. cp.parked \in 0..2 /\ cp'.parked \in 0..2
      BY <1>0 DEF GraphState
    <3>3. cp.parked = 1 /\ cp.awaits = "draft"
      BY <1>3, <2>4, <3>1, <3>2 DEF Waits
    <3>4. task'["draft"] = "done"
      BY <1>0, <1>3, <2>1, <3>3 DEF Grows
    <3>5. cp'.awaits \in {"draft", "draft:fallback"}
      BY <2>1, <2>4, <3>1, <3>2 DEF Waits
    <3>6. cp'.awaits # "draft:fallback"
      BY <1>0, <2>1, <3>4
         DEF LifeInv, AwaitInv, Awaited, ExclusiveDispatch
    <3> QED BY <1>3, <2>4, <3>4, <3>5, <3>6 DEF DraftOver
  <2> QED BY <1>0, <2>2, <2>3, <2>4 DEF AtOrBefore
<1> QED BY <1>2, <1>3 DEF DraftOver

\* The payload is written by a runner that has just come to execute.
LEMMA PayloadWritten ==
  ASSUME LifeInv, [Next]_vars, payload' # payload
  PROVE  \E g \in GraphState :
            /\ Moves("runner", g) /\ mem'["runner"] = g
            /\ mem["runner"].node = "execute"
            /\ g.node = "execute" /\ g.status = mem["runner"].status
            /\ proc["runner"].pc = "invoking"
            /\ proc["runner"].resume = "none"
            /\ proc'["runner"].pc = "returning"
            /\ payload.status = "none"
            /\ payload'.status = FinalStatus(mem["runner"])
<1>1. PICK p \in Procs :
        /\ Superstep(p) /\ mem[p].node = "execute"
        /\ payload.status = "none"
        /\ payload' = [status |-> FinalStatus(mem[p]),
                       refund |-> mem[p].draft = "refund"]
  BY PayloadOrigins DEF LifeInv
<1>2. /\ TypeOK /\ AwaitsDraft(p) /\ proc[p].pc = "invoking"
      /\ p \in {"api", "runner"}
  BY <1>1, ShapeAwaitsDraft, Supersteps DEF LifeInv, ShapeInv, BaseInv, Procs
<1>3. p = "runner"
  BY <1>1, <1>2 DEF LifeInv, ShapeInv, BaseInv, ApiShape, Early
<1>4. mem[p].parked = 0
  <2>1. ~(mem[p].parked > 0) /\ mem[p].parked \in 0..2
    BY <1>1
       DEF LifeInv, ShapeInv, BaseInv, GraphsShaped, FinalizeKnown,
           PayloadKnown, PayloadHeld,
                TypeOK, GraphState
  <2> QED BY <2>1
<1>5. proc[p].resume = "none"
  BY <1>2, <1>3, <1>4 DEF LifeInv, ShapeInv, BaseInv, RunnerShape
<1>6. PICK g \in GraphState : Moves(p, g)
  BY <1>1, <1>2, <1>5, Supersteps DEF Moves, Raises
<1>7. g.node = "execute" /\ g.status = mem[p].status /\ g.parked = 1
  BY <1>1, <1>5, <1>6
     DEF Moves, DraftingMove, DecidingMove, Parks, AwaitNode, AgentStages
<1>8. /\ mem'[p] = g
      /\ proc'[p].pc = IF g.parked > 0 \/ g.node = "end" THEN "returning"
                                                        ELSE "invoking"
  BY <1>2, <1>6 DEF Moves, Stores, TypeOK
<1>9. 1 > 0
  OBVIOUS
<1> QED BY <1>1, <1>2, <1>3, <1>5, <1>6, <1>7, <1>8, <1>9

\* As long as the graph stands at the approval gate, no decision has been
\* consumed, and an outcome that is none of an escalation is the outcome of one
\* that is still there.
LEMMA ApprovalGate ==
  ASSUME LifeInv, DecisionInv, cp.node = "await_approval"
  PROVE  /\ Unconsumed = DOMAIN signals
         /\ payload.status = "resolved" =>
               \E i \in Unconsumed : signals[i].approved
         /\ payload.status = "rejected" =>
               \E i \in Unconsumed : ~signals[i].approved
<1>1. Unconsumed = DOMAIN signals
  BY DEF DecisionInv, Unconsumed
<1>2. cp.draft \in Drafts /\ Drafted(cp.draft) /\ NeedsApproval(cp.draft)
  BY DEF LifeInv, BackedInv, Backed, ShapeInv, BaseInv, GraphsShaped, Shape
<1>3. payload.status = "resolved" => Approved
  BY <1>2, OneDraft DEF LifeInv, BackedInv, PayloadBacked
<1>4. payload.status = "rejected" => Refused
  BY DEF LifeInv, BackedInv, PayloadBacked
<1> QED BY <1>1, <1>3, <1>4 DEF Approved, Refused

\* Only submit_approval and save_run write to pending_signal.
LEMMA SignalWriters ==
  ASSUME BaseInv, [Next]_vars
  PROVE  \/ UNCHANGED signals
         \/ SaveRun
         \/ \E approved \in BOOLEAN : SubmitApproval(approved)
<1>1. ASSUME NEW p \in Procs, Superstep(p)
      PROVE  UNCHANGED signals
  BY <1>1, Supersteps, ShapeAwaitsDraft DEF BaseInv, Stores, Raises, tables
<1> QED BY <1>1
     DEF Next, CreateTicket, CreateRun, Claim, Look, Release, Crash,
         RunLeaseExpires, ReclaimRuns, ReconcileRead, ReconcileInsert, Lease,
         Requeue, Settle, CompleteTask, FailTask, WakeRun, WorkerDies,
         DeadlinePasses, vars, tables

\* Decisions are submitted one at a time, and consumed only by the save_run of
\* the runner that has looked them up.
LEMMA SignalOrigins ==
  ASSUME LifeInv, DecisionInv, [Next]_vars
  PROVE  /\ \A i \in Unconsumed :
               \/ i \in Unconsumed' /\ signals'[i] = signals[i]
               \/ SaveRun /\ proc["runner"].signal = i
         /\ \A i, j \in Unconsumed' : i = j
         /\ \A i \in DOMAIN signals' :
               signals'[i].consumed =>
                  /\ i \in DOMAIN signals
                  /\ signals'[i].approved = signals[i].approved
                  /\ \/ signals[i].consumed
                     \/ SaveRun /\ proc["runner"].signal = i /\ i # 0
<1>0. /\ TypeOK /\ DOMAIN signals = 1..Len(signals) /\ Len(signals) \in Nat
      /\ \A i \in DOMAIN signals : signals[i] \in Signal
      /\ \A i, j \in Unconsumed : i = j
  BY SignalSteps DEF LifeInv, ShapeInv, BaseInv, DecisionInv
<1>1. CASE UNCHANGED signals
  BY <1>0, <1>1 DEF Unconsumed
<1>2. ASSUME NEW approved \in BOOLEAN, SubmitApproval(approved)
      PROVE  /\ \A i \in Unconsumed :
                   i \in Unconsumed' /\ signals'[i] = signals[i]
             /\ \A i, j \in Unconsumed' : i = j
             /\ \A i \in DOMAIN signals' :
                   signals'[i].consumed =>
                      /\ i \in DOMAIN signals
                      /\ signals'[i] = signals[i]
  <2> DEFINE n == Len(signals) + 1
  <2>1. /\ DOMAIN signals' = DOMAIN signals \cup {n} /\ n \notin DOMAIN signals
        /\ \A i \in DOMAIN signals : signals'[i] = signals[i]
        /\ signals'[n] = [approved |-> approved, consumed |-> FALSE]
    BY <1>0, <1>2, SignalSteps
  <2>2. Unconsumed = {}
    BY <1>2 DEF SubmitApproval
  <2>3. ~signals'[n].consumed
    BY <2>1
  <2> HIDE DEF n
  <2>4. \A i \in DOMAIN signals : signals[i].consumed
    BY <2>2 DEF Unconsumed
  <2>5. Unconsumed' = {n}
    BY <2>1, <2>3, <2>4 DEF Unconsumed
  <2> QED BY <2>1, <2>2, <2>3, <2>5
<1>3. CASE SaveRun
  <2>1. /\ DOMAIN signals' = DOMAIN signals
        /\ \A i \in DOMAIN signals :
              /\ signals'[i].approved = signals[i].approved
              /\ signals'[i].consumed =
                    (i = proc["runner"].signal \/ signals[i].consumed)
              /\ signals'[i] \in Signal
    <3>1. /\ signals' \in Seq(Signal) /\ Len(signals') = Len(signals)
          /\ DOMAIN signals' = DOMAIN signals
          /\ \A i \in DOMAIN signals :
                /\ signals'[i].approved = signals[i].approved
                /\ signals'[i].consumed =
                      (i = proc["runner"].signal \/ signals[i].consumed)
      BY <1>0, <1>3, SignalSteps
    <3>2. \A i \in 1..Len(signals') : signals'[i] \in Signal
      BY <3>1, ElementOfSeq
    <3> QED BY <1>0, <3>1, <3>2
  <2>2. \A i \in DOMAIN signals : i # 0
    BY <1>0
  <2>3. \A i \in Unconsumed : i # proc["runner"].signal =>
                                 signals'[i] = signals[i]
    BY <1>0, <2>1 DEF Unconsumed, Signal
  <2>4. Unconsumed' \subseteq Unconsumed
    BY <2>1 DEF Unconsumed
  <2>5. \A i \in Unconsumed : i # proc["runner"].signal => i \in Unconsumed'
    BY <2>1 DEF Unconsumed
  <2> QED BY <1>0, <1>3, <2>1, <2>2, <2>3, <2>4, <2>5
<1> QED BY <1>1, <1>2, <1>3, SignalWriters DEF LifeInv, ShapeInv

\* A process that is about to return holds a decision only at execute.
LEMMA ReturnsDecided ==
  ASSUME LifeInv, DecisionInv, proc["runner"].pc = "returning",
         proc["runner"].signal # 0
  PROVE  LET m == mem["runner"]
             i == proc["runner"].signal
         IN  /\ m.node = "execute" /\ m.parked > 0
             /\ payload.status \in {Wanted(i), "escalated"}
<1>1. Carries(proc["runner"].signal) /\ proc["runner"].resume = "none"
  BY DEF DecisionInv, LifeInv, ShapeInv, BaseInv, RunnerShape
<1>2. mem["runner"].node = "execute"
  BY <1>1 DEF Carries
<1>3. mem["runner"].parked > 0
  BY <1>2 DEF LifeInv, ShapeInv, BaseInv, RunnerShape
<1>4. payload.status # "none"
  BY <1>2, <1>3 DEF LifeInv, ShapeInv, BaseInv, GraphsShaped, FinalizeKnown,
                    PayloadKnown, PayloadHeld, Procs
<1> QED BY <1>1, <1>2, <1>3, <1>4 DEF Carries

\* Consumed decisions: the checkpoint has passed the gate, and the outcome is
\* theirs.
LEMMA ConsumedKept ==
  ASSUME LifeInv, DecisionInv, [Next]_vars, NEW i \in DOMAIN signals',
         signals'[i].consumed
  PROVE  /\ cp'.node \in {"execute", "end"}
         /\ payload'.status \in {Wanted(i)', "escalated"}
<1>0. /\ LifeInv' /\ Grows /\ AtOrBefore(cp, cp') /\ TypeOK
      /\ cp \in GraphState /\ cp' \in GraphState
  BY LifeInductive DEF LifeInv, ShapeInv, BaseInv, TypeOK
<1>1. /\ i \in DOMAIN signals /\ Wanted(i)' = Wanted(i)
      /\ signals[i].consumed \/ (SaveRun /\ proc["runner"].signal = i /\ i # 0)
  BY SignalOrigins DEF Wanted
<1>2. CASE signals[i].consumed
  <2>1. /\ cp.node \in {"execute", "end"}
        /\ payload.status \in {Wanted(i), "escalated"}
    BY <1>1, <1>2 DEF DecisionInv, DecisionNotReversed
  <2>2. payload' = payload
    BY <1>0, <2>1 DEF Wanted, Grows
  <2>3. cp'.node \in {"execute", "end"}
    BY <1>0, <2>1 DEF AtOrBefore, Pos, GraphState, Nodes
  <2> QED BY <1>1, <2>1, <2>2, <2>3
<1>3. CASE SaveRun /\ proc["runner"].signal = i /\ i # 0
  <2>1. /\ proc["runner"].pc = "returning" /\ payload' = payload
        /\ cp' = Flushed("runner") /\ Active
    BY <1>3 DEF SaveRun, queue, Active
  <2>2. /\ mem["runner"].node = "execute"
        /\ payload.status \in {Wanted(i), "escalated"}
    BY <1>3, <2>1, ReturnsDecided
  <2>3. cp' = mem["runner"]
    BY <2>1 DEF Flushed, LifeInv, OrderInv, RunnerAhead
  <2> QED BY <1>1, <2>1, <2>2, <2>3
<1> QED BY <1>1, <1>2, <1>3

\* What is known of the runner at a superstep: a resume value is still fresh
\* from the checkpoint.
LEMMA RunnerAt ==
  ASSUME LifeInv, NEW g \in GraphState, Moves("runner", g)
  PROVE  LET m == mem["runner"]
             v == proc["runner"].resume
         IN  /\ m \in GraphState /\ Shape(m) /\ Active
             /\ proc["runner"].pc = "invoking"
             /\ v # "none" => m.parked > 0 /\ cp = m
             /\ v = "none" => m.parked = 0
             /\ v = "result" => m.awaits # "none" /\ task[m.awaits] = "done"
             /\ v = "task_failed" =>
                   m.awaits # "none" /\ task[m.awaits] = "failed"
<1>1. TypeOK /\ "runner" \in Procs /\ AwaitsDraft("runner")
  BY ShapeAwaitsDraft DEF LifeInv, ShapeInv, BaseInv, Procs
<1>2. proc["runner"].pc = "invoking"
  BY <1>1, Supersteps DEF Moves
<1>3. /\ mem["runner"] \in GraphState /\ Shape(mem["runner"])
      /\ proc["runner"].resume # "none" => mem["runner"].parked > 0
      /\ proc["runner"].resume = "none" => mem["runner"].parked = 0
  BY <1>1, <1>2, ResumesParked
     DEF LifeInv, ShapeInv, BaseInv, TypeOK, GraphsShaped, RunnerShape
<1>4. Active /\ (proc["runner"].resume # "none" => cp = mem["runner"])
  BY <1>2 DEF Active, LifeInv, OrderInv, RunnerAhead
<1> QED BY <1>2, <1>3, <1>4 DEF LifeInv, BackedInv, Resumed

\* When the ticket is to be resolved, no superstep turns the graph away from it.
LEMMA NoRefusal ==
  ASSUME LifeInv, DecisionInv, NEW p \in Procs, NEW g \in GraphState,
         Moves(p, g), payload.status = "resolved"
  PROVE  ~Refuses(g)
<1> SUFFICES ASSUME Refuses(g) PROVE FALSE
  OBVIOUS
<1> DEFINE m == mem[p]
           v == proc[p].resume
<1>1. CASE p = "api"
  <2>1. m.node \in Early /\ v = "none"
    BY <1>1 DEF LifeInv, ShapeInv, BaseInv, ApiShape, Early
  <2> QED BY <2>1 DEF Moves, DraftingMove, DecidingMove, Enters, Parks, Early,
                      Refuses
<1>2. CASE p = "runner"
  <2>0. /\ m \in GraphState /\ Shape(m)
        /\ v # "none" => cp = m
        /\ v = "task_failed" => m.awaits # "none" /\ task[m.awaits] = "failed"
        /\ DraftOver /\ ~Refuses(m)
    BY <1>2, RunnerAt DEF DecisionInv
  <2>1. CASE DraftingMove(p, g)
    <3>1. v = "task_failed" /\ m.node \in {"await_classify", "await_draft"}
      BY <2>1 DEF DraftingMove, Enters, Parks, AwaitNode, Refuses, AgentStages
    <3> QED BY <2>0, <3>1 DEF DraftOver, Pos
  <2>2. CASE DecidingMove(p, g)
    <3>1. m.node = "await_approval" /\ v \in {"timeout", "rejected"}
      BY <2>0, <2>2 DEF DecidingMove, Enters, Parks, Refuses, Shape
    <3>2. v = "rejected"
      BY <1>2, <3>1 DEF DecisionInv
    <3>3. Carries(proc["runner"].signal)
      BY <1>2, <3>2 DEF DecisionInv
    <3>4. Wanted(proc["runner"].signal) = "rejected"
      BY <1>2, <3>1, <3>2, <3>3 DEF Carries, Wanted
    <3> QED BY <3>3, <3>4 DEF Carries
  <2> QED BY <2>1, <2>2 DEF Moves
<1> QED BY <1>1, <1>2 DEF Procs

\* A resolution is not refused later.
LEMMA ResolutionStands ==
  ASSUME LifeInv, DecisionInv, [Next]_vars, payload'.status = "resolved"
  PROVE  DraftOver' /\ ~Refuses(cp') /\ ~Refuses(mem'["runner"])
<1>0. "runner" \in Procs /\ "api" \in Procs
  BY DEF Procs
<1>1. CASE payload' = payload
  <2>1. DraftOver' /\ ~Refuses(cp) /\ ~Refuses(mem["runner"])
    BY <1>1, DraftOverStays DEF DecisionInv
  <2>2. ~Refuses(NoGraph) /\ ~Refuses(StartGraph) /\ ~Refuses(mem["api"])
    BY DEF Refuses, NoGraph, StartGraph, LifeInv, ShapeInv, BaseInv, ApiShape,
           Early
  <2>3. \A g \in Around : ~Refuses(g)
    BY <2>1, <2>2 DEF Around, Procs
  <2>4. CASE /\ cp' \in Around
             /\ \A q \in Procs : mem'[q] \in Around
    BY <1>0, <2>1, <2>3, <2>4
  <2>5. ASSUME NEW p \in Procs, NEW g \in GraphState, Moves(p, g),
               mem'[p] = g, cp' \in {cp, g},
               \A q \in Procs \ {p} : mem'[q] = mem[q]
        PROVE  ~Refuses(cp') /\ ~Refuses(mem'["runner"])
    <3>1. ~Refuses(g)
      BY <1>1, <2>5, NoRefusal
    <3> QED BY <1>0, <2>1, <2>5, <3>1
  <2> QED BY <2>1, <2>4, <2>5, GraphOrigins DEF LifeInv, ShapeInv
<1>2. CASE payload' # payload
  <2>1. PICK g \in GraphState :
          /\ Moves("runner", g) /\ mem'["runner"] = g
          /\ mem["runner"].node = "execute"
          /\ g.node = "execute" /\ g.status = mem["runner"].status
          /\ payload'.status = FinalStatus(mem["runner"])
    BY <1>2, PayloadWritten
  <2>2. mem["runner"].status \notin {"rejected", "escalated"}
    BY <2>1 DEF FinalStatus
  <2>3. Active
    BY <2>1, RunnerAt
  <2>4. 9 >= 6 /\ Pos["execute"] = 9
    BY DEF Pos
  <2>5. DraftOver'
    BY <2>1, <2>2, <2>3, <2>4, DraftOverStays DEF DecisionInv
  <2>6. cp' \in {cp, g}
    BY <2>1 DEF Moves, Stores
  <2>7. ~Refuses(cp)
    <3>1. cp.node = "execute" => cp.status = mem["runner"].status
      BY <2>1, <2>3, <2>4 DEF LifeInv, OrderInv, RunnerAhead, AtOrBefore
    <3> QED BY <2>2, <3>1 DEF Refuses
  <2> QED BY <2>1, <2>2, <2>5, <2>6, <2>7 DEF Refuses
<1> QED BY <1>1, <1>2

\* A runner whose graph is past the draft, and not by escalation, started from a
\* checkpoint that is.
LEMMA PastDraft ==
  ASSUME LifeInv, DecisionInv, [Next]_vars, Active',
         Pos[mem'["runner"].node] >= 6, mem'["runner"].status # "escalated"
  PROVE  DraftOver'
<1> DEFINE m == mem["runner"]
           v == proc["runner"].resume
<1>1. CASE RunnerStays
  BY <1>1, DraftOverStays DEF RunnerStays, DecisionInv, Active
<1>2. CASE RunnerRests
  BY <1>2 DEF RunnerRests, Active
<1>3. CASE RunnerResumes
  BY <1>3, DraftOverStays DEF RunnerResumes, DraftOver
<1>4. ASSUME NEW g \in GraphState, Moves("runner", g), mem'["runner"] = g
      PROVE  DraftOver'
  <2>0. /\ m \in GraphState /\ Shape(m) /\ Active
        /\ v # "none" => cp = m
        /\ v = "result" => m.awaits # "none" /\ task[m.awaits] = "done"
    BY <1>4, RunnerAt
  <2>1. CASE Pos[m.node] >= 6 /\ v # "none"
    BY <2>0, <2>1, DraftOverStays DEF DraftOver
  <2>2. CASE Pos[m.node] >= 6 /\ v = "none"
    <3>1. m.status # "escalated"
      BY <1>4, <2>0, <2>2
         DEF Moves, DraftingMove, DecidingMove, Enters, Parks, AwaitNode,
             AgentStages, Pos, Shape
    <3> QED BY <2>0, <2>2, <3>1, DraftOverStays DEF DecisionInv
  <2>3. CASE ~(Pos[m.node] >= 6)
    <3>1. DraftingMove("runner", g)
      BY <1>4, <2>3 DEF Moves, DecidingMove, Pos
    <3>2. m.node = "await_draft" /\ v = "result"
      BY <1>4, <2>3, <3>1
         DEF DraftingMove, Enters, Parks, AwaitNode, AgentStages, Pos
    <3> QED BY <2>0, <3>2, DraftOverStays DEF DraftOver
  <2> QED BY <2>1, <2>2, <2>3
<1> QED BY <1>1, <1>2, <1>3, <1>4, RunnerOrigins
        DEF LifeInv, ShapeInv, RunnerMoves

\* A decision the runner holds stays where it is while the runner goes on.
LEMMA HeldDecision ==
  ASSUME LifeInv, DecisionInv, [Next]_vars, proc["runner"].signal # 0,
         proc'["runner"].signal = proc["runner"].signal
  PROVE  LET i == proc["runner"].signal IN
         i \in Unconsumed' /\ signals'[i] = signals[i] /\ Wanted(i)' = Wanted(i)
<1> DEFINE i == proc["runner"].signal
<1>1. i \in Unconsumed
  BY DEF DecisionInv, Carries
<1>2. ~SaveRun
  <2>1. SaveRun => proc'["runner"].signal = 0
    BY EndedProcess DEF LifeInv, ShapeInv, BaseInv, Becomes, Procs
  <2> QED BY <2>1
<1>3. i \in Unconsumed' /\ signals'[i] = signals[i]
  BY <1>1, <1>2, SignalOrigins
<1> QED BY <1>3 DEF Wanted

\* A looked-up decision is carried out, in every step.
LEMMA DecisionCarried ==
  ASSUME LifeInv, DecisionInv, [Next]_vars
  PROVE  /\ proc'["runner"].signal # 0 => Carries(proc["runner"].signal)'
         /\ proc'["runner"].resume \in {"approved", "rejected"} =>
               proc'["runner"].signal # 0
         /\ proc'["runner"].resume = "timeout"
            /\ mem'["runner"].node = "await_approval" =>
               payload'.status \in {"none", "escalated"}
<1> DEFINE m == mem["runner"]
           v == proc["runner"].resume
           i == proc["runner"].signal
<1>0. /\ TypeOK /\ payload.status \in Terminal \cup {"none"}
      /\ DOMAIN signals = 1..Len(signals) /\ Len(signals) \in Nat
  BY SignalSteps DEF LifeInv, ShapeInv, BaseInv, TypeOK
<1>1. CASE RunnerStays
  <2>1. payload' = payload
    BY <1>1, PayloadWritten DEF RunnerStays
  <2>2. i # 0 => Carries(i)'
    <3>1. i # 0 => /\ i \in Unconsumed' /\ signals'[i] = signals[i]
                   /\ Wanted(i)' = Wanted(i)
      BY <1>1, HeldDecision DEF RunnerStays
    <3>2. i # 0 => Carries(i)
      BY DEF DecisionInv
    <3> QED BY <1>1, <2>1, <3>1, <3>2 DEF RunnerStays, Carries, Active
  <2> QED BY <1>1, <2>1, <2>2 DEF RunnerStays, DecisionInv
<1>2. CASE RunnerRests
  BY <1>2 DEF RunnerRests
<1>3. CASE RunnerResumes
  <2>1. UNCHANGED <<payload, signals>> /\ Active'
    BY <1>3 DEF RunnerResumes, Look, queue, tables, Active
  <2>2. CASE ResumeValue \in {"approved", "rejected"}
    <3>1. /\ cp.node = "await_approval" /\ Unconsumed # {}
          /\ ResumeValue = IF \E k \in Unconsumed : signals[k].approved
                             THEN "approved" ELSE "rejected"
      BY <2>2 DEF ResumeValue
    <3>2. PICK j \in Unconsumed : /\ j = CHOOSE k \in Unconsumed : TRUE
                                 /\ \A k \in Unconsumed : k = j
      BY <3>1 DEF DecisionInv
    <3>3. proc'["runner"].signal = j /\ proc'["runner"].resume = ResumeValue
          /\ mem'["runner"] = cp
      BY <1>3, <2>2, <3>2 DEF RunnerResumes
    <3>4. ResumeValue = IF signals[j].approved THEN "approved" ELSE "rejected"
      BY <3>1, <3>2
    <3>5. payload.status \in {"none", "escalated", Wanted(j)}
      BY <1>0, <3>1, <3>2, ApprovalGate DEF Wanted, Terminal
    <3>6. j # 0
      BY <1>0, <3>2 DEF Unconsumed
    <3>7. Unconsumed' = Unconsumed /\ Wanted(j)' = Wanted(j)
      BY <2>1 DEF Unconsumed, Wanted
    <3>8. Carries(j)'
      BY <2>1, <3>1, <3>2, <3>3, <3>4, <3>5, <3>7 DEF Carries
    <3> QED BY <3>3, <3>4, <3>6, <3>8
  <2>3. CASE ResumeValue \notin {"approved", "rejected"}
    <3>1. proc'["runner"].signal = 0 /\ proc'["runner"].resume = ResumeValue
          /\ mem'["runner"] = cp
      BY <1>3, <2>3 DEF RunnerResumes
    <3>2. cp.node = "await_approval" => Unconsumed = {}
      BY <2>3 DEF ResumeValue
    <3>3. cp.node = "await_approval" => payload.status \in {"none", "escalated"}
      BY <1>0, <3>2, ApprovalGate DEF Terminal
    <3> QED BY <2>1, <2>3, <3>1, <3>3
  <2> QED BY <2>2, <2>3
<1>4. ASSUME NEW g \in GraphState, Moves("runner", g), mem'["runner"] = g
      PROVE  /\ i # 0 => Carries(i)'
             /\ proc'["runner"].signal = i /\ proc'["runner"].resume = "none"
  <2>1. /\ proc'["runner"].signal = i /\ proc'["runner"].resume = "none"
        /\ proc'["runner"].pc \in {"invoking", "returning"}
    BY <1>4 DEF Moves, Stores
  <2>2. ASSUME i # 0
        PROVE  Carries(i)'
    <3>1. /\ i \in Unconsumed' /\ signals'[i] = signals[i]
          /\ Wanted(i)' = Wanted(i) /\ Carries(i)
      BY <2>1, <2>2, HeldDecision DEF DecisionInv
    <3>2. v = "none" => m.parked = 0
      BY <1>4, RunnerAt
    <3>3. Shape(m)
      BY <1>4, RunnerAt
    <3>4. CASE /\ m.node = "await_approval"
               /\ v = IF signals[i].approved THEN "approved" ELSE "rejected"
      <4>1. m.parked > 0 /\ ~(0 > 0)
        BY <1>4, <3>4, RunnerAt
      <4>2. /\ payload' = payload /\ g.node = "execute"
            /\ g.status = IF signals[i].approved THEN m.status ELSE "rejected"
        BY <1>4, <3>4, <4>1
           DEF Moves, DraftingMove, DecidingMove, Enters, Parks, AwaitNode,
               AgentStages
      <4>3. FinalStatus(g) = Wanted(i)
        BY <3>3, <3>4, <4>2 DEF FinalStatus, Wanted, Shape
      <4> QED BY <1>4, <2>1, <3>1, <4>2, <4>3 DEF Carries, Active, FinalStatus
    <3>5. CASE m.node = "execute" /\ v = "none" /\ FinalStatus(m) = Wanted(i)
      <4>1. /\ g.node = "execute"
            /\ g.status = m.status
            /\ EnqueueFinalize("runner")
        BY <1>4, <3>5
           DEF Moves, DraftingMove, DecidingMove, Enters, Parks, AwaitNode,
               AgentStages
      <4>2. payload'.status \in {payload.status, FinalStatus(m)}
        BY <4>1 DEF EnqueueFinalize
      <4>3. FinalStatus(g) = Wanted(i)
        BY <3>5, <4>1 DEF FinalStatus
      <4> QED BY <1>4, <2>1, <3>1, <3>5, <4>1, <4>2, <4>3
              DEF Carries, Active, FinalStatus
    <3> QED BY <3>1, <3>4, <3>5 DEF Carries
  <2> QED BY <2>1, <2>2
<1>5. CASE RunnerMoves
  BY <1>4, <1>5 DEF RunnerMoves
<1> QED BY <1>1, <1>2, <1>3, <1>5, RunnerOrigins DEF LifeInv, ShapeInv

\* The invariant of the decisions is inductive.
LEMMA DecisionInductive ==
  ASSUME LifeInv, DecisionInv, [Next]_vars
  PROVE  DecisionInv'
<1>1. \A i, j \in Unconsumed' : i = j
  BY SignalOrigins
<1>2. \A i \in DOMAIN signals' :
         signals'[i].consumed =>
            /\ cp'.node \in {"execute", "end"}
            /\ payload'.status \in {Wanted(i)', "escalated"}
  BY ConsumedKept
<1>3. payload'.status = "resolved" =>
         DraftOver' /\ ~Refuses(cp') /\ ~Refuses(mem'["runner"])
  BY ResolutionStands
<1>4. /\ Active' /\ Pos[mem'["runner"].node] >= 6
      /\ mem'["runner"].status # "escalated"
      => DraftOver'
  BY PastDraft
<1>5. /\ proc'["runner"].signal # 0 => Carries(proc["runner"].signal)'
      /\ proc'["runner"].resume \in {"approved", "rejected"} =>
            proc'["runner"].signal # 0
      /\ proc'["runner"].resume = "timeout"
         /\ mem'["runner"].node = "await_approval" =>
            payload'.status \in {"none", "escalated"}
  BY DecisionCarried
<1>6. /\ Refuses(cp)' = Refuses(cp')
      /\ Refuses(mem["runner"])' = Refuses(mem'["runner"])
  BY DEF Refuses
<1> QED BY <1>1, <1>2, <1>3, <1>4, <1>5, <1>6
        DEF DecisionInv, DecisionNotReversed

\* The decisions of a ticket are handled one at a time and in order, in every
\* behaviour.
THEOREM DecisionsHold == Spec => []DecisionInv
<1>1. Init => DecisionInv
  <2>1. IdleProc.pc = "idle" /\ IdleProc.resume = "none" /\ IdleProc.signal = 0
    BY IdleRecord
  <2>2. "runner" \in Procs
    BY DEF Procs
  <2> QED BY <2>1, <2>2
          DEF Init, DecisionInv, Unconsumed, Active, DecisionNotReversed
<1> QED BY <1>1, DecisionInductive, LifeHolds, PTL DEF Spec

\* A decision that save_run has consumed is never turned into the opposite one
\* (DecisionNotReversed): whoever resumes an old checkpoint at execute inserts
\* nothing, and whoever looks the decision up a second time carries out the same
\* one.
THEOREM DecisionsStand == Spec => []DecisionNotReversed
<1>1. DecisionInv => DecisionNotReversed
  BY DEF DecisionInv
<1> QED BY <1>1, DecisionsHold, PTL

-----------------------------------------------------------------------------
(* The workflow implements TicketLife *)

\* How a run row gets another status, and what that status says.
LEMMA RowOrigins ==
  ASSUME LifeInv, DecisionInv, [Next]_vars, run'.status # run.status
  PROVE  /\ SaveRun \/ CreateRun \/ ReconcileInsert
         /\ run'.status \in Statuses
         /\ StageOf[run.status] <= StageOf[run'.status]
         /\ run'.status \in {"rejected", "escalated"} =>
               payload.status \in {"rejected", "escalated"}
<1> DEFINE m == mem["runner"]
<1>0. /\ TypeOK /\ OrderInv /\ "runner" \in Procs /\ "api" \in Procs
      /\ cp \in GraphState /\ m \in GraphState
      /\ run.status \in Statuses \cup {"absent"}
  BY DEF LifeInv, ShapeInv, BaseInv, TypeOK, Procs
<1>1. StageOf[run.status] \in 0..6 /\ StageOf[cp.status] \in 0..6
  BY <1>0, OrderFacts DEF Statuses, Terminal, StageOf
<1>2. CASE SaveRun
  <2>1. /\ run'.status = m.status /\ Active /\ proc["runner"].pc = "returning"
    BY <1>2 DEF SaveRun, Active
  <2>2. Shape(m) /\ Backed(m) /\ FinalizeKnown(m) /\ AtOrBefore(cp, m)
    BY <1>0, <2>1
       DEF LifeInv, ShapeInv, BaseInv, GraphsShaped, BackedInv, OrderInv,
           RunnerAhead
  <2>3. m.parked > 0 \/ m.node = "end"
    BY <2>1 DEF LifeInv, ShapeInv, BaseInv, RunnerShape
  <2>4. StageOf[m.status] \in 0..6
    BY <1>0, OrderFacts
  <2>5. StageOf[run.status] <= StageOf[run'.status]
    BY <1>0, <1>1, <2>1, <2>2, <2>4 DEF OrderInv, RowBehind, AtOrBefore
  <2>6. m.status \in Statuses
    <3>1. m.node \notin {"none", "start"}
      BY <2>1 DEF LifeInv, ShapeInv, BaseInv, RunnerShape
    <3> QED BY <1>0, <2>2, <3>1 DEF Shape, GraphState, Nodes, Statuses, Terminal
  <2>7. m.status \in {"rejected", "escalated"} =>
           payload.status \in {"rejected", "escalated"}
    <3>1. m.status \in {"rejected", "escalated"} =>
             m.node \in {"execute", "end"}
      BY <1>0, <2>1, <2>2
         DEF Shape, GraphState, Nodes, LifeInv, ShapeInv, BaseInv,
                              RunnerShape
    <3>2. CASE m.node = "execute"
      <4>1. payload.status # "none"
        BY <2>2, <2>3, <3>2
           DEF FinalizeKnown, LifeInv, ShapeInv, BaseInv, PayloadKnown,
               PayloadHeld
      <4>2. payload.status = "resolved" => ~Refuses(m)
        BY DEF DecisionInv
      <4>3. payload.status \in Terminal \cup {"none"}
        BY <1>0 DEF TypeOK
      <4> QED BY <3>2, <4>1, <4>2, <4>3 DEF Refuses, Terminal
    <3>3. CASE m.node = "end"
      BY <2>2, <3>3 DEF Backed
    <3> QED BY <3>1, <3>2, <3>3
  <2> QED BY <1>2, <2>1, <2>5, <2>6, <2>7
<1>3. CASE CreateRun
  <2>1. mem["api"].status = "classifying"
    BY <1>0, <1>3
       DEF CreateRun, LifeInv, ShapeInv, BaseInv, ApiShape, GraphsShaped, Shape
  <2>2. run.status = "absent" /\ run'.status = "classifying"
    BY <1>3, <2>1 DEF CreateRun, InsertedRun
  <2> QED BY <1>3, <2>2 DEF Statuses, StageOf
<1>4. CASE TableStep
  <2>1. /\ ReconcileInsert
        /\ run.status = "absent" /\ run'.status = seen.status
    BY <1>0, <1>4, RowSteps
  <2>2. run'.status \in {"received", "classifying"}
    BY <1>0, <2>1 DEF OrderInv, RowBehind
  <2> QED BY <2>1, <2>2 DEF Statuses, StageOf
<1>5. SaveRun \/ CreateRun \/ TableStep
  <2>1. ASSUME NEW p \in Procs, Superstep(p)
        PROVE  UNCHANGED run
    BY <2>1, Supersteps, ShapeAwaitsDraft
       DEF LifeInv, ShapeInv, BaseInv, Stores, Raises, tables
  <2>2. Release => run'.status = run.status
    BY <1>0 DEF Release, OrderInv, RowBehind
  <2>3. Claim => run'.status = run.status
    BY <1>0 DEF Claim, TypeOK
  <2> QED BY <2>1, <2>2, <2>3
          DEF Next, TableStep, vars, tables, CreateTicket, Look, Crash
<1> QED BY <1>2, <1>3, <1>4, <1>5

\* What the ticket pays.
Pays == payload.status = "resolved" /\ payload.refund

\* What has become of its terminal task.
Effects == IF task["finalize"] \in {"done", "failed"} THEN task["finalize"]
           ELSE "none"

\* Of what TicketLife sees, a step changes one thing.
LEMMA OneAtATime ==
  ASSUME LifeInv, DecisionInv, [Next]_vars
  PROVE  /\ \/ UNCHANGED payload
            \/ UNCHANGED <<run, signals>> /\ Effects' = Effects
         /\ \/ Effects' = Effects
            \/ /\ UNCHANGED <<run, signals, payload>> /\ Effects = "none"
               /\ Effects' \in {"done", "failed"} /\ payload.status # "none"
         /\ \/ Approved' <=> Approved
            \/ /\ ~Approved /\ Approved'
               /\ UNCHANGED payload /\ run'.status = run.status
<1>0. /\ TypeOK /\ Grows /\ "finalize" \in TaskKeys /\ ShapeInv
      /\ task \in [TaskKeys -> TaskStatus]
  BY StepsGrow, KeysAre DEF LifeInv, ShapeInv, BaseInv, TypeOK, TaskStatus
<1>1. payload' # payload =>
         UNCHANGED <<run, signals>> /\ Effects' = Effects
  <2> SUFFICES ASSUME payload' # payload
               PROVE  UNCHANGED <<run, signals>> /\ Effects' = Effects
    OBVIOUS
  <2>1. PICK g \in GraphState :
               Moves("runner", g) /\ mem["runner"].node = "execute"
    BY PayloadWritten
  <2>2. task' = Enqueued(task, "finalize") /\ task["finalize"] = "absent"
    BY <2>1
       DEF Moves, DraftingMove, DecidingMove, EnqueueFinalize, AwaitNode
  <2>3. task'["finalize"] = "pending"
    BY <1>0, <2>2, InsertedTasks
  <2> QED BY <2>1, <2>2, <2>3 DEF Moves, Stores, tables, Effects
<1>2. Effects' # Effects =>
         /\ UNCHANGED <<run, signals, payload>> /\ Effects = "none"
         /\ Effects' \in {"done", "failed"} /\ payload.status # "none"
  <2> SUFFICES ASSUME Effects' # Effects
               PROVE  /\ UNCHANGED <<run, signals, payload>> /\ Effects = "none"
                      /\ Effects' \in {"done", "failed"}
                      /\ payload.status # "none"
    OBVIOUS
  <2>1. /\ task'["finalize"] # task["finalize"]
        /\ task["finalize"] \notin {"done", "failed"}
        /\ task'["finalize"] \in {"done", "failed"}
    BY <1>0 DEF Grows, Effects
  <2>2. /\ task["finalize"] = "leased"
        /\ CompleteTask("finalize") \/ FailTask("finalize")
    BY <1>0, <2>1, DoneOrigins DEF AgentStages
  <2>3. payload.status # "none"
    BY <1>0, <2>2 DEF ShapeInv, BaseInv, PayloadKnown, PayloadHeld
  <2> QED BY <2>1, <2>2, <2>3 DEF CompleteTask, FailTask, tables, Effects
<1>3. ~(Approved' <=> Approved) =>
         /\ ~Approved /\ Approved'
         /\ UNCHANGED payload /\ run'.status = run.status
  <2>1. Approved => Approved'
    BY <1>0, RecordsStay
  <2>2. CASE UNCHANGED signals
    BY <2>2 DEF Approved
  <2>3. CASE SaveRun
    BY <1>0, <2>3, SignalSteps DEF Approved
  <2>4. CASE \E approved \in BOOLEAN : SubmitApproval(approved)
    BY <1>0, <2>1, <2>4 DEF SubmitApproval, queue, TypeOK
  <2> QED BY <1>0, <2>2, <2>3, <2>4, SignalWriters DEF ShapeInv
<1> QED BY <1>1, <1>2, <1>3

\* A step of the workflow is one of TicketLife, or is not seen there.
LEMMA StepIsLifeStep ==
  ASSUME LifeInv, DecisionInv, ResolvedMeansFinalized', [Next]_vars
  PROVE  [Life!Next]_(Life!vars)
<1>0. /\ TypeOK /\ TypeOK' /\ LifeInv'
  BY LifeInductive DEF LifeInv, ShapeInv, BaseInv
<1> DEFINE same == payload' = payload /\ Effects' = Effects
                   /\ (Approved' <=> Approved)
<1>1. CASE payload' # payload
  <2>1. /\ UNCHANGED <<run, signals>> /\ Effects' = Effects
        /\ (Approved' <=> Approved)
    BY <1>1, OneAtATime
  <2>2. payload.status = "none" /\ payload'.status \in Terminal
    BY <1>1, PayloadWritten DEF FinalStatus, Terminal
  <2>3. Pays' => payload'.status = "resolved" /\ Approved'
    BY <1>0 DEF Pays, LifeInv, BackedInv, PayloadBacked
  <2>4. Life!Commit(payload'.status, Pays')
    BY <2>1, <2>2, <2>3 DEF Life!Commit, Pays, Effects, Approved
  <2> QED BY <2>2, <2>4 DEF Life!Next, Life!Outcomes, Terminal, Pays
<1>2. CASE Effects' # Effects
  <2>1. /\ UNCHANGED <<run, signals, payload>> /\ Effects = "none"
        /\ Effects' \in {"done", "failed"} /\ payload.status # "none"
    BY <1>2, OneAtATime
  <2>2. Life!Perform(Effects')
    BY <2>1 DEF Life!Perform, Effects
  <2> QED BY <2>1, <2>2 DEF Life!Next
<1>3. CASE ~(Approved' <=> Approved)
  <2>1. /\ ~Approved /\ Approved' /\ Effects' = Effects
        /\ UNCHANGED payload /\ run'.status = run.status
    BY <1>3, OneAtATime DEF Approved
  <2>2. Life!Approve
    BY <2>1 DEF Life!Approve, Approved, Effects
  <2> QED BY <2>2 DEF Life!Next
<1>4. CASE same /\ run'.status # run.status
  <2>1. /\ run'.status \in Statuses
        /\ StageOf[run.status] <= StageOf[run'.status]
        /\ run'.status \in {"rejected", "escalated"} =>
              payload.status \in {"rejected", "escalated"}
    BY <1>4, RowOrigins
  <2>2. run'.status = "resolved" =>
           payload.status = "resolved" /\ Effects = "done"
    BY <1>4 DEF ResolvedMeansFinalized, Effects
  <2>3. run.status \in Statuses \cup {"absent"}
    BY <1>0 DEF TypeOK
  <2>4. Life!Stage[run.status] <= Life!Stage[run'.status]
    BY <2>1, <2>3 DEF Life!Stage, StageOf, Statuses, Terminal
  <2>5. Life!Show(run'.status)
    BY <1>4, <2>1, <2>2, <2>4 DEF Life!Show, Effects, Approved
  <2>6. run'.status \in DOMAIN Life!Stage \ {"absent"}
    BY <2>1 DEF Life!Stage, Statuses, Terminal
  <2> QED BY <2>5, <2>6 DEF Life!Next
<1>5. CASE same /\ run'.status = run.status
  BY <1>5 DEF Life!vars, Effects, Approved
<1> QED BY <1>1, <1>2, <1>3, <1>4, <1>5

\* The whole workflow implements TicketLife: the projection never goes back and
\* shows only what has happened, the outcome is decided once and money is paid
\* only for an approved resolution, for every number of crashes, lost wake-ups
\* and submissions.
THEOREM ImplementsLife == Spec => ImplementsTicketLife
<1>1. Init => Life!Init
  BY KeysAre
     DEF Init, NoRun, Life!Init
<1>2. /\ LifeInv /\ DecisionInv /\ ResolvedMeansFinalized' /\ [Next]_vars
      => [Life!Next]_(Life!vars)
  BY StepIsLifeStep
<1> QED BY <1>1, <1>2, LifeHolds, DecisionsHold, ResolvedIsFinal, PTL
        DEF Spec, ImplementsTicketLife, Life!Spec
==============================================================================

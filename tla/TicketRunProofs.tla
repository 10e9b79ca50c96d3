--------------------------- MODULE TicketRunProofs ---------------------------
(***************************************************************************)
(* Theorems about TicketRun, for every set of draft outcomes and every     *)
(* number of crashes, lost wake-ups and approvals: types, the shape of a   *)
(* graph state, and what a run waits for.  TicketLifeProofs goes on to     *)
(* decisions and the outcome of the ticket.                                *)
(***************************************************************************)
EXTENDS TicketRun, SequenceTheorems, TLAPS

-----------------------------------------------------------------------------
(* Keys and tasks *)

\* The keys of the task_queue rows of a ticket, one by one.
LEMMA KeysAre ==
  /\ TaskKeys = {"classify", "draft", "classify:fallback", "draft:fallback",
                 "finalize"}
  /\ Fallback["classify"] = "classify:fallback"
  /\ Fallback["draft"] = "draft:fallback"
  /\ \A s \in AgentStages : s \in TaskKeys /\ Fallback[s] \in TaskKeys
BY DEF TaskKeys, AgentKeys, AgentStages, Fallback

\* The statuses of a key of the task queue.
TaskStatus == {"absent", "pending", "leased", "done", "failed"}

\* What an insert and a redispatch do to each task.
LEMMA InsertedTasks ==
  ASSUME task \in [TaskKeys -> TaskStatus]
  PROVE  /\ \A k \in TaskKeys :
               /\ Enqueued(task, k) \in [TaskKeys -> TaskStatus]
               /\ Enqueued(task, k)[k] # "absent"
               /\ task[k] # "absent" => Enqueued(task, k) = task
               /\ task[k] = "absent" => Enqueued(task, k)[k] = "pending"
               /\ \A j \in TaskKeys \ {k} : Enqueued(task, k)[j] = task[j]
         /\ \A s \in AgentStages :
               /\ Redispatched(s) \in [TaskKeys -> TaskStatus]
               /\ task[s] # "pending" => Redispatched(s) = task
               /\ task[s] = "pending" =>
                     /\ Redispatched(s)[s] = "failed"
                     /\ Redispatched(s)[Fallback[s]] =
                           IF task[Fallback[s]] = "absent" THEN "pending"
                           ELSE task[Fallback[s]]
               /\ \A j \in TaskKeys \ {s, Fallback[s]} :
                     Redispatched(s)[j] = task[j]
<1>1. ASSUME NEW t \in [TaskKeys -> TaskStatus], NEW k \in TaskKeys
      PROVE  /\ Enqueued(t, k) \in [TaskKeys -> TaskStatus]
             /\ Enqueued(t, k)[k] # "absent"
             /\ t[k] # "absent" => Enqueued(t, k) = t
             /\ t[k] = "absent" => Enqueued(t, k)[k] = "pending"
             /\ \A j \in TaskKeys \ {k} : Enqueued(t, k)[j] = t[j]
  BY DEF Enqueued, TaskStatus
<1>2. ASSUME NEW s \in AgentStages, task[s] = "pending"
      PROVE  /\ Redispatched(s) \in [TaskKeys -> TaskStatus]
             /\ Redispatched(s)[s] = "failed"
             /\ Redispatched(s)[Fallback[s]] =
                   IF task[Fallback[s]] = "absent" THEN "pending"
                   ELSE task[Fallback[s]]
             /\ \A j \in TaskKeys \ {s, Fallback[s]} :
                   Redispatched(s)[j] = task[j]
  <2> DEFINE t == [task EXCEPT ![s] = "failed"]
  <2>1. s \in TaskKeys /\ Fallback[s] \in TaskKeys /\ Fallback[s] # s
    BY KeysAre DEF AgentStages
  <2>2. /\ t \in [TaskKeys -> TaskStatus] /\ t[s] = "failed"
        /\ \A j \in TaskKeys \ {s} : t[j] = task[j]
    BY <2>1 DEF TaskStatus
  <2>3. Redispatched(s) = Enqueued(t, Fallback[s])
    BY <1>2 DEF Redispatched
  <2> HIDE DEF t
  <2> QED BY <1>1, <2>1, <2>2, <2>3
<1>3. ASSUME NEW s \in AgentStages, task[s] # "pending"
      PROVE  Redispatched(s) = task
  BY <1>3 DEF Redispatched
<1> QED BY <1>1, <1>2, <1>3
-----------------------------------------------------------------------------
(* What a superstep does to the state of the graph *)

\* The graph goes on at another node.
Enters(g, node, status, draft) ==
    /\ g.node = node /\ g.parked = 0 /\ g.awaits = "none"
    /\ g.status = status /\ g.draft = draft

\* The graph stops at the n-th interrupt of node m.node, for the task key.
Parks(m, g, n, key) ==
    /\ g.node = m.node /\ g.parked = n /\ g.awaits = key
    /\ g.status = m.status /\ g.draft = m.draft

\* The two halves of the workflow: up to the draft ...
DraftingMove(p, g) ==
    LET m == mem[p] IN
    \/ /\ m.node = "start"
       /\ Enters(g, "dispatch_classify", "received", m.draft)
       /\ UNCHANGED task
    \/ /\ m.node = "dispatch_classify"
       /\ Enters(g, "await_classify", "classifying", m.draft)
       /\ task' = Enqueued(task, "classify")
    \/ /\ m.node = "dispatch_draft"
       /\ Enters(g, "await_draft", "drafting", m.draft)
       /\ task' = Enqueued(task, "draft")
    \/ \E s \in AgentStages :
          /\ m.node = AwaitNode(s)
          /\ \/ m.parked = 0 /\ Parks(m, g, 1, s) /\ UNCHANGED task
             \/ /\ m.parked = 1 /\ proc[p].resume = "timeout"
                /\ Parks(m, g, 2, RedispatchKey(s))
                /\ task' = Redispatched(s)
             \/ /\ proc[p].resume = "task_failed"
                /\ Enters(g, "execute", "escalated", "failed")
                /\ task' = Rerun(p, s)
             \/ /\ proc[p].resume = "result" /\ s = "classify"
                /\ Enters(g, "dispatch_draft", "classifying", m.draft)
                /\ task' = Rerun(p, s)
             \/ /\ proc[p].resume = "result" /\ s = "draft"
                /\ Enters(g, "decide_approval", "drafting", answer[m.awaits])
                /\ task' = Rerun(p, s)

\* ... and from the draft to the end.
DecidingMove(p, g) ==
    LET m == mem[p]
        v == proc[p].resume
    IN
    \/ /\ m.node = "decide_approval" /\ UNCHANGED <<task, payload>>
       /\ Enters(g, IF NeedsApproval(m.draft) THEN "prepare_approval"
                                              ELSE "execute",
                 m.status, m.draft)
    \/ /\ m.node = "prepare_approval" /\ UNCHANGED <<task, payload>>
       /\ Enters(g, "await_approval", "awaiting_approval", m.draft)
    \/ /\ m.node = "await_approval" /\ UNCHANGED <<task, payload>>
       /\ \/ m.parked = 0 /\ Parks(m, g, 1, m.awaits)
          \/ v = "timeout" /\ Enters(g, "execute", "escalated", m.draft)
          \/ v = "rejected" /\ Enters(g, "execute", "rejected", m.draft)
          \/ v = "approved" /\ Enters(g, "execute", m.status, m.draft)
    \/ /\ m.node = "execute" /\ EnqueueFinalize(p)
       /\ \/ m.parked = 0 /\ Parks(m, g, 1, "finalize")
          \/ v = "result" /\ Enters(g, "end", payload.status, m.draft)

\* What a process may be doing.
ProcState ==
    [pc : {"idle", "invoking", "returning", "claimed", "releasing", "done"},
     synced : BOOLEAN, resume : ResumeValues,
     status : Statuses \cup {"absent"}, wakeup : Wakeups,
     signal : 0..MaxSignals]

\* Process p goes on with graph state g, or is about to return with it, and
\* nothing else happens but to the task rows and the timestamps.
Stores(p, g) ==
    /\ mem' = [mem EXCEPT ![p] = g]
    /\ proc' \in [Procs -> ProcState]
    /\ \A q \in Procs \ {p} : proc'[q] = proc[q]
    /\ proc'[p].pc = IF g.parked > 0 \/ g.node = "end" THEN "returning"
                                                      ELSE "invoking"
    /\ proc'[p].resume = "none"
    /\ proc'[p].signal = proc[p].signal
    /\ cp' = IF proc'[p].synced THEN g ELSE cp
    /\ UNCHANGED <<answer, owed, tables, rest>>

\* Process p ends with an exception, on a value the node does not take.
Raises(p) ==
    /\ \/ \E s \in AgentStages : /\ mem[p].node = AwaitNode(s)
                                 /\ mem[p].parked = 2
                                 /\ proc[p].resume = "timeout"
                                 /\ task' = Redispatched(s)
                                 /\ UNCHANGED payload
       \/ /\ mem[p].node = "execute" /\ mem[p].parked = 1
          /\ proc[p].resume \in {"timeout", "task_failed"}
          /\ EnqueueFinalize(p)
    /\ Raise(p)
    /\ UNCHANGED <<answer, owed, tables, deadline, seen, faults>>

\* A state in which Goto and an update of its fields leave the graph.
LEMMA GotoGraph ==
  ASSUME NEW m \in GraphState, NEW node \in Nodes \cup {"none", "start", "end"}
  PROVE  /\ Goto(m, node) \in GraphState
         /\ Goto(m, node).node = node /\ Goto(m, node).parked = 0
         /\ Goto(m, node).awaits = "none" /\ Goto(m, node).status = m.status
         /\ Goto(m, node).draft = m.draft /\ Goto(m, node).decision = m.decision
<1>1. /\ Goto(m, node).node = node /\ Goto(m, node).parked = 0
      /\ Goto(m, node).awaits = "none" /\ Goto(m, node).status = m.status
      /\ Goto(m, node).draft = m.draft /\ Goto(m, node).decision = m.decision
  BY DEF Goto, GraphState
<1>2. 0 \in 0..2 /\ "none" \in TaskKeys \cup {"none"}
  OBVIOUS
<1>3. Goto(m, node) \in GraphState
  BY <1>2 DEF Goto, GraphState
<1> QED BY <1>1, <1>3

\* Graph state g is m with another status and draft.
Updates(m, g, st, d) ==
    /\ g \in GraphState
    /\ g.node = m.node /\ g.parked = m.parked /\ g.awaits = m.awaits
    /\ g.status = st /\ g.draft = d

\* What the return value of a node updates.
LEMMA UpdatedGraph ==
  ASSUME NEW m \in GraphState,
         NEW st \in Statuses \cup {"none"}, NEW w \in Wakeups,
         NEW d \in Drafts \cup {"none", "failed"},
         NEW v \in {"none", "approved", "rejected"}
  PROVE  /\ Updates(m, [m EXCEPT !.status = st], st, m.draft)
         /\ Updates(m, [m EXCEPT !.status = st, !.wakeup = w], st, m.draft)
         /\ Updates(m, [m EXCEPT !.status = st, !.wakeup = w, !.draft = d],
                    st, d)
         /\ Updates(m, [m EXCEPT !.status = st, !.decision = v], st, m.draft)
<1>1. Updates(m, [m EXCEPT !.status = st], st, m.draft)
  BY DEF GraphState, Updates
<1>2. Updates(m, [m EXCEPT !.status = st, !.wakeup = w], st, m.draft)
  BY DEF GraphState, Updates
<1>3. Updates(m, [m EXCEPT !.status = st, !.wakeup = w, !.draft = d], st, d)
  BY DEF GraphState, Updates
<1>4. Updates(m, [m EXCEPT !.status = st, !.decision = v], st, m.draft)
  BY DEF GraphState, Updates
<1> QED BY <1>1, <1>2, <1>3, <1>4

\* A node that returns: the graph enters the next one with those updates.
LEMMA EnteredGraph ==
  ASSUME NEW m \in GraphState, NEW node \in Nodes \cup {"none", "start", "end"},
         NEW st \in Statuses \cup {"none"}, NEW w \in Wakeups,
         NEW d \in Drafts \cup {"none", "failed"},
         NEW v \in {"none", "approved", "rejected"}
  PROVE  LET h == Goto(m, node) IN
         /\ \A g \in {[h EXCEPT !.status = st],
                      [h EXCEPT !.status = st, !.wakeup = w],
                      [h EXCEPT !.status = st, !.decision = v]} :
               g \in GraphState /\ Enters(g, node, st, m.draft)
         /\ LET g == [h EXCEPT !.status = st, !.wakeup = w, !.draft = d]
            IN  g \in GraphState /\ Enters(g, node, st, d)
         /\ h \in GraphState /\ Enters(h, node, m.status, m.draft)
<1> DEFINE h == Goto(m, node)
<1>1. /\ h \in GraphState /\ h.node = node /\ h.parked = 0
      /\ h.awaits = "none" /\ h.status = m.status /\ h.draft = m.draft
  BY GotoGraph
<1> HIDE DEF h
<1>2. /\ Updates(h, [h EXCEPT !.status = st], st, m.draft)
      /\ Updates(h, [h EXCEPT !.status = st, !.wakeup = w], st, m.draft)
      /\ Updates(h, [h EXCEPT !.status = st, !.decision = v], st, m.draft)
      /\ Updates(h, [h EXCEPT !.status = st, !.wakeup = w, !.draft = d], st, d)
  BY <1>1, UpdatedGraph
<1>3. \A g, e : Updates(h, g, st, e) =>
                    g \in GraphState /\ Enters(g, node, st, e)
  BY <1>1 DEF Updates, Enters
<1>4. Enters(h, node, m.status, m.draft)
  BY <1>1 DEF Enters
<1> QED BY <1>1, <1>2, <1>3, <1>4, Zenon DEF h

\* What an interrupt leaves behind.
LEMMA ParkedGraph ==
  ASSUME NEW m \in GraphState, NEW n \in 0..2, NEW k \in TaskKeys
  PROVE  /\ [m EXCEPT !.parked = n, !.awaits = k] \in GraphState
         /\ Parks(m, [m EXCEPT !.parked = n, !.awaits = k], n, k)
         /\ [m EXCEPT !.parked = n] \in GraphState
         /\ Parks(m, [m EXCEPT !.parked = n], n, m.awaits)
BY DEF GraphState, Parks

\* ainvoke goes on from one superstep to the next, or parks.
LEMMA ContinueStores ==
  ASSUME proc \in [Procs -> ProcState], NEW p \in Procs, NEW g,
         proc[p].pc = "invoking",
         UNCHANGED <<answer, owed, tables, rest>>,
         \/ Continue(p, g) /\ g.parked = 0 /\ g.node # "end"
         \/ Park(p, g) /\ (g.parked > 0 \/ g.node = "end")
  PROVE  Stores(p, g)
<1>1. CASE Continue(p, g) /\ g.parked = 0 /\ g.node # "end"
  <2>1. PICK synced \in BOOLEAN :
          /\ cp' = IF synced THEN g ELSE cp
          /\ proc' = [proc EXCEPT ![p] =
                        [proc[p] EXCEPT !.synced = synced, !.resume = "none"]]
    BY <1>1 DEF Continue
  <2> DEFINE next == [proc[p] EXCEPT !.synced = synced, !.resume = "none"]
  <2>2. /\ next \in ProcState /\ next.pc = "invoking"
        /\ next.synced = synced /\ next.resume = "none"
        /\ next.signal = proc[p].signal
    BY DEF ProcState, ResumeValues
  <2>3. proc' = [proc EXCEPT ![p] = next]
    BY <2>1
  <2>4. mem' = [mem EXCEPT ![p] = g]
    BY <1>1, Zenon DEF Continue
  <2>5. ~(0 > 0)
    OBVIOUS
  <2> HIDE DEF next
  <2> QED BY <1>1, <2>1, <2>2, <2>3, <2>4, <2>5 DEF Stores
<1>2. CASE Park(p, g) /\ (g.parked > 0 \/ g.node = "end")
  <2>1. PICK synced \in BOOLEAN :
          /\ cp' = IF synced THEN g ELSE cp
          /\ proc' = [proc EXCEPT ![p] =
                        [proc[p] EXCEPT !.synced = synced, !.resume = "none",
                                        !.pc = "returning"]]
    BY <1>2 DEF Park
  <2> DEFINE next == [proc[p] EXCEPT !.synced = synced, !.resume = "none",
                                     !.pc = "returning"]
  <2>2. /\ next \in ProcState /\ next.pc = "returning"
        /\ next.synced = synced /\ next.resume = "none"
        /\ next.signal = proc[p].signal
    BY DEF ProcState, ResumeValues
  <2>3. proc' = [proc EXCEPT ![p] = next]
    BY <2>1
  <2>4. mem' = [mem EXCEPT ![p] = g]
    BY <1>2, Zenon DEF Park
  <2> HIDE DEF next
  <2> QED BY <1>2, <2>1, <2>2, <2>3, <2>4 DEF Stores
<1> QED BY <1>1, <1>2
\* A result that resumes await_draft is that of a draft task.
AwaitsDraft(p) ==
    mem[p].node = "await_draft" /\ proc[p].resume = "result"
        => mem[p].awaits \in DraftKeys

\* A superstep up to the draft that does not raise.
Moved(p) == \E g \in GraphState : DraftingMove(p, g) /\ Stores(p, g)

\* Every superstep up to the draft is one of those moves.
LEMMA DraftingSteps ==
  ASSUME TypeOK, NEW p \in Procs, AwaitsDraft(p),
         \/ Start(p)
         \/ \E s \in AgentStages : \/ Dispatch(p, s)
                                   \/ AwaitAgent(p, s)
                                   \/ AgentTimeout(p, s)
                                   \/ AgentFailed(p, s)
                                   \/ AgentAnswered(p, s)
  PROVE  Moved(p) /\ UNCHANGED payload
<1> DEFINE m == mem[p]
<1>0. /\ m \in GraphState
      /\ proc \in [Procs -> ProcState]
      /\ proc[p].pc = "invoking"
  BY DEF TypeOK, ProcState, Start, Dispatch, AwaitAgent, AgentTimeout,
         AgentFailed, AgentAnswered, Invoking
<1>1. CASE Start(p)
  <2> DEFINE g == [Goto(m, "dispatch_classify") EXCEPT !.status = "received"]
  <2>1. g \in GraphState /\ Enters(g, "dispatch_classify", "received", m.draft)
    BY <1>0, EnteredGraph DEF Nodes, Statuses, Wakeups
  <2>2. Continue(p, g) /\ UNCHANGED <<queue, tables, deadline, rest>>
    BY <1>1 DEF Start
  <2> HIDE DEF g
  <2>3. Stores(p, g)
    BY <1>0, <2>1, <2>2, ContinueStores DEF Enters, queue
  <2> QED BY <1>1, <2>1, <2>2, <2>3
          DEF Start, Invoking, Moved, DraftingMove, queue
<1>2. ASSUME NEW s \in AgentStages, Dispatch(p, s)
      PROVE  Moved(p) /\ UNCHANGED payload
  <2>1. CASE s = "classify"
    <3> DEFINE g == [Goto(m, "await_classify") EXCEPT
                       !.status = "classifying", !.wakeup = "classify"]
    <3>1. g \in GraphState
          /\ Enters(g, "await_classify", "classifying", m.draft)
      BY <1>0, EnteredGraph DEF Nodes, Statuses, Wakeups, Timers, AgentStages
    <3>2. Continue(p, g) /\ UNCHANGED <<answer, payload, owed, tables, rest>>
      BY <1>2, <2>1 DEF Dispatch
    <3> HIDE DEF g
    <3>3. Stores(p, g)
      BY <1>0, <3>1, <3>2, ContinueStores DEF Enters
    <3> QED BY <1>2, <2>1, <3>1, <3>2, <3>3
            DEF Dispatch, Invoking, Moved, DraftingMove
  <2>2. CASE s = "draft"
    <3> DEFINE g == [Goto(m, "await_draft") EXCEPT
                       !.status = "drafting", !.wakeup = "draft"]
    <3>1. g \in GraphState /\ Enters(g, "await_draft", "drafting", m.draft)
      BY <1>0, EnteredGraph DEF Nodes, Statuses, Wakeups, Timers, AgentStages
    <3>2. Continue(p, g) /\ UNCHANGED <<answer, payload, owed, tables, rest>>
      BY <1>2, <2>2 DEF Dispatch
    <3> HIDE DEF g
    <3>3. Stores(p, g)
      BY <1>0, <3>1, <3>2, ContinueStores DEF Enters
    <3> QED BY <1>2, <2>2, <3>1, <3>2, <3>3
            DEF Dispatch, Invoking, Moved, DraftingMove
  <2> QED BY <2>1, <2>2 DEF AgentStages
<1>3. ASSUME NEW s \in AgentStages, AwaitAgent(p, s)
      PROVE  Moved(p) /\ UNCHANGED payload
  <2> DEFINE g == [m EXCEPT !.parked = 1, !.awaits = s]
  <2>1. g \in GraphState /\ Parks(m, g, 1, s)
    <3>1. 1 \in 0..2 /\ s \in TaskKeys
      BY KeysAre
    <3> QED BY <1>0, <3>1, ParkedGraph
  <2>2. Park(p, g) /\ UNCHANGED <<queue, tables, deadline, rest>>
    BY <1>3 DEF AwaitAgent
  <2> HIDE DEF g
  <2>3. Stores(p, g)
    BY <1>0, <2>1, <2>2, ContinueStores DEF Parks, queue
  <2> QED BY <1>3, <2>1, <2>2, <2>3
          DEF AwaitAgent, Invoking, Moved, DraftingMove, queue
<1>4. ASSUME NEW s \in AgentStages, AgentTimeout(p, s)
      PROVE  Moved(p) /\ UNCHANGED payload
  <2> DEFINE g == [m EXCEPT !.parked = 2, !.awaits = RedispatchKey(s)]
  <2>1. g \in GraphState /\ Parks(m, g, 2, RedispatchKey(s))
    <3>1. 2 \in 0..2 /\ RedispatchKey(s) \in TaskKeys
      BY KeysAre DEF RedispatchKey
    <3> QED BY <1>0, <3>1, ParkedGraph
  <2>2. /\ Park(p, g)
        /\ UNCHANGED <<answer, payload, owed, deadline, tables, rest>>
    BY <1>4 DEF AgentTimeout
  <2> HIDE DEF g
  <2>3. Stores(p, g)
    BY <1>0, <2>1, <2>2, ContinueStores DEF Parks
  <2> QED BY <1>4, <2>1, <2>2, <2>3
          DEF AgentTimeout, Invoking, Moved, DraftingMove
<1>5. ASSUME NEW s \in AgentStages, AgentFailed(p, s)
      PROVE  Moved(p) /\ UNCHANGED payload
  <2> DEFINE g == [Goto(m, "execute") EXCEPT
                     !.status = "escalated", !.wakeup = "null",
                     !.draft = "failed"]
  <2>1. g \in GraphState /\ Enters(g, "execute", "escalated", "failed")
    BY <1>0, EnteredGraph DEF Nodes, Statuses, Terminal, Wakeups
  <2>2. Continue(p, g) /\ UNCHANGED <<answer, payload, owed, tables, rest>>
    BY <1>5 DEF AgentFailed
  <2> HIDE DEF g
  <2>3. Stores(p, g)
    BY <1>0, <2>1, <2>2, ContinueStores DEF Enters
  <2> QED BY <1>5, <2>1, <2>2, <2>3
          DEF AgentFailed, Invoking, Moved, DraftingMove
<1>6. ASSUME NEW s \in AgentStages, AgentAnswered(p, s)
      PROVE  Moved(p) /\ UNCHANGED payload
  <2>1. CASE s = "classify"
    <3> DEFINE g == [Goto(m, "dispatch_draft") EXCEPT
                       !.status = "classifying", !.wakeup = "null"]
    <3>1. g \in GraphState
          /\ Enters(g, "dispatch_draft", "classifying", m.draft)
      BY <1>0, EnteredGraph DEF Nodes, Statuses, Wakeups
    <3>2. Continue(p, g) /\ UNCHANGED <<answer, payload, owed, tables, rest>>
      BY <1>6, <2>1 DEF AgentAnswered
    <3> HIDE DEF g
    <3>3. Stores(p, g)
      BY <1>0, <3>1, <3>2, ContinueStores DEF Enters
    <3> QED BY <1>6, <2>1, <3>1, <3>2, <3>3
            DEF AgentAnswered, Invoking, Moved, DraftingMove
  <2>2. CASE s = "draft"
    <3> DEFINE g == [Goto(m, "decide_approval") EXCEPT
                       !.status = "drafting", !.wakeup = "null",
                       !.draft = answer[m.awaits]]
    <3>1. g \in GraphState
          /\ Enters(g, "decide_approval", "drafting", answer[m.awaits])
      <4>1. m.awaits \in DraftKeys
        BY <1>6, <2>2 DEF AgentAnswered, AwaitNode, Invoking, AwaitsDraft
      <4>2. answer[m.awaits] \in Drafts \cup {"none", "failed"}
        BY <4>1 DEF TypeOK
      <4> QED BY <1>0, <4>2, EnteredGraph DEF Nodes, Statuses, Wakeups
    <3>2. Continue(p, g) /\ UNCHANGED <<answer, payload, owed, tables, rest>>
      BY <1>6, <2>2 DEF AgentAnswered
    <3> HIDE DEF g
    <3>3. Stores(p, g)
      BY <1>0, <3>1, <3>2, ContinueStores DEF Enters
    <3> QED BY <1>6, <2>2, <3>1, <3>2, <3>3
            DEF AgentAnswered, Invoking, Moved, DraftingMove
  <2> QED BY <2>1, <2>2 DEF AgentStages
<1> QED BY <1>1, <1>2, <1>3, <1>4, <1>5, <1>6

\* Every superstep from the draft to the end is one of those moves.
LEMMA DecidingSteps ==
  ASSUME TypeOK, NEW p \in Procs,
         \/ DecideApproval(p) \/ PrepareApproval(p) \/ AwaitApproval(p)
         \/ Decided(p) \/ Execute(p) \/ Finalized(p)
  PROVE  \E g \in GraphState : DecidingMove(p, g) /\ Stores(p, g)
<1> DEFINE m == mem[p]
<1>0. /\ m \in GraphState
      /\ proc \in [Procs -> ProcState]
      /\ proc[p].pc = "invoking"
  BY DEF TypeOK, ProcState, DecideApproval, PrepareApproval, AwaitApproval,
         Decided, Execute, Finalized, Invoking
<1>00. /\ m.status \in Statuses \cup {"none"}
       /\ m.decision \in {"none", "approved", "rejected"}
  BY <1>0 DEF GraphState
<1>1. CASE DecideApproval(p)
  <2> DEFINE node == IF NeedsApproval(m.draft) THEN "prepare_approval"
                                               ELSE "execute"
             g == Goto(m, node)
  <2>1. g \in GraphState /\ Enters(g, node, m.status, m.draft)
    <3>1. node \in Nodes \cup {"none", "start", "end"}
      BY DEF Nodes
    <3> HIDE DEF node
    <3> QED BY <1>0, <1>00, <3>1, EnteredGraph DEF Wakeups
  <2>2. /\ Continue(p, g) /\ UNCHANGED <<queue, tables, deadline, rest>>
        /\ g.parked = 0 /\ g.node # "end"
    BY <1>1, <2>1 DEF DecideApproval, Enters
  <2> HIDE DEF g
  <2>3. Stores(p, g)
    BY <1>0, <2>2, ContinueStores DEF queue
  <2> QED BY <1>1, <2>1, <2>2, <2>3
          DEF DecideApproval, Invoking, DecidingMove, queue
<1>2. CASE PrepareApproval(p)
  <2> DEFINE g == [Goto(m, "await_approval") EXCEPT
                     !.status = "awaiting_approval", !.wakeup = "approval"]
  <2>1. g \in GraphState
        /\ Enters(g, "await_approval", "awaiting_approval", m.draft)
    BY <1>0, EnteredGraph DEF Nodes, Statuses, Wakeups, Timers
  <2>2. Continue(p, g) /\ UNCHANGED <<queue, tables, rest>>
    BY <1>2 DEF PrepareApproval
  <2> HIDE DEF g
  <2>3. Stores(p, g)
    BY <1>0, <2>1, <2>2, ContinueStores DEF Enters, queue
  <2> QED BY <1>2, <2>1, <2>2, <2>3
          DEF PrepareApproval, Invoking, DecidingMove, queue
<1>3. CASE AwaitApproval(p)
  <2> DEFINE g == [m EXCEPT !.parked = 1]
  <2>1. g \in GraphState /\ Parks(m, g, 1, m.awaits)
    <3>1. 1 \in 0..2 /\ "finalize" \in TaskKeys
      BY KeysAre
    <3> QED BY <1>0, <3>1, ParkedGraph
  <2>2. Park(p, g) /\ UNCHANGED <<queue, tables, deadline, rest>>
    BY <1>3 DEF AwaitApproval
  <2> HIDE DEF g
  <2>3. Stores(p, g)
    BY <1>0, <2>1, <2>2, ContinueStores DEF Parks, queue
  <2> QED BY <1>3, <2>1, <2>2, <2>3
          DEF AwaitApproval, Invoking, DecidingMove, queue
<1>4. CASE Decided(p)
  <2>1. PICK st \in Statuses \cup {"none"},
             d \in {"none", "approved", "rejected"} :
          /\ Continue(p, [Goto(m, "execute") EXCEPT !.status = st,
                                                    !.decision = d])
          /\ \/ proc[p].resume = "timeout" /\ st = "escalated"
             \/ proc[p].resume = "rejected" /\ st = "rejected"
             \/ proc[p].resume = "approved" /\ st = m.status
    <3>1. /\ Goto(m, "execute").status = m.status
          /\ Goto(m, "execute").decision = m.decision
      BY <1>0, GotoGraph DEF Nodes
    <3>2. CASE proc[p].resume = "timeout"
      BY <1>4, <1>00, <3>1, <3>2 DEF Decided, Statuses, Terminal
    <3>3. CASE proc[p].resume = "rejected"
      BY <1>4, <1>00, <3>1, <3>3 DEF Decided, Statuses, Terminal
    <3>4. CASE proc[p].resume = "approved"
      BY <1>4, <1>00, <3>1, <3>4 DEF Decided, Statuses, Terminal
    <3> QED BY <1>4, <3>2, <3>3, <3>4 DEF Decided
  <2> DEFINE g == [Goto(m, "execute") EXCEPT !.status = st, !.decision = d]
  <2>2. g \in GraphState /\ Enters(g, "execute", st, m.draft)
    BY <1>0, EnteredGraph DEF Nodes, Wakeups
  <2>3. Continue(p, g) /\ UNCHANGED <<queue, tables, deadline, rest>>
    BY <1>4, <2>1 DEF Decided
  <2> HIDE DEF g
  <2>4. Stores(p, g)
    BY <1>0, <2>2, <2>3, ContinueStores DEF Enters, queue
  <2> QED BY <1>4, <2>1, <2>2, <2>3, <2>4
          DEF Decided, Invoking, DecidingMove, queue
<1>5. CASE Execute(p)
  <2> DEFINE g == [m EXCEPT !.parked = 1, !.awaits = "finalize"]
  <2>1. g \in GraphState /\ Parks(m, g, 1, "finalize")
    <3>1. 1 \in 0..2 /\ "finalize" \in TaskKeys
      BY KeysAre
    <3> QED BY <1>0, <3>1, ParkedGraph
  <2>2. Park(p, g) /\ UNCHANGED <<answer, owed, tables, deadline, rest>>
    BY <1>5 DEF Execute
  <2> HIDE DEF g
  <2>3. Stores(p, g)
    BY <1>0, <2>1, <2>2, ContinueStores DEF Parks
  <2> QED BY <1>5, <2>1, <2>2, <2>3 DEF Execute, Invoking, DecidingMove
<1>6. CASE Finalized(p)
  <2> DEFINE g == [Goto(m, "end") EXCEPT !.status = payload.status,
                                         !.wakeup = "null"]
  <2>1. g \in GraphState /\ Enters(g, "end", payload.status, m.draft)
    <3>1. payload.status \in Statuses \cup {"none"}
      BY DEF TypeOK, Statuses
    <3> QED BY <1>0, <3>1, EnteredGraph DEF Wakeups
  <2>2. Park(p, g) /\ UNCHANGED <<answer, owed, tables, deadline, rest>>
    BY <1>6 DEF Finalized
  <2> HIDE DEF g
  <2>3. Stores(p, g)
    BY <1>0, <2>1, <2>2, ContinueStores DEF Enters
  <2> QED BY <1>6, <2>1, <2>2, <2>3 DEF Finalized, Invoking, DecidingMove
<1> QED BY <1>1, <1>2, <1>3, <1>4, <1>5, <1>6

\* A superstep moves the graph of its process on, or ends the process.
LEMMA Supersteps ==
  ASSUME TypeOK, NEW p \in Procs, AwaitsDraft(p), Superstep(p)
  PROVE  /\ proc[p].pc = "invoking"
         /\ \/ \E g \in GraphState :
                  /\ Stores(p, g)
                  /\ \/ DraftingMove(p, g) /\ UNCHANGED payload
                     \/ DecidingMove(p, g)
            \/ Raises(p)
<1>1. proc[p].pc = "invoking"
  BY DEF Superstep, Start, Dispatch, AwaitAgent, AgentTimeout, AgentFailed,
         AgentAnswered, AgentRaises, DecideApproval, PrepareApproval,
         AwaitApproval, Decided, Execute, Finalized, FinalizeRaises, Invoking
<1>2. ASSUME NEW s \in AgentStages, AgentRaises(p, s) PROVE Raises(p)
  BY <1>2 DEF AgentRaises, Raises, Invoking, Rerun
<1>3. CASE FinalizeRaises(p)
  BY <1>1, <1>3 DEF FinalizeRaises, Raises, Invoking
<1>4. CASE \/ Start(p)
           \/ \E s \in AgentStages : \/ Dispatch(p, s)
                                     \/ AwaitAgent(p, s)
                                     \/ AgentTimeout(p, s)
                                     \/ AgentFailed(p, s)
                                     \/ AgentAnswered(p, s)
  <2>1. \E g \in GraphState : Stores(p, g) /\ DraftingMove(p, g)
    BY <1>4, DraftingSteps DEF Moved
  <2>2. UNCHANGED payload
    BY <1>4, DraftingSteps
  <2> QED BY <1>1, <2>1, <2>2
<1>5. CASE \/ DecideApproval(p) \/ PrepareApproval(p) \/ AwaitApproval(p)
           \/ Decided(p) \/ Execute(p) \/ Finalized(p)
  BY <1>1, <1>5, DecidingSteps
<1> QED BY <1>1, <1>2, <1>3, <1>4, <1>5 DEF Superstep

-----------------------------------------------------------------------------
(* What the other actions do to a process *)

\* Process p is at pc now, resumes with that value and that signal.
Becomes(p, pc, resume, signal) ==
    /\ proc' \in [Procs -> ProcState]
    /\ \A q \in Procs \ {p} : proc'[q] = proc[q]
    /\ proc'[p].pc = pc
    /\ proc'[p].resume = resume
    /\ proc'[p].signal = signal

\* A process record that replaces another one.
LEMMA ReplacedProc ==
  ASSUME TypeOK, NEW p \in Procs, NEW r \in ProcState,
         proc' = [proc EXCEPT ![p] = r]
  PROVE  Becomes(p, r.pc, r.resume, r.signal) /\ proc'[p] = r
BY DEF TypeOK, ProcState, Becomes

\* The record of a process that has nothing to do.
LEMMA IdleRecord ==
  /\ IdleProc \in ProcState
  /\ IdleProc.pc = "idle" /\ IdleProc.resume = "none" /\ IdleProc.signal = 0
  /\ IdleProc.synced = TRUE
  /\ LET r == [IdleProc EXCEPT !.pc = "done"]
     IN  /\ r \in ProcState /\ r.synced = TRUE
         /\ r.pc = "done" /\ r.resume = "none" /\ r.signal = 0
<1>1. 0 \in 0..MaxSignals
  BY RunAssumption
<1> QED BY <1>1 DEF IdleProc, ProcState, ResumeValues, Wakeups

\* A process that ends, in whichever way.
LEMMA EndedProcess ==
  ASSUME TypeOK, NEW p \in Procs
  PROVE  /\ Raise(p) => Becomes(p, "idle", "none", 0)
         /\ Crash(p) => Becomes(p, IF p = "api" THEN "done" ELSE "idle",
                                "none", 0)
         /\ Release \/ SaveRun => Becomes("runner", "idle", "none", 0)
         /\ CreateRun => Becomes("api", "done", "none", 0)
<1> DEFINE finished == [IdleProc EXCEPT !.pc = "done"]
<1>1. /\ IdleProc \in ProcState /\ finished \in ProcState
      /\ IdleProc.pc = "idle" /\ IdleProc.resume = "none" /\ IdleProc.signal = 0
      /\ finished.pc = "done" /\ finished.resume = "none" /\ finished.signal = 0
  BY IdleRecord
<1>2. Raise(p) => proc' = [proc EXCEPT ![p] = IdleProc]
  BY DEF Raise
<1>3. /\ Crash(p) /\ p = "api" => proc' = [proc EXCEPT ![p] = finished]
      /\ Crash(p) /\ p # "api" => proc' = [proc EXCEPT ![p] = IdleProc]
  BY DEF Crash
<1>4. /\ Release \/ SaveRun => proc' = [proc EXCEPT !["runner"] = IdleProc]
      /\ CreateRun => proc' = [proc EXCEPT !["api"] = finished]
  BY DEF Release, SaveRun, CreateRun
<1>5. "api" \in Procs /\ "runner" \in Procs
  BY DEF Procs
<1> HIDE DEF finished
<1>6. Raise(p) => Becomes(p, "idle", "none", 0)
  BY <1>1, <1>2, ReplacedProc
<1>7. Crash(p) => Becomes(p, IF p = "api" THEN "done" ELSE "idle", "none", 0)
  BY <1>1, <1>3, ReplacedProc
<1>8. /\ Release \/ SaveRun => Becomes("runner", "idle", "none", 0)
      /\ CreateRun => Becomes("api", "done", "none", 0)
  BY <1>1, <1>4, <1>5, ReplacedProc
<1> QED BY <1>6, <1>7, <1>8

\* A request that arrives: ainvoke gets a graph that is at its start.
LEMMA RequestArrives ==
  ASSUME TypeOK, CreateTicket
  PROVE  LET g == [NoGraph EXCEPT !.node = "start"] IN
         /\ Becomes("api", "invoking", proc["api"].resume, proc["api"].signal)
         /\ g \in GraphState
         /\ mem' = [mem EXCEPT !["api"] = g]
         /\ cp' = IF proc'["api"].synced THEN g ELSE cp
<1> DEFINE g == [NoGraph EXCEPT !.node = "start"]
<1>1. PICK synced \in BOOLEAN :
        /\ cp' = IF synced THEN g ELSE cp
        /\ proc' = [proc EXCEPT !["api"] =
                      [proc["api"] EXCEPT !.pc = "invoking",
                                          !.synced = synced]]
  BY DEF CreateTicket
<1> DEFINE r == [proc["api"] EXCEPT !.pc = "invoking", !.synced = synced]
<1>2. "api" \in Procs /\ proc["api"] \in ProcState
  BY DEF TypeOK, Procs, ProcState
<1>3. /\ r \in ProcState /\ r.pc = "invoking" /\ r.synced = synced
      /\ r.resume = proc["api"].resume /\ r.signal = proc["api"].signal
  BY <1>2 DEF ProcState
<1>4. proc' = [proc EXCEPT !["api"] = r]
  BY <1>1
<1>5. g \in GraphState
  BY DEF NoGraph, GraphState, Wakeups
<1>6. mem' = [mem EXCEPT !["api"] = g]
  BY Zenon DEF CreateTicket
<1> HIDE DEF r
<1>7. /\ Becomes("api", "invoking", proc["api"].resume, proc["api"].signal)
      /\ proc'["api"] = r
  BY <1>2, <1>3, <1>4, ReplacedProc
<1> QED BY <1>1, <1>3, <1>5, <1>6, <1>7

\* A claimed run.
LEMMA ClaimedProcess ==
  ASSUME TypeOK, Claim
  PROVE  /\ Becomes("runner", "claimed", "none", 0)
         /\ proc'["runner"].status = run.status
<1> DEFINE r == [IdleProc EXCEPT !.pc = "claimed", !.status = run.status,
                                 !.wakeup = run.wakeup]
<1>1. /\ r \in ProcState /\ r.pc = "claimed" /\ r.resume = "none"
      /\ r.signal = 0 /\ r.status = run.status
  <2>1. run.status \in Statuses \cup {"absent"} /\ run.wakeup \in Wakeups
    BY DEF TypeOK
  <2>2. 0 \in 0..MaxSignals
    BY RunAssumption
  <2> QED BY <2>1, <2>2 DEF IdleProc, ProcState, ResumeValues
<1>2. proc' = [proc EXCEPT !["runner"] = r]
  BY Zenon DEF Claim
<1>3. "runner" \in Procs
  BY DEF Procs
<1> HIDE DEF r
<1>4. Becomes("runner", r.pc, r.resume, r.signal) /\ proc'["runner"] = r
  BY <1>1, <1>2, <1>3, ReplacedProc
<1> QED BY <1>1, <1>4, Zenon

\* The runner goes on with the checkpoint and a resume value, or gives the
\* lease back.
LEMMA LookedUp ==
  ASSUME TypeOK, Look
  PROVE  \/ /\ cp.parked > 0 /\ ResumeValue # "none"
            /\ mem' = [mem EXCEPT !["runner"] = cp]
            /\ Becomes("runner", "invoking", ResumeValue,
                       IF ResumeValue \in {"approved", "rejected"}
                         THEN CHOOSE i \in Unconsumed : TRUE ELSE 0)
            /\ proc'["runner"].synced = proc["runner"].synced
         \/ /\ UNCHANGED mem
            /\ Becomes("runner", "releasing", proc["runner"].resume,
                       proc["runner"].signal)
            /\ proc'["runner"].status = proc["runner"].status
<1>0. "runner" \in Procs /\ proc["runner"] \in ProcState
  BY DEF TypeOK, Procs, ProcState
<1>1. CASE cp.parked > 0 /\ ResumeValue # "none"
  <2> DEFINE n == IF ResumeValue \in {"approved", "rejected"}
                    THEN CHOOSE i \in Unconsumed : TRUE ELSE 0
             r == [proc["runner"] EXCEPT !.pc = "invoking",
                     !.resume = ResumeValue, !.signal = n]
  <2>1. ResumeValue \in ResumeValues
    BY DEF ResumeValue, ResumeValues
  <2>2. n \in 0..MaxSignals
    <3>1. CASE ResumeValue \in {"approved", "rejected"}
      <4>1. Unconsumed # {}
        BY <3>1 DEF ResumeValue
      <4>2. n \in Unconsumed
        BY <3>1, <4>1
      <4>3. DOMAIN signals \subseteq 1..MaxSignals
        BY RunAssumption DEF TypeOK
      <4> QED BY <4>2, <4>3 DEF Unconsumed
    <3>2. CASE ~(ResumeValue \in {"approved", "rejected"})
      BY <3>2, RunAssumption
    <3> QED BY <3>1, <3>2
  <2>3. /\ proc' = [proc EXCEPT !["runner"] = r]
        /\ mem' = [mem EXCEPT !["runner"] = cp]
    <3>1. /\ mem' = [mem EXCEPT !["runner"] = cp]
          /\ proc' = [proc EXCEPT
                    !["runner"].pc = "invoking",
                    !["runner"].resume = ResumeValue,
                    !["runner"].signal = n]
      BY <1>1, Zenon DEF Look
    <3> HIDE DEF n
    <3> QED BY <3>1
  <2> HIDE DEF n
  <2>4. /\ r \in ProcState /\ r.pc = "invoking" /\ r.resume = ResumeValue
        /\ r.signal = n /\ r.synced = proc["runner"].synced
    BY <1>0, <2>1, <2>2 DEF ProcState
  <2> HIDE DEF r
  <2>5. Becomes("runner", "invoking", ResumeValue, n)
        /\ proc'["runner"].synced = proc["runner"].synced
    BY <1>0, <2>3, <2>4, ReplacedProc
  <2> QED BY <1>1, <2>3, <2>5 DEF n
<1>2. CASE ~(cp.parked > 0 /\ ResumeValue # "none")
  <2> DEFINE r == [proc["runner"] EXCEPT !.pc = "releasing"]
  <2>1. proc' = [proc EXCEPT !["runner"] = r] /\ UNCHANGED mem
    BY <1>2 DEF Look
  <2>2. /\ r \in ProcState /\ r.pc = "releasing"
        /\ r.resume = proc["runner"].resume /\ r.status = proc["runner"].status
        /\ r.signal = proc["runner"].signal
    BY <1>0 DEF ProcState
  <2> HIDE DEF r
  <2> QED BY <1>0, <2>1, <2>2, ReplacedProc
<1> QED BY <1>1, <1>2

-----------------------------------------------------------------------------
(* Decisions in the pending_signal table *)

\* A row of pending_signal.
Signal == [approved : BOOLEAN, consumed : BOOLEAN]

\* A submission adds a row; save_run consumes one row and changes nothing else.
LEMMA SignalSteps ==
  ASSUME TypeOK
  PROVE  /\ DOMAIN signals = 1..Len(signals) /\ Len(signals) \in Nat
         /\ \A i \in DOMAIN signals : signals[i] \in Signal
         /\ \A approved \in BOOLEAN : SubmitApproval(approved) =>
               LET n == Len(signals) + 1 IN
               /\ signals' \in Seq(Signal) /\ Len(signals') = n
               /\ n <= MaxSignals
               /\ DOMAIN signals' = DOMAIN signals \cup {n}
               /\ n \notin DOMAIN signals
               /\ \A i \in DOMAIN signals : signals'[i] = signals[i]
               /\ signals'[n] = [approved |-> approved, consumed |-> FALSE]
         /\ SaveRun =>
               /\ signals' \in Seq(Signal) /\ Len(signals') = Len(signals)
               /\ DOMAIN signals' = DOMAIN signals
               /\ \A i \in DOMAIN signals :
                     /\ signals'[i].approved = signals[i].approved
                     /\ signals'[i].consumed =
                           (i = proc["runner"].signal \/ signals[i].consumed)
<1>1. /\ signals \in Seq(Signal) /\ Len(signals) \in Nat
      /\ DOMAIN signals = 1..Len(signals)
      /\ signals \in [1..Len(signals) -> Signal]
  BY LenProperties DEF TypeOK, Signal
<1>2. \A i \in DOMAIN signals : signals[i] \in Signal
  BY <1>1
<1>3. ASSUME NEW approved \in BOOLEAN, SubmitApproval(approved)
      PROVE  LET n == Len(signals) + 1 IN
             /\ signals' \in Seq(Signal) /\ Len(signals') = n
             /\ n <= MaxSignals
             /\ DOMAIN signals' = DOMAIN signals \cup {n}
             /\ n \notin DOMAIN signals
             /\ \A i \in DOMAIN signals : signals'[i] = signals[i]
             /\ signals'[n] = [approved |-> approved, consumed |-> FALSE]
  <2> DEFINE e == [approved |-> approved, consumed |-> FALSE]
  <2>1. e \in Signal
    BY DEF Signal
  <2>2. signals' = Append(signals, e) /\ Len(signals) < MaxSignals
    BY <1>3 DEF SubmitApproval
  <2> HIDE DEF e
  <2>3. /\ signals' \in Seq(Signal) /\ Len(signals') = Len(signals) + 1
        /\ \A i \in 1..Len(signals) : signals'[i] = signals[i]
        /\ signals'[Len(signals) + 1] = e
    BY <1>1, <2>1, <2>2, AppendProperties
  <2>4. DOMAIN signals' = 1..Len(signals')
    BY <2>3, LenProperties
  <2> QED BY <1>1, <2>2, <2>3, <2>4, RunAssumption DEF e
<1>4. ASSUME SaveRun
      PROVE  /\ signals' \in Seq(Signal) /\ Len(signals') = Len(signals)
             /\ DOMAIN signals' = DOMAIN signals
             /\ \A i \in DOMAIN signals :
                   /\ signals'[i].approved = signals[i].approved
                   /\ signals'[i].consumed =
                         (i = proc["runner"].signal \/ signals[i].consumed)
  <2> DEFINE n == Len(signals)
             new(i) == IF i = proc["runner"].signal
                         THEN [signals[i] EXCEPT !.consumed = TRUE]
                         ELSE signals[i]
  <2>1. signals' = [i \in 1..n |-> new(i)]
    BY <1>1, <1>4 DEF SaveRun
  <2>2. \A i \in 1..n : /\ new(i) \in Signal
                        /\ new(i).approved = signals[i].approved
                        /\ new(i).consumed =
                             (i = proc["runner"].signal \/ signals[i].consumed)
    <3> TAKE i \in 1..n
    <3>1. signals[i] \in Signal
      BY <1>1
    <3>2. CASE i = proc["runner"].signal
      BY <3>1, <3>2 DEF Signal
    <3>3. CASE i # proc["runner"].signal
      BY <3>1, <3>3 DEF Signal
    <3> QED BY <3>2, <3>3
  <2> HIDE DEF new
  <2>3. signals' \in [1..n -> Signal] /\ DOMAIN signals' = 1..n
    BY <2>1, <2>2
  <2>4. signals' \in Seq(Signal) /\ Len(signals') = n
    BY <1>1, <2>3, SeqDef, LenProperties
  <2> QED BY <1>1, <2>1, <2>2, <2>3, <2>4
<1> QED BY <1>1, <1>2, <1>3, <1>4

-----------------------------------------------------------------------------
(* Types *)

\* A process can only resume await_draft with the result of a draft task.
AwaitedResults == \A p \in Procs : AwaitsDraft(p)

\* A superstep keeps the types.
LEMMA SuperstepTyped ==
  ASSUME TypeOK, NEW p \in Procs, AwaitsDraft(p), Superstep(p)
  PROVE  TypeOK'
<1>1. UNCHANGED <<tables, answer, owed, seen, faults>>
  BY Supersteps DEF Stores, Raises, rest
<1>2. /\ task' \in [TaskKeys -> TaskStatus]
      /\ payload' \in [status : Terminal \cup {"none"}, refund : BOOLEAN]
  <2>1. ASSUME EnqueueFinalize(p)
        PROVE  /\ task' \in [TaskKeys -> TaskStatus]
               /\ payload' \in
                     [status : Terminal \cup {"none"}, refund : BOOLEAN]
    <3>1. "finalize" \in TaskKeys
      BY KeysAre
    <3>2. FinalStatus(mem[p]) \in Terminal
      BY DEF FinalStatus, Terminal
    <3>3. (mem[p].draft = "refund") \in BOOLEAN
      OBVIOUS
    <3> QED BY <2>1, <3>1, <3>2, <3>3, InsertedTasks
            DEF EnqueueFinalize, TypeOK, TaskStatus
  <2>2. CASE Raises(p)
    BY <2>1, <2>2, InsertedTasks DEF Raises, TypeOK, TaskStatus
  <2>3. ASSUME NEW g \in GraphState, DecidingMove(p, g)
        PROVE  /\ task' \in [TaskKeys -> TaskStatus]
               /\ payload' \in
                     [status : Terminal \cup {"none"}, refund : BOOLEAN]
    BY <2>1, <2>3 DEF DecidingMove, TypeOK, TaskStatus
  <2>4. ASSUME NEW g \in GraphState, DraftingMove(p, g)
        PROVE  task' \in [TaskKeys -> TaskStatus]
    <3>1. \A s \in AgentStages : Rerun(p, s) \in [TaskKeys -> TaskStatus]
      BY InsertedTasks DEF Rerun, TypeOK, TaskStatus
    <3>2. "classify" \in TaskKeys /\ "draft" \in TaskKeys
      BY KeysAre
    <3> QED BY <2>4, <3>1, <3>2, InsertedTasks
               DEF DraftingMove, TypeOK, TaskStatus
  <2> QED BY <2>2, <2>3, <2>4, Supersteps DEF TypeOK
<1>3. CASE Raises(p)
  <2>1. Becomes(p, "idle", "none", 0)
    BY <1>3, EndedProcess DEF Raises
  <2>2. mem' = [mem EXCEPT ![p] = NoGraph] /\ NoGraph \in GraphState
    BY <1>3 DEF Raises, Raise, NoGraph, GraphState, Wakeups
  <2>3. /\ raised' \subseteq {"timeout", "task_failed"}
        /\ UNCHANGED <<cp, deadline>>
    BY <1>3 DEF Raises, Raise, TypeOK
  <2> QED BY <1>1, <1>2, <2>1, <2>2, <2>3
             DEF TypeOK, ProcState, TaskStatus, Becomes, tables
<1>4. ASSUME NEW g \in GraphState, Stores(p, g)
      PROVE  /\ cp' \in GraphState /\ mem' \in [Procs -> GraphState]
             /\ proc' \in [Procs -> ProcState] /\ UNCHANGED raised
  BY <1>4 DEF Stores, TypeOK, rest
<1>5. deadline' \in [Timers -> {"unset", "ahead", "passed"}]
  <2>1. deadline \in [Timers -> {"unset", "ahead", "passed"}]
    BY DEF TypeOK
  <2>2. \A t \in Timers : [deadline EXCEPT ![t] = "ahead"]
                             \in [Timers -> {"unset", "ahead", "passed"}]
    BY <2>1
  <2>3. \/ UNCHANGED deadline
        \/ \E t \in Timers : deadline' = [deadline EXCEPT ![t] = "ahead"]
    BY DEF Superstep, Start, Dispatch, AwaitAgent, AgentTimeout, AgentFailed,
           AgentAnswered, AgentRaises, DecideApproval, PrepareApproval,
         AwaitApproval, Decided, Execute, Finalized, FinalizeRaises, Timers
  <2> QED BY <2>1, <2>2, <2>3
<1> QED BY <1>1, <1>2, <1>3, <1>4, <1>5, Supersteps
           DEF TypeOK, ProcState, TaskStatus, tables

-----------------------------------------------------------------------------
(* What a graph state is like at each node *)

\* No interrupt has been raised.
Quiet(g) == g.parked = 0 /\ g.awaits = "none"

\* Parked for the task of stage s, from the second interrupt on perhaps for its
\* fallback.
Waits(g, s) ==
    /\ g.parked = 0 <=> g.awaits = "none"
    /\ g.parked = 1 => g.awaits = s
    /\ g.parked > 0 => g.awaits \in {s, Fallback[s]}

\* Each node is entered with one status, and parks where it may.
Shape(g) ==
    /\ g.node \in {"none", "start"} => Quiet(g) /\ g.status = "none"
    /\ g.node = "dispatch_classify" => Quiet(g) /\ g.status = "received"
    /\ g.node = "await_classify" =>
           Waits(g, "classify") /\ g.status = "classifying"
    /\ g.node = "dispatch_draft" => Quiet(g) /\ g.status = "classifying"
    /\ g.node = "await_draft" => Waits(g, "draft") /\ g.status = "drafting"
    /\ g.node = "decide_approval" => Quiet(g) /\ g.status = "drafting"
    /\ g.node = "prepare_approval" =>
           Quiet(g) /\ g.status = "drafting" /\ NeedsApproval(g.draft)
    /\ g.node = "await_approval" =>
           /\ g.awaits = "none" /\ g.parked <= 1
           /\ g.status = "awaiting_approval" /\ NeedsApproval(g.draft)
    /\ g.node = "execute" =>
           /\ g.parked <= 1
           /\ g.awaits = IF g.parked = 0 THEN "none" ELSE "finalize"
           /\ g.status \in {"drafting", "awaiting_approval", "rejected",
                            "escalated"}
           /\ g.status = "drafting" => ~NeedsApproval(g.draft)
    /\ g.node = "end" => Quiet(g) /\ g.status \in Terminal

\* A graph that waits for the terminal task has written what becomes of the
\* ticket.
FinalizeKnown(g) ==
    g.node = "execute" /\ g.parked > 0 => payload.status # "none"

\* The checkpoint and the copies of all processes are shaped like that.
GraphsShaped ==
    /\ Shape(cp) /\ FinalizeKnown(cp)
    /\ \A p \in Procs : Shape(mem[p]) /\ FinalizeKnown(mem[p])

\* The terminal task has a payload ...
PayloadKnown == task["finalize"] # "absent" => payload.status # "none"

\* ... and as long as nothing is pruned, a payload has its task.
PayloadHeld == payload.status # "none" => task["finalize"] # "absent"

\* The nodes that create_ticket may reach.
Early == {"none", "start", "dispatch_classify", "await_classify"}

\* create_ticket runs the graph from its start to the first interrupt, with
\* nothing to resume.
ApiShape ==
    LET api == proc["api"]
        m == mem["api"]
    IN
    /\ api.resume = "none" /\ api.signal = 0
    /\ \/ api.pc \in {"idle", "done"} /\ m.node = "none"
       \/ api.pc = "invoking" /\ m.node \in Early \ {"none"} /\ m.parked = 0
       \/ api.pc = "returning" /\ m.node = "await_classify" /\ m.parked = 1

\* The runner is between its ainvoke and its save_run.
Active == proc["runner"].pc \in {"invoking", "returning"}

\* The runner has a graph state only in ainvoke, which it enters at an interrupt
\* and with a value for it.
RunnerShape ==
    LET runner == proc["runner"]
        m == mem["runner"]
    IN
    /\ runner.pc # "done"
    /\ ~Active => m.node = "none" /\ runner.resume = "none" /\ runner.signal = 0
    /\ Active => m.node \notin {"none", "start", "dispatch_classify"}
    /\ runner.pc = "invoking" => (runner.resume = "none" <=> m.parked = 0)
    /\ runner.pc = "returning" =>
           runner.resume = "none" /\ (m.parked > 0 \/ m.node = "end")

\* The inductive invariant of the types, which survives the retention sweep,
\* too.
BaseInv == TypeOK /\ GraphsShaped /\ PayloadKnown /\ ApiShape /\ RunnerShape

\* That of the workflow on its own.
ShapeInv == BaseInv /\ PayloadHeld

\* Whoever resumes await_draft with a result has waited for a draft task.
LEMMA ShapeAwaitsDraft ==
  ASSUME BaseInv, NEW p \in Procs
  PROVE  AwaitsDraft(p)
<1>1. CASE p = "api"
  BY <1>1 DEF BaseInv, ApiShape, AwaitsDraft
<1>2. CASE p = "runner"
  <2>1. proc["runner"].pc \in {"idle", "invoking", "returning", "claimed",
                               "releasing", "done"}
    BY <1>2 DEF BaseInv, TypeOK
  <2>2. mem["runner"].parked \in 0..2
    BY <1>2 DEF BaseInv, TypeOK, GraphState
  <2>3. Waits(mem["runner"], "draft") \/ mem["runner"].node # "await_draft"
    BY <1>2 DEF BaseInv, GraphsShaped, Shape
  <2> QED BY <1>2, <2>1, <2>2, <2>3, KeysAre
          DEF BaseInv, RunnerShape, Active, Waits, AwaitsDraft, DraftKeys
<1> QED BY <1>1, <1>2 DEF Procs

-----------------------------------------------------------------------------
(* Types *)

\* The actions of a process outside ainvoke keep the types.
LEMMA ProcessTyped ==
  ASSUME BaseInv,
         \/ CreateTicket \/ CreateRun \/ Claim \/ Look \/ Release \/ SaveRun
         \/ \E p \in Procs : Crash(p)
  PROVE  TypeOK'
<1>00. /\ TypeOK /\ cp \in GraphState /\ mem \in [Procs -> GraphState]
  BY DEF BaseInv, TypeOK
<1>01. /\ \A g \in GraphState, p \in Procs :
             [mem EXCEPT ![p] = g] \in [Procs -> GraphState]
       /\ "api" \in Procs /\ "runner" \in Procs
  BY <1>00 DEF Procs
<1>1. CASE CreateTicket
  <2>1. cp' \in GraphState /\ mem' \in [Procs -> GraphState]
    BY <1>00, <1>01, <1>1, RequestArrives
  <2>2. proc' \in [Procs -> ProcState]
    BY <1>00, <1>1, RequestArrives DEF Becomes
  <2> QED BY <1>00, <1>1, <2>1, <2>2
          DEF CreateTicket, TypeOK, ProcState, queue, tables, rest
<1>4. CASE Look
  <2>1. mem' \in [Procs -> GraphState]
    BY <1>00, <1>01, <1>4, LookedUp
  <2>2. proc' \in [Procs -> ProcState]
    BY <1>00, <1>4, LookedUp DEF Becomes
  <2> QED BY <1>00, <1>4, <2>1, <2>2
          DEF Look, TypeOK, ProcState, queue, tables, rest
<1> USE DEF TypeOK, ProcState, Becomes, queue, tables, rest
<1>0. /\ TypeOK /\ "api" \in Procs /\ "runner" \in Procs
      /\ NoGraph \in GraphState
      /\ \A p \in Procs : Flushed(p) \in GraphState
  BY DEF Procs, NoGraph, GraphState, Wakeups, Flushed, BaseInv
<1>2. CASE CreateRun
  <2>1. mem["api"].status \in Statuses /\ mem["api"].wakeup \in Wakeups
    <3>1. mem["api"].node = "await_classify"
      BY <1>2 DEF BaseInv, ApiShape, CreateRun
    <3> QED BY <1>0, <3>1
               DEF BaseInv, GraphsShaped, Shape, Statuses, GraphState
  <2>2. run' \in [status : Statuses \cup {"absent"}, wakeup : Wakeups,
                  lease : {"none", "live", "expired"}]
    BY <1>0, <1>2, <2>1 DEF CreateRun, InsertedRun
  <2>3. proc' \in [Procs -> ProcState]
    BY <1>0, <1>2, EndedProcess
  <2>4. cp' \in GraphState /\ mem' \in [Procs -> GraphState]
    BY <1>0, <1>2 DEF CreateRun
  <2> QED BY <1>0, <1>2, <2>2, <2>3, <2>4 DEF CreateRun
<1>3. CASE Claim
  <2>1. proc' \in [Procs -> ProcState]
    BY <1>0, <1>3, ClaimedProcess
  <2>2. run' \in [status : Statuses \cup {"absent"}, wakeup : Wakeups,
                  lease : {"none", "live", "expired"}]
    BY <1>0, <1>3 DEF Claim
  <2> QED BY <1>0, <1>3, <2>1, <2>2 DEF Claim
<1>5. CASE Release
  <2>1. proc' \in [Procs -> ProcState]
    BY <1>0, <1>5, EndedProcess
  <2>2. run' \in [status : Statuses \cup {"absent"}, wakeup : Wakeups,
                  lease : {"none", "live", "expired"}]
    BY <1>0, <1>5 DEF Release
  <2> QED BY <1>0, <1>5, <2>1, <2>2 DEF Release
<1>6. CASE SaveRun
  <2>1. mem["runner"].status \in Statuses
    <3>1. mem["runner"].node \notin {"none", "start"}
      BY <1>6 DEF BaseInv, RunnerShape, Active, SaveRun
    <3>2. mem["runner"].node \in Nodes \cup {"end"}
      BY <1>0, <3>1 DEF GraphState
    <3> QED BY <1>0, <3>2
            DEF BaseInv, GraphsShaped, Shape, Statuses, Terminal, Nodes
  <2>2. NextWakeup(mem["runner"]) \in Wakeups
    BY <1>0 DEF NextWakeup, GraphState, Wakeups
  <2>3. run' \in [status : Statuses \cup {"absent"}, wakeup : Wakeups,
                  lease : {"none", "live", "expired"}]
    BY <1>0, <1>6, <2>1, <2>2 DEF SaveRun
  <2>4. proc' \in [Procs -> ProcState]
    BY <1>0, <1>6, EndedProcess
  <2>5. signals' \in Seq([approved : BOOLEAN, consumed : BOOLEAN])
        /\ Len(signals') <= MaxSignals
    BY <1>0, <1>6, SignalSteps DEF Signal
  <2>6. cp' \in GraphState /\ mem' \in [Procs -> GraphState]
    BY <1>0, <1>6 DEF SaveRun
  <2> QED BY <1>0, <1>6, <2>3, <2>4, <2>5, <2>6 DEF SaveRun
<1>7. ASSUME NEW p \in Procs, Crash(p)
      PROVE  TypeOK'
  <2>1. proc' \in [Procs -> ProcState]
    BY <1>0, <1>7, EndedProcess
  <2>2. mem' \in [Procs -> GraphState]
    BY <1>0, <1>7 DEF Crash
  <2>3. faults' \in [crashes : 0..MaxCrashes, lostWakes : 0..MaxLostWakes]
    BY <1>0, <1>7, RunAssumption DEF Crash
  <2> QED BY <1>0, <1>7, <2>1, <2>2, <2>3 DEF Crash
<1> QED BY <1>1, <1>2, <1>3, <1>4, <1>5, <1>6, <1>7

\* What happens outside the processes of the graph: decisions, leases, workers
\* and time.
TableStep ==
    \/ \E approved \in BOOLEAN : SubmitApproval(approved)
    \/ RunLeaseExpires \/ ReclaimRuns \/ ReconcileRead \/ ReconcileInsert
    \/ \E k \in TaskKeys : \/ Lease(k) \/ Requeue(k) \/ Settle(k)
                          \/ WakeRun(k) \/ WorkerDies(k)
    \/ \E t \in Timers : DeadlinePasses(t)

\* It leaves every graph state alone, and settles only tasks that are leased.
LEMMA TableSteps ==
  ASSUME TypeOK, TableStep
  PROVE  /\ UNCHANGED <<cp, mem, proc, payload, raised>>
         /\ task' \in [TaskKeys -> TaskStatus]
         /\ \A j \in TaskKeys :
               /\ task[j] = "absent" <=> task'[j] = "absent"
               /\ task[j] \in {"done", "failed"} => task'[j] = task[j]
               /\ task'[j] = "pending" => task[j] \in {"pending", "leased"}
<1>1. ASSUME NEW k \in TaskKeys,
             Lease(k) \/ Requeue(k) \/ CompleteTask(k) \/ FailTask(k)
      PROVE  /\ task' \in [TaskKeys -> TaskStatus]
             /\ \A j \in TaskKeys :
                   /\ task[j] = "absent" <=> task'[j] = "absent"
                   /\ task[j] \in {"done", "failed"} => task'[j] = task[j]
                   /\ task'[j] = "pending" => task[j] \in {"pending", "leased"}
  <2>1. PICK st \in TaskStatus \ {"absent"} :
          /\ task' = [task EXCEPT ![k] = st]
          /\ IF st = "leased" THEN task[k] = "pending" ELSE task[k] = "leased"
    BY <1>1 DEF Lease, Requeue, CompleteTask, FailTask, TaskStatus
  <2>2. task \in [TaskKeys -> TaskStatus]
    BY DEF TypeOK, TaskStatus
  <2> QED BY <2>1, <2>2 DEF TaskStatus
<1>2. \/ UNCHANGED task
      \/ \E k \in TaskKeys :
            Lease(k) \/ Requeue(k) \/ CompleteTask(k) \/ FailTask(k)
  BY DEF TableStep, SubmitApproval, RunLeaseExpires, ReclaimRuns,
         ReconcileRead, ReconcileInsert, WakeRun, WorkerDies, DeadlinePasses,
         Settle, queue
<1>3. UNCHANGED <<cp, mem, proc, payload, raised>>
  BY DEF TableStep, SubmitApproval, RunLeaseExpires, ReclaimRuns,
         ReconcileRead, ReconcileInsert, Lease, Requeue, CompleteTask, FailTask,
         WakeRun, WorkerDies, DeadlinePasses, Settle, queue, graph, rest
<1> QED BY <1>1, <1>2, <1>3 DEF TypeOK, TaskStatus

\* It keeps the types.
LEMMA TablesTyped ==
  ASSUME BaseInv, TableStep
  PROVE  TypeOK'
<1>0. /\ TypeOK
      /\ UNCHANGED <<cp, mem, proc, payload, raised>>
      /\ task' \in [TaskKeys -> TaskStatus]
  BY TableSteps DEF BaseInv
<1> DEFINE RunType == [status : Statuses \cup {"absent"}, wakeup : Wakeups,
                       lease : {"none", "live", "expired"}]
           SeenType == [status : Statuses \cup {"absent"}, wakeup : Wakeups,
                        lease : {"none"}]
<1>1. run \in RunType /\ seen \in SeenType /\ "now" \in Wakeups
  BY <1>0 DEF TypeOK, Wakeups
<1>2. ASSUME NEW s \in SeenType
      PROVE  InsertedRun(s.status, s.wakeup) \in RunType
  BY <1>1 DEF InsertedRun
<1>3. run' \in RunType /\ seen' \in SeenType
  <2>1. CASE ReconcileRead
    <3>1. cp.node \in Nodes \cup {"end"}
      BY <1>0, <2>1 DEF ReconcileRead, TypeOK, GraphState
    <3>2. cp.status \in Statuses /\ cp.wakeup \in Wakeups
      BY <1>0, <3>1
         DEF BaseInv, GraphsShaped, Shape, Statuses, Terminal, Nodes, TypeOK,
             GraphState
    <3> QED BY <1>1, <2>1, <3>2 DEF ReconcileRead, tables, NoRun
  <2>2. CASE ReconcileInsert
    BY <1>1, <1>2, <2>2 DEF ReconcileInsert, NoRun, Wakeups
  <2>3. CASE \E k \in TaskKeys : WakeRun(k)
    BY <1>1, <2>3 DEF WakeRun, rest
  <2>4. CASE \/ RunLeaseExpires \/ ReclaimRuns
             \/ \E approved \in BOOLEAN : SubmitApproval(approved)
    BY <1>1, <2>4 DEF RunLeaseExpires, ReclaimRuns, SubmitApproval, rest
  <2>5. CASE \/ \E k \in TaskKeys : \/ Lease(k) \/ Requeue(k) \/ Settle(k)
                                   \/ WorkerDies(k)
             \/ \E t \in Timers : DeadlinePasses(t)
    BY <1>1, <2>5 DEF Lease, Requeue, Settle, CompleteTask, FailTask,
                      WorkerDies, DeadlinePasses, tables, rest
  <2> QED BY <2>1, <2>2, <2>3, <2>4, <2>5 DEF TableStep
<1>4. /\ signals' \in Seq([approved : BOOLEAN, consumed : BOOLEAN])
      /\ Len(signals') <= MaxSignals
  <2>1. \/ UNCHANGED signals
        \/ \E approved \in BOOLEAN : SubmitApproval(approved)
    BY DEF TableStep, RunLeaseExpires, ReclaimRuns, ReconcileRead,
           ReconcileInsert, Lease, Requeue, Settle, CompleteTask, FailTask,
           WakeRun, WorkerDies, DeadlinePasses, tables
  <2>2. CASE UNCHANGED signals
    BY <1>0, <2>2 DEF TypeOK
  <2>3. ASSUME NEW approved \in BOOLEAN, SubmitApproval(approved)
        PROVE  signals' \in Seq(Signal) /\ Len(signals') <= MaxSignals
    BY <1>0, <2>3, SignalSteps
  <2> QED BY <2>1, <2>2, <2>3 DEF Signal
<1>5. /\ answer' \in [DraftKeys -> Drafts \cup {"none"}]
      /\ owed' \subseteq TaskKeys
  <2>1. CASE \E k \in TaskKeys : CompleteTask(k)
    BY <1>0, <2>1 DEF CompleteTask, TypeOK
  <2>2. CASE ~\E k \in TaskKeys : CompleteTask(k)
    <3>1. answer' = answer
      BY <2>2
         DEF TableStep, SubmitApproval, RunLeaseExpires, ReclaimRuns,
             ReconcileRead, ReconcileInsert, Lease, Requeue, Settle, FailTask,
             WakeRun, WorkerDies, DeadlinePasses, queue
    <3>2. \E k \in TaskKeys : owed' \in {owed, owed \cup {k}, owed \ {k}}
      BY <2>2, KeysAre
         DEF TableStep, SubmitApproval, RunLeaseExpires, ReclaimRuns,
             ReconcileRead, ReconcileInsert, Lease, Requeue, Settle, FailTask,
             WakeRun, WorkerDies, DeadlinePasses, queue
    <3> QED BY <1>0, <3>1, <3>2 DEF TypeOK
  <2> QED BY <2>1, <2>2
<1>6. faults' \in [crashes : 0..MaxCrashes, lostWakes : 0..MaxLostWakes]
  <2>1. \/ UNCHANGED faults
        \/ /\ faults.lostWakes < MaxLostWakes
           /\ faults' = [faults EXCEPT !.lostWakes = @ + 1]
    BY DEF TableStep, SubmitApproval, RunLeaseExpires, ReclaimRuns,
           ReconcileRead, ReconcileInsert, Lease, Requeue, Settle, CompleteTask,
           FailTask, WakeRun, WorkerDies, DeadlinePasses, rest
  <2> QED BY <1>0, <2>1, RunAssumption DEF TypeOK
<1>7. deadline' \in [Timers -> {"unset", "ahead", "passed"}]
  <2>1. UNCHANGED deadline \/ \E t \in Timers : DeadlinePasses(t)
    BY DEF TableStep, SubmitApproval, RunLeaseExpires, ReclaimRuns,
           ReconcileRead, ReconcileInsert, Lease, Requeue, Settle, CompleteTask,
           FailTask, WakeRun, WorkerDies, graph
  <2>2. \/ UNCHANGED deadline
        \/ \E t \in Timers : deadline' = [deadline EXCEPT ![t] = "passed"]
    BY <2>1 DEF DeadlinePasses
  <2>3. deadline \in [Timers -> {"unset", "ahead", "passed"}]
    BY <1>0 DEF TypeOK
  <2> QED BY <2>2, <2>3
<1> HIDE DEF RunType, SeenType
<1>8. /\ cp' = cp /\ mem' = mem /\ proc' = proc /\ payload' = payload
      /\ raised' = raised
  BY <1>0
<1> QED BY <1>0, <1>3, <1>4, <1>5, <1>6, <1>7, <1>8
        DEF TypeOK, TaskStatus, RunType, SeenType

-----------------------------------------------------------------------------
(* Superstep by superstep, the graph keeps its shape *)

\* Only the runner resumes, and only at an interrupt.
LEMMA ResumesParked ==
  ASSUME BaseInv, NEW p \in Procs, proc[p].pc = "invoking",
         proc[p].resume # "none"
  PROVE  p = "runner" /\ mem[p].parked > 0
<1>1. p = "runner"
  BY DEF BaseInv, ApiShape, Procs
<1>2. mem[p].parked \in 0..2
  BY DEF BaseInv, TypeOK, GraphState
<1> QED BY <1>1, <1>2 DEF BaseInv, RunnerShape, Active

\* What enqueueing the terminal task, or a task of an agent, leaves of
\* PayloadKnown.
LEMMA PayloadKept ==
  ASSUME BaseInv, NEW p \in Procs
  PROVE  /\ EnqueueFinalize(p) =>
               /\ PayloadKnown' /\ task'["finalize"] # "absent"
               /\ payload'.status \in Terminal
               /\ PayloadHeld =>
                     /\ PayloadHeld'
                     /\ payload.status # "none" => UNCHANGED payload
               /\ \A k \in AgentKeys : task'[k] = task[k]
         /\ UNCHANGED payload /\ task'["finalize"] = task["finalize"] =>
               PayloadKnown' /\ (PayloadHeld => PayloadHeld')
<1>1. /\ task \in [TaskKeys -> TaskStatus] /\ "finalize" \in TaskKeys
      /\ payload \in [status : Terminal \cup {"none"}, refund : BOOLEAN]
      /\ PayloadKnown
  BY KeysAre DEF BaseInv, TypeOK, TaskStatus
<1>2. FinalStatus(mem[p]) \in Terminal /\ "none" \notin Terminal
  BY DEF FinalStatus, Terminal
<1>3. \A k \in AgentKeys : k \in TaskKeys \ {"finalize"}
  BY DEF AgentKeys, AgentStages, Fallback, TaskKeys
<1>4. ASSUME EnqueueFinalize(p)
      PROVE  /\ PayloadKnown' /\ task'["finalize"] # "absent"
             /\ payload'.status \in Terminal
             /\ PayloadHeld =>
                   /\ PayloadHeld'
                   /\ payload.status # "none" => UNCHANGED payload
             /\ \A k \in AgentKeys : task'[k] = task[k]
  <2>1. /\ task'["finalize"] # "absent"
        /\ \A k \in AgentKeys : task'[k] = task[k]
    BY <1>1, <1>3, <1>4, InsertedTasks DEF EnqueueFinalize
  <2>2. /\ payload'.status \in Terminal
        /\ PayloadHeld /\ payload.status # "none" => UNCHANGED payload
    BY <1>1, <1>2, <1>4 DEF EnqueueFinalize, PayloadKnown, PayloadHeld
  <2> QED BY <1>2, <2>1, <2>2 DEF PayloadKnown, PayloadHeld
<1> QED BY <1>1, <1>4 DEF PayloadKnown, PayloadHeld

\* Tasks are not taken back by a superstep, and a settled task stays settled.
\* The payload is only ever rewritten if the terminal task has been pruned.
LEMMA MoveGrows ==
  ASSUME BaseInv, NEW p \in Procs, Superstep(p)
  PROVE  /\ \A k \in TaskKeys :
               /\ task[k] # "absent" => task'[k] # "absent"
               /\ task[k] \in {"done", "failed"} => task'[k] = task[k]
         /\ payload.status # "none" => payload'.status # "none"
         /\ PayloadKnown'
         /\ PayloadHeld =>
               /\ PayloadHeld'
               /\ payload.status # "none" => UNCHANGED payload
<1>1. task \in [TaskKeys -> TaskStatus] /\ "finalize" \in TaskKeys
  BY KeysAre DEF BaseInv, TypeOK, TaskStatus
<1> DEFINE Grown(t) == \A k \in TaskKeys :
              /\ task[k] # "absent" => t[k] # "absent"
              /\ task[k] \in {"done", "failed"} => t[k] = task[k]
<1>2. \A k \in TaskKeys : Grown(Enqueued(task, k))
  BY <1>1, InsertedTasks
<1>3. \A s \in AgentStages :
         /\ Grown(Redispatched(s)) /\ Grown(Rerun(p, s))
         /\ Redispatched(s)["finalize"] = task["finalize"]
         /\ Rerun(p, s)["finalize"] = task["finalize"]
  <2> TAKE s \in AgentStages
  <2>1. /\ s \in TaskKeys /\ Fallback[s] \in TaskKeys /\ Fallback[s] # s
        /\ "finalize" \notin {s, Fallback[s]}
    BY KeysAre DEF AgentStages
  <2>2. Grown(Redispatched(s)) /\ Redispatched(s)["finalize"] = task["finalize"]
    <3>1. CASE task[s] = "pending"
      BY <1>1, <2>1, <3>1, InsertedTasks
    <3>2. CASE task[s] # "pending"
      BY <1>1, <3>2, InsertedTasks
    <3> QED BY <3>1, <3>2
  <2> QED BY <2>2 DEF Rerun
<1>4. ASSUME EnqueueFinalize(p)
      PROVE  Grown(task')
  BY <1>1, <1>2, <1>4 DEF EnqueueFinalize
<1>5. Grown(task) /\ "none" \notin Terminal
  BY DEF Terminal
<1> DEFINE Kept == /\ PayloadKnown'
                   /\ payload.status # "none" => payload'.status # "none"
                   /\ PayloadHeld =>
                         /\ PayloadHeld'
                         /\ payload.status # "none" => UNCHANGED payload
<1>6. ASSUME Raises(p)
      PROVE  Grown(task') /\ Kept
  <2>1. Grown(task')
    BY <1>3, <1>4, <1>6 DEF Raises
  <2>2. Kept
    BY <1>3, <1>5, <1>6, PayloadKept DEF Raises
  <2> QED BY <2>1, <2>2
<1>7. ASSUME NEW g \in GraphState, DraftingMove(p, g), UNCHANGED payload
      PROVE  Grown(task') /\ Kept
  <2>1. /\ "classify" \in TaskKeys /\ "draft" \in TaskKeys
        /\ "classify" # "finalize" /\ "draft" # "finalize"
    BY KeysAre
  <2>2. Grown(task')
    BY <1>2, <1>3, <1>5, <1>7, <2>1 DEF DraftingMove
  <2>3. task'["finalize"] = task["finalize"]
    BY <1>1, <1>3, <1>7, <2>1, InsertedTasks DEF DraftingMove
  <2> QED BY <1>7, <2>2, <2>3, PayloadKept
<1>8. ASSUME NEW g \in GraphState, DecidingMove(p, g)
      PROVE  Grown(task') /\ Kept
  <2>1. CASE EnqueueFinalize(p)
    BY <1>4, <1>5, <2>1, PayloadKept
  <2>2. CASE UNCHANGED <<task, payload>>
    BY <1>5, <2>2, PayloadKept
  <2> QED BY <1>8, <2>1, <2>2 DEF DecidingMove
<1> HIDE DEF Grown, Kept
<1>9. Grown(task') /\ Kept
  <2>1. TypeOK /\ AwaitsDraft(p)
    BY ShapeAwaitsDraft DEF BaseInv
  <2>2. \/ Raises(p)
        \/ \E g \in GraphState : \/ DraftingMove(p, g) /\ UNCHANGED payload
                               \/ DecidingMove(p, g)
    BY <2>1, Supersteps
  <2> QED BY <1>6, <1>7, <1>8, <2>2
<1> QED BY <1>9 DEF Grown, Kept

\* The state a superstep leads to has the shape of its node.
LEMMA MoveShaped ==
  ASSUME BaseInv, NEW p \in Procs, NEW g \in GraphState, Superstep(p),
         Stores(p, g), DraftingMove(p, g) \/ DecidingMove(p, g)
  PROVE  /\ Shape(g)
         /\ g.node = "execute" /\ g.parked > 0 => payload'.status # "none"
<1> DEFINE m == mem[p]
<1>1. /\ m \in GraphState /\ Shape(m) /\ FinalizeKnown(m) /\ PayloadKnown
      /\ payload \in [status : Terminal \cup {"none"}, refund : BOOLEAN]
  BY DEF BaseInv, TypeOK, GraphsShaped
<1>2. proc[p].pc = "invoking"
  BY Supersteps, ShapeAwaitsDraft DEF BaseInv
<1>3. proc[p].resume # "none" => m.parked > 0
  BY <1>2, ResumesParked
<1>4. CASE DraftingMove(p, g)
  <2> DEFINE Entry(node, st) == g.node = node /\ Quiet(g) /\ g.status = st
             ParksAgent(s) == /\ m.node = AwaitNode(s)
                              /\ \/ Parks(m, g, 1, s)
                                 \/ Parks(m, g, 2, RedispatchKey(s))
             EntersStage == \/ Entry("dispatch_classify", "received")
                            \/ Entry("await_classify", "classifying")
                            \/ Entry("dispatch_draft", "classifying")
                            \/ Entry("await_draft", "drafting")
                            \/ Entry("decide_approval", "drafting")
                            \/ Entry("execute", "escalated")
  <2>1. EntersStage \/ \E s \in AgentStages : ParksAgent(s)
    BY <1>4 DEF DraftingMove, Enters, Quiet
  <2>2. ~(0 > 0) /\ 1 > 0 /\ 2 > 0
    OBVIOUS
  <2>3. ASSUME NEW s \in AgentStages, ParksAgent(s)
        PROVE  Shape(g) /\ g.node # "execute"
    <3>1. m.status = IF s = "classify" THEN "classifying" ELSE "drafting"
      BY <1>1, <2>3 DEF Shape, AwaitNode, AgentStages
    <3>2. /\ RedispatchKey(s) \in {s, Fallback[s]}
          /\ s # "none" /\ Fallback[s] # "none"
      BY KeysAre DEF RedispatchKey, AgentStages
    <3> HIDE DEF m
    <3> QED BY <2>2, <2>3, <3>1, <3>2
            DEF Shape, Waits, Parks, AwaitNode, AgentStages
  <2>4. CASE EntersStage
    <3>1. Shape(g)
      BY <2>2, <2>4 DEF Shape, Waits, Quiet
    <3>2. g.parked = 0
      BY <2>4 DEF Quiet
    <3> QED BY <2>2, <3>1, <3>2
  <2> HIDE DEF EntersStage, ParksAgent
  <2> QED BY <2>1, <2>3, <2>4
<1>5. CASE DecidingMove(p, g)
  <2>1. CASE m.node = "execute"
    <3>1. /\ EnqueueFinalize(p)
          /\ \/ Parks(m, g, 1, "finalize")
             \/ /\ proc[p].resume = "result"
                /\ Enters(g, "end", payload.status, m.draft)
      BY <1>5, <2>1 DEF DecidingMove
    <3>2. payload'.status # "none"
      BY <3>1, PayloadKept DEF Terminal
    <3>3. CASE Parks(m, g, 1, "finalize")
      BY <1>1, <2>1, <3>2, <3>3 DEF Shape, Parks
    <3>4. CASE /\ proc[p].resume = "result"
               /\ Enters(g, "end", payload.status, m.draft)
      <4>1. payload.status \in Terminal
        BY <1>1, <1>3, <2>1, <3>4 DEF FinalizeKnown, Terminal
      <4> QED BY <3>2, <3>4, <4>1 DEF Shape, Enters, Quiet
    <3> QED BY <3>1, <3>3, <3>4
  <2>2. CASE m.node = "await_approval"
    BY <1>1, <1>5, <2>2 DEF DecidingMove, Shape, Enters, Parks, Quiet
  <2>3. CASE m.node \in {"decide_approval", "prepare_approval"}
    BY <1>1, <1>5, <2>3 DEF DecidingMove, Shape, Enters, Quiet
  <2> QED BY <1>5, <2>1, <2>2, <2>3 DEF DecidingMove
<1> QED BY <1>4, <1>5

\* A superstep keeps all of it.
LEMMA SuperstepShaped ==
  ASSUME BaseInv, NEW p \in Procs, Superstep(p)
  PROVE  BaseInv'
<1>0. TypeOK /\ AwaitsDraft(p) /\ proc[p].pc = "invoking"
  BY ShapeAwaitsDraft, Supersteps DEF BaseInv
<1>1. TypeOK'
  BY <1>0, SuperstepTyped
<1>2. /\ PayloadKnown'
      /\ payload.status # "none" => payload'.status # "none"
  BY MoveGrows
<1>3. CASE Raises(p)
  <2>1. /\ cp' = cp /\ mem' = [mem EXCEPT ![p] = NoGraph]
        /\ Becomes(p, "idle", "none", 0)
    BY <1>0, <1>3, EndedProcess DEF Raises, Raise
  <2>2. p = "runner"
    BY <1>0, <1>3, ResumesParked DEF Raises
  <2>3. /\ mem'["runner"] = NoGraph /\ mem'["api"] = mem["api"]
        /\ proc'["api"] = proc["api"]
    BY <1>0, <2>1, <2>2 DEF TypeOK, Procs, Becomes
  <2>4. Shape(NoGraph) /\ ~(NoGraph.node = "execute") /\ NoGraph.node = "none"
    BY DEF NoGraph, Shape, Quiet
  <2>5. GraphsShaped'
    BY <1>2, <2>1, <2>3, <2>4 DEF BaseInv, GraphsShaped, FinalizeKnown, Procs
  <2>6. ApiShape'
    BY <2>3 DEF BaseInv, ApiShape
  <2>7. RunnerShape'
    BY <2>1, <2>2, <2>3, <2>4 DEF Becomes, RunnerShape, Active
  <2> QED BY <1>1, <1>2, <2>5, <2>6, <2>7 DEF BaseInv
<1>4. ASSUME NEW g \in GraphState, Stores(p, g),
             DraftingMove(p, g) \/ DecidingMove(p, g)
      PROVE  BaseInv'
  <2> DEFINE m == mem[p]
  <2>1. /\ Shape(g)
        /\ g.node = "execute" /\ g.parked > 0 => payload'.status # "none"
    BY <1>4, MoveShaped
  <2>2. /\ mem'[p] = g /\ \A q \in Procs \ {p} : mem'[q] = mem[q]
        /\ \A q \in Procs \ {p} : proc'[q] = proc[q]
        /\ cp' \in {cp, g}
        /\ proc'[p].resume = "none" /\ proc'[p].signal = proc[p].signal
        /\ proc'[p].pc = IF g.parked > 0 \/ g.node = "end" THEN "returning"
                                                          ELSE "invoking"
    BY <1>0, <1>4 DEF Stores, TypeOK
  <2>3. GraphsShaped'
    BY <1>2, <2>1, <2>2 DEF BaseInv, GraphsShaped, FinalizeKnown
  <2>4. g.parked \in 0..2 /\ m.parked \in 0..2
    BY <1>0, <1>4 DEF GraphState, TypeOK
  <2>5. m.node \notin {"none", "start", "dispatch_classify"} =>
           g.node \notin {"none", "start", "dispatch_classify"}
    BY <1>4
       DEF DraftingMove, DecidingMove, Enters, Parks, AwaitNode, AgentStages
  <2>6. CASE p = "runner"
    <3>1. ApiShape'
      BY <2>2, <2>6 DEF BaseInv, ApiShape, Procs
    <3>2. m.node \notin {"none", "start", "dispatch_classify"}
      BY <1>0, <2>6 DEF BaseInv, RunnerShape, Active
    <3>3. RunnerShape'
      BY <2>2, <2>4, <2>5, <2>6, <3>2 DEF RunnerShape, Active
    <3> QED BY <1>1, <1>2, <2>3, <3>1, <3>3 DEF BaseInv
  <2>7. CASE p = "api"
    <3>1. RunnerShape'
      BY <2>2, <2>7 DEF BaseInv, RunnerShape, Active, Procs
    <3>2. /\ m.node \in Early \ {"none"} /\ m.parked = 0
          /\ proc[p].resume = "none" /\ proc[p].signal = 0
      BY <1>0, <2>7 DEF BaseInv, ApiShape
    <3>3. \/ g.node \in Early \ {"none"} /\ g.parked = 0
          \/ g.node = "await_classify" /\ g.parked = 1
      BY <1>4, <3>2
         DEF DraftingMove, DecidingMove, Enters, Parks, AwaitNode, AgentStages,
             Early
    <3>4. ApiShape'
      BY <2>2, <2>7, <3>2, <3>3 DEF ApiShape, Early
    <3> QED BY <1>1, <1>2, <2>3, <3>1, <3>4 DEF BaseInv
  <2> QED BY <2>6, <2>7 DEF Procs
<1> QED BY <1>0, <1>3, <1>4, Supersteps

\* The other actions of the processes keep it.
LEMMA ProcessShaped ==
  ASSUME BaseInv,
         \/ CreateTicket \/ CreateRun \/ Claim \/ Look \/ Release \/ SaveRun
         \/ \E p \in Procs : Crash(p)
  PROVE  BaseInv'
<1>1. TypeOK' /\ TypeOK
  BY ProcessTyped DEF BaseInv
<1>2. UNCHANGED queue /\ PayloadKnown'
  BY DEF CreateTicket, CreateRun, Claim, Look, Release, SaveRun, Crash,
         BaseInv, PayloadKnown, queue
<1>3. /\ Shape(NoGraph) /\ NoGraph.node = "none" /\ NoGraph.parked = 0
      /\ LET g == [NoGraph EXCEPT !.node = "start"]
         IN  Shape(g) /\ g.node = "start" /\ g.parked = 0
      /\ ~(0 > 0)
  BY DEF NoGraph, Shape, Quiet
<1>4. /\ "api" \in Procs /\ "runner" \in Procs
      /\ \A p \in Procs : \A g :
            /\ [mem EXCEPT ![p] = g][p] = g
            /\ \A q \in Procs \ {p} : [mem EXCEPT ![p] = g][q] = mem[q]
  BY <1>1 DEF Procs, TypeOK
<1>5. ASSUME NEW p \in Procs, NEW g, mem' = [mem EXCEPT ![p] = g],
             cp' \in {cp, g, mem[p]}, Shape(g), FinalizeKnown(g)
      PROVE  GraphsShaped'
  BY <1>2, <1>4, <1>5 DEF BaseInv, GraphsShaped, FinalizeKnown, queue
<1>6. CASE CreateTicket
  <2> DEFINE g == [NoGraph EXCEPT !.node = "start"]
  <2>1. /\ Becomes("api", "invoking", proc["api"].resume, proc["api"].signal)
        /\ mem' = [mem EXCEPT !["api"] = g] /\ cp' \in {cp, g}
    BY <1>1, <1>6, RequestArrives
  <2>2. Shape(g) /\ g.node = "start" /\ g.parked = 0
    BY <1>3
  <2> HIDE DEF g
  <2>3. GraphsShaped'
    BY <1>4, <1>5, <2>1, <2>2 DEF FinalizeKnown
  <2>4. mem'["api"] = g /\ mem'["runner"] = mem["runner"]
    BY <1>4, <2>1
  <2>5. ApiShape'
    BY <2>1, <2>2, <2>4 DEF BaseInv, ApiShape, Becomes, Early
  <2>6. RunnerShape'
    BY <1>4, <2>1, <2>4 DEF BaseInv, RunnerShape, Active, Becomes
  <2> QED BY <1>1, <1>2, <2>3, <2>5, <2>6 DEF BaseInv
<1>7. CASE CreateRun
  <2>1. /\ Becomes("api", "done", "none", 0)
        /\ mem' = [mem EXCEPT !["api"] = NoGraph] /\ cp' \in {cp, mem["api"]}
    <3>1. Becomes("api", "done", "none", 0)
      BY <1>1, <1>4, <1>7, EndedProcess
    <3> QED BY <1>7, <3>1 DEF CreateRun, Flushed
  <2>2. mem'["api"] = NoGraph /\ mem'["runner"] = mem["runner"]
    BY <1>4, <2>1
  <2>3. GraphsShaped'
    BY <1>3, <1>4, <1>5, <2>1 DEF FinalizeKnown
  <2>4. ApiShape'
    BY <1>3, <2>1, <2>2 DEF ApiShape, Becomes
  <2>5. RunnerShape'
    BY <1>4, <2>1, <2>2 DEF BaseInv, RunnerShape, Active, Becomes
  <2> QED BY <1>1, <1>2, <2>3, <2>4, <2>5 DEF BaseInv
<1>8. CASE SaveRun
  <2>1. /\ Becomes("runner", "idle", "none", 0)
        /\ mem' = [mem EXCEPT !["runner"] = NoGraph]
        /\ cp' \in {cp, mem["runner"]}
    <3>1. Becomes("runner", "idle", "none", 0)
      BY <1>1, <1>4, <1>8, EndedProcess
    <3> QED BY <1>8, <3>1 DEF SaveRun, Flushed
  <2>2. mem'["runner"] = NoGraph /\ mem'["api"] = mem["api"]
    BY <1>4, <2>1
  <2>3. GraphsShaped'
    BY <1>3, <1>4, <1>5, <2>1 DEF FinalizeKnown
  <2>4. ApiShape'
    BY <1>4, <2>1, <2>2 DEF BaseInv, ApiShape, Becomes
  <2>5. RunnerShape'
    BY <1>3, <2>1, <2>2 DEF RunnerShape, Active, Becomes
  <2> QED BY <1>1, <1>2, <2>3, <2>4, <2>5 DEF BaseInv
<1>9. ASSUME NEW p \in Procs, Crash(p)
      PROVE  BaseInv'
  <2>1. /\ Becomes(p, IF p = "api" THEN "done" ELSE "idle", "none", 0)
        /\ mem' = [mem EXCEPT ![p] = NoGraph] /\ cp' = cp
    BY <1>1, <1>9, EndedProcess DEF Crash
  <2>2. mem'[p] = NoGraph /\ \A q \in Procs \ {p} : mem'[q] = mem[q]
    BY <1>4, <2>1
  <2>3. GraphsShaped'
    BY <1>3, <1>5, <2>1 DEF FinalizeKnown
  <2>4. ApiShape' /\ RunnerShape'
    <3>1. CASE p = "api"
      BY <1>3, <1>4, <2>1, <2>2, <3>1
         DEF BaseInv, ApiShape, RunnerShape, Active, Becomes
    <3>2. CASE p = "runner"
      BY <1>3, <1>4, <2>1, <2>2, <3>2
         DEF BaseInv, ApiShape, RunnerShape, Active, Becomes
    <3> QED BY <3>1, <3>2 DEF Procs
  <2> QED BY <1>1, <1>2, <2>3, <2>4 DEF BaseInv
<1>10. CASE Claim \/ Release
  <2>1. /\ UNCHANGED <<cp, mem>>
        /\ \E pc \in {"claimed", "idle"} : Becomes("runner", pc, "none", 0)
        /\ ~Active
    <3>1. \E pc \in {"claimed", "idle"} : Becomes("runner", pc, "none", 0)
      BY <1>1, <1>4, <1>10, ClaimedProcess, EndedProcess
    <3> QED BY <1>10, <3>1 DEF Claim, Release, Active
  <2>2. GraphsShaped' /\ ApiShape'
    BY <1>2, <1>4, <2>1
       DEF BaseInv, GraphsShaped, FinalizeKnown, ApiShape, Becomes, queue
  <2>3. RunnerShape'
    BY <2>1 DEF BaseInv, RunnerShape, Active, Becomes
  <2> QED BY <1>1, <1>2, <2>2, <2>3 DEF BaseInv
<1>11. CASE Look
  <2>1. ~Active /\ cp' = cp
    BY <1>11 DEF Look, Active
  <2>2. CASE /\ UNCHANGED mem
             /\ Becomes("runner", "releasing", proc["runner"].resume,
                        proc["runner"].signal)
    <3>1. GraphsShaped' /\ ApiShape'
      BY <1>2, <1>4, <2>1, <2>2
         DEF BaseInv, GraphsShaped, FinalizeKnown, ApiShape, Becomes, queue
    <3>2. RunnerShape'
      BY <2>1, <2>2 DEF BaseInv, RunnerShape, Active, Becomes
    <3> QED BY <1>1, <1>2, <3>1, <3>2 DEF BaseInv
  <2>3. CASE /\ cp.parked > 0 /\ ResumeValue # "none"
             /\ mem' = [mem EXCEPT !["runner"] = cp]
             /\ \E n : Becomes("runner", "invoking", ResumeValue, n)
    <3>1. mem'["runner"] = cp /\ mem'["api"] = mem["api"]
      BY <1>4, <2>3
    <3>2. cp.node \notin {"none", "start", "dispatch_classify"} /\ cp.parked # 0
      BY <1>3, <2>3 DEF BaseInv, GraphsShaped, Shape, Quiet
    <3>3. GraphsShaped'
      BY <1>4, <1>5, <2>1, <2>3 DEF BaseInv, GraphsShaped
    <3>4. ApiShape'
      BY <1>4, <2>3, <3>1 DEF BaseInv, ApiShape, Becomes
    <3>5. RunnerShape'
      BY <2>3, <3>1, <3>2 DEF RunnerShape, Active, Becomes
    <3> QED BY <1>1, <1>2, <3>3, <3>4, <3>5 DEF BaseInv
  <2> QED BY <1>1, <1>11, <2>2, <2>3, LookedUp
<1> QED BY <1>6, <1>7, <1>8, <1>9, <1>10, <1>11

\* The strengthened invariant is inductive.
LEMMA BaseInductive == BaseInv /\ [Next]_vars => BaseInv'
<1> SUFFICES ASSUME BaseInv, [Next]_vars PROVE BaseInv'
  OBVIOUS
<1>1. CASE TableStep
  <2>1. TypeOK' /\ TypeOK
    BY <1>1, TablesTyped DEF BaseInv
  <2>2. /\ UNCHANGED <<cp, mem, proc, payload>>
        /\ task["finalize"] = "absent" <=> task'["finalize"] = "absent"
    BY <1>1, <2>1, TableSteps, KeysAre
  <2> QED BY <2>1, <2>2
          DEF BaseInv, GraphsShaped, FinalizeKnown, PayloadKnown, ApiShape,
              RunnerShape, Active
<1>2. CASE UNCHANGED vars
  BY <1>2
     DEF vars, tables, queue, graph, rest, BaseInv, TypeOK, GraphsShaped,
         FinalizeKnown, PayloadKnown, ApiShape, RunnerShape, Active
<1>3. \/ TableStep \/ UNCHANGED vars
      \/ \E p \in Procs : Superstep(p)
      \/ CreateTicket \/ CreateRun \/ Claim \/ Look \/ Release \/ SaveRun
      \/ \E p \in Procs : Crash(p)
  BY DEF Next, TableStep
<1> QED BY <1>1, <1>2, <1>3, SuperstepShaped, ProcessShaped

\* So is that of the workflow on its own.
LEMMA ShapeInductive == ShapeInv /\ [Next]_vars => ShapeInv'
<1> SUFFICES ASSUME ShapeInv, [Next]_vars PROVE PayloadHeld'
  BY BaseInductive DEF ShapeInv
<1>1. CASE TableStep
  <2>1. TypeOK
    BY DEF ShapeInv, BaseInv
  <2> QED BY <1>1, <2>1, TableSteps, KeysAre DEF ShapeInv, PayloadHeld
<1>2. CASE \E p \in Procs : Superstep(p)
  BY <1>2, MoveGrows DEF ShapeInv
<1>3. CASE \/ CreateTicket \/ CreateRun \/ Claim \/ Look \/ Release \/ SaveRun
           \/ \E p \in Procs : Crash(p)
           \/ UNCHANGED vars
  BY <1>3 DEF CreateTicket, CreateRun, Claim, Look, Release, SaveRun, Crash,
              vars, queue, ShapeInv, PayloadHeld
<1> QED BY <1>1, <1>2, <1>3 DEF Next, TableStep

\* It holds before the ticket arrives.
LEMMA ShapeInit == Init => ShapeInv
<1> SUFFICES ASSUME Init PROVE ShapeInv
  OBVIOUS
<1>1. /\ NoGraph \in GraphState /\ Shape(NoGraph) /\ NoGraph.node = "none"
  BY DEF NoGraph, GraphState, Wakeups, Shape, Quiet
<1>2. /\ IdleProc \in ProcState /\ IdleProc.pc = "idle"
      /\ IdleProc.resume = "none" /\ IdleProc.signal = 0
  BY IdleRecord
<1>3. /\ signals \in Seq([approved : BOOLEAN, consumed : BOOLEAN])
      /\ Len(signals) <= MaxSignals
  BY RunAssumption DEF Init
<1>4. TypeOK
  <2>1. faults \in [crashes : 0..MaxCrashes, lostWakes : 0..MaxLostWakes]
    BY RunAssumption DEF Init
  <2> QED BY <1>1, <1>2, <1>3, <2>1
          DEF Init, TypeOK, ProcState, NoRun, Wakeups
<1>5. "finalize" \in TaskKeys /\ "api" \in Procs /\ "runner" \in Procs
  BY KeysAre DEF Procs
<1> QED BY <1>1, <1>2, <1>4, <1>5
        DEF Init, ShapeInv, BaseInv, GraphsShaped, FinalizeKnown, PayloadKnown,
            PayloadHeld, ApiShape, RunnerShape, Active

\* The strengthened invariant of a ticket's workflow: at each node the graph is
\* in one of a few states, and a process is where its graph is.
THEOREM GraphShaped == Spec => []ShapeInv
<1>1. Init => ShapeInv
  BY ShapeInit
<1>2. ShapeInv /\ [Next]_vars => ShapeInv'
  BY ShapeInductive
<1> QED BY <1>1, <1>2, PTL DEF Spec

\* Types of the state (TypeOK), which depend on it: save_run and create_run
\* write the status of a graph that has one, and a draft is always that of a
\* draft task.
THEOREM TypeCorrect == Spec => []TypeOK
<1>1. ShapeInv => TypeOK
  BY DEF ShapeInv, BaseInv
<1> QED BY <1>1, GraphShaped, PTL

-----------------------------------------------------------------------------
(* One worker at a time has the work of a stage *)

\* The tasks of a stage are written only by what enqueues or redispatches it.
LEMMA DispatchKept ==
  ASSUME ShapeInv, ExclusiveDispatch, [Next]_vars
  PROVE  ExclusiveDispatch'
<1> DEFINE Apart(t) == \A s \in AgentStages :
                          t[Fallback[s]] # "absent" => t[s] = "failed"
<1>1. /\ TypeOK /\ task \in [TaskKeys -> TaskStatus] /\ Apart(task)
      /\ \A s \in AgentStages :
            /\ s \in TaskKeys \ {"finalize"}
            /\ Fallback[s] \in TaskKeys \ {"finalize"}
            /\ s # Fallback[s]
            /\ \A r \in AgentStages : s # Fallback[r]
                                     /\ (r # s => Fallback[r] # Fallback[s])
  BY KeysAre
     DEF ShapeInv, BaseInv, TypeOK, TaskStatus, ExclusiveDispatch, AgentStages
<1>2. ASSUME NEW k \in AgentStages \cup {"finalize"}
      PROVE  Apart(Enqueued(task, k))
  <2> SUFFICES ASSUME NEW s \in AgentStages,
                      Enqueued(task, k)[Fallback[s]] # "absent"
               PROVE  Enqueued(task, k)[s] = "failed"
    OBVIOUS
  <2>1. k \in TaskKeys /\ Fallback[s] # k
    BY <1>1, KeysAre
  <2>2. task[s] = "failed"
    BY <1>1, <2>1, InsertedTasks
  <2> QED BY <1>1, <2>1, <2>2, InsertedTasks
<1>3. ASSUME NEW r \in AgentStages
      PROVE  /\ Apart(Redispatched(r))
             /\ Redispatched(r)["finalize"] = task["finalize"]
  <2>1. CASE task[r] # "pending"
    BY <1>1, <2>1, InsertedTasks
  <2>2. CASE task[r] = "pending"
    <3>1. "finalize" \in TaskKeys \ {r, Fallback[r]}
      BY <1>1, KeysAre
    <3>2. ASSUME NEW s \in AgentStages, s # r,
                 Redispatched(r)[Fallback[s]] # "absent"
          PROVE  Redispatched(r)[s] = "failed"
      <4>1. s \in TaskKeys \ {r, Fallback[r]}
            /\ Fallback[s] \in TaskKeys \ {r, Fallback[r]}
        BY <1>1, <3>2
      <4> QED BY <1>1, <3>2, <4>1, InsertedTasks
    <3>3. Redispatched(r)[r] = "failed"
      BY <1>1, <2>2, InsertedTasks
    <3> QED BY <1>1, <3>1, <3>2, <3>3, InsertedTasks
  <2> QED BY <2>1, <2>2
<1>4. ASSUME NEW p \in Procs, Superstep(p)
      PROVE  Apart(task')
  <2>1. \/ UNCHANGED task
        \/ \E k \in AgentStages \cup {"finalize"} : task' = Enqueued(task, k)
        \/ \E s \in AgentStages : task' = Redispatched(s)
    BY <1>4 DEF Superstep, Start, Dispatch, AwaitAgent, AgentTimeout,
         AgentFailed, AgentAnswered, AgentRaises, DecideApproval,
         PrepareApproval, AwaitApproval, Decided, Execute, Finalized,
         FinalizeRaises, EnqueueFinalize, Rerun, queue
  <2> QED BY <1>1, <1>2, <1>3, <2>1
<1>5. ASSUME TableStep
      PROVE  Apart(task')
  BY <1>1, <1>5, TableSteps
<1>6. ASSUME \/ CreateTicket \/ CreateRun \/ Claim \/ Look \/ Release
             \/ SaveRun \/ (\E p \in Procs : Crash(p)) \/ UNCHANGED vars
      PROVE  Apart(task')
  BY <1>1, <1>6 DEF CreateTicket, CreateRun, Claim, Look, Release, SaveRun,
                    Crash, vars, queue
<1>7. Apart(task')
  BY <1>4, <1>5, <1>6 DEF Next, TableStep
<1> QED BY <1>7 DEF ExclusiveDispatch

\* The throttled worker and the fallback worker never both have the same piece
\* of work (ExclusiveDispatch): redispatch_agent_task enqueues the fallback in
\* the transaction that takes the task away, and nothing gives it back.
THEOREM NoDoubleDispatch == Spec => []ExclusiveDispatch
<1>1. Init => ExclusiveDispatch
  BY KeysAre DEF Init, ExclusiveDispatch
<1>2. ShapeInv /\ ExclusiveDispatch /\ [Next]_vars => ExclusiveDispatch'
  BY DispatchKept
<1> QED BY <1>1, <1>2, GraphShaped, PTL DEF Spec

-----------------------------------------------------------------------------
(* How tables grow, and where graph states come from *)

\* Nothing that has been committed is taken back: tasks are there for good, an
\* outcome stays, and so do the payload and the decisions.
Grows ==
    /\ \A k \in TaskKeys :
          /\ task[k] # "absent" => task'[k] # "absent"
          /\ task[k] \in {"done", "failed"} => task'[k] = task[k]
    /\ \A k \in DraftKeys : task[k] = "done" => answer'[k] = answer[k]
    /\ payload.status # "none" => payload' = payload
    /\ \A i \in DOMAIN signals :
          /\ i \in DOMAIN signals'
          /\ signals'[i].approved = signals[i].approved

\* Every step of the workflow only adds to the tables.
LEMMA StepsGrow ==
  ASSUME ShapeInv, [Next]_vars
  PROVE  Grows
<1>0. /\ TypeOK /\ \A k \in DraftKeys : k \in TaskKeys
  BY DEF ShapeInv, BaseInv, DraftKeys, TaskKeys, AgentKeys, AgentStages,
         Fallback
<1>1. /\ \A k \in TaskKeys :
            /\ task[k] # "absent" => task'[k] # "absent"
            /\ task[k] \in {"done", "failed"} => task'[k] = task[k]
      /\ payload.status # "none" => payload' = payload
  <2>1. CASE \E p \in Procs : Superstep(p)
    BY <2>1, MoveGrows DEF ShapeInv
  <2>2. CASE TableStep
    BY <1>0, <2>2, TableSteps
  <2>3. CASE \/ CreateTicket \/ CreateRun \/ Claim \/ Look \/ Release
             \/ SaveRun \/ (\E p \in Procs : Crash(p)) \/ UNCHANGED vars
    BY <2>3 DEF CreateTicket, CreateRun, Claim, Look, Release, SaveRun, Crash,
                vars, queue
  <2> QED BY <2>1, <2>2, <2>3 DEF Next, TableStep
<1>2. \A k \in DraftKeys : task[k] = "done" => answer'[k] = answer[k]
  <2>1. CASE \E k \in TaskKeys : CompleteTask(k)
    BY <1>0, <2>1 DEF CompleteTask, TypeOK
  <2>2. ASSUME NEW p \in Procs, Superstep(p)
        PROVE  UNCHANGED answer
    BY <2>2, Supersteps, ShapeAwaitsDraft DEF ShapeInv, BaseInv, Stores, Raises
  <2>3. CASE ~\E k \in TaskKeys : CompleteTask(k)
    BY <2>2, <2>3
       DEF Next, CreateTicket, CreateRun, Claim, Look, Release, SaveRun, Crash,
           SubmitApproval, RunLeaseExpires, ReclaimRuns, ReconcileRead,
           ReconcileInsert, Lease, Requeue, Settle, FailTask, WakeRun,
           WorkerDies, DeadlinePasses, vars, queue
  <2> QED BY <2>1, <2>3
<1>3. \A i \in DOMAIN signals : /\ i \in DOMAIN signals'
                                /\ signals'[i].approved = signals[i].approved
  <2>1. CASE SaveRun
    BY <1>0, <2>1, SignalSteps
  <2>2. CASE \E approved \in BOOLEAN : SubmitApproval(approved)
    BY <1>0, <2>2, SignalSteps
  <2>3. ASSUME NEW p \in Procs, Superstep(p)
        PROVE  UNCHANGED signals
    BY <2>3, Supersteps, ShapeAwaitsDraft
       DEF ShapeInv, BaseInv, Stores, Raises, tables
  <2>4. CASE ~SaveRun /\ ~\E approved \in BOOLEAN : SubmitApproval(approved)
    BY <2>3, <2>4
       DEF Next, CreateTicket, CreateRun, Claim, Look, Release, Crash,
           RunLeaseExpires, ReclaimRuns, ReconcileRead, ReconcileInsert, Lease,
           Requeue, Settle, CompleteTask, FailTask, WakeRun, WorkerDies,
           DeadlinePasses, vars, tables
  <2> QED BY <2>1, <2>2, <2>4
<1> QED BY <1>1, <1>2, <1>3 DEF Grows

\* The graph state create_ticket begins with.
StartGraph == [NoGraph EXCEPT !.node = "start"]

\* The graph states that are around.
Around == {cp, NoGraph, StartGraph} \cup {mem[p] : p \in Procs}

\* A superstep that does not raise, to graph state g.
Moves(p, g) ==
    /\ Superstep(p) /\ Stores(p, g)
    /\ \/ DraftingMove(p, g) /\ UNCHANGED payload
       \/ DecidingMove(p, g)

\* A step moves one process on to a new graph state, or copies states around.
LEMMA GraphOrigins ==
  ASSUME BaseInv, [Next]_vars
  PROVE  \/ \E p \in Procs, g \in GraphState :
               /\ Moves(p, g)
               /\ mem'[p] = g /\ cp' \in {cp, g}
               /\ \A q \in Procs \ {p} : mem'[q] = mem[q]
         \/ /\ cp' \in Around
            /\ \A q \in Procs : mem'[q] \in Around
<1>0. /\ TypeOK /\ "api" \in Procs /\ "runner" \in Procs
      /\ \A p \in Procs : \A g :
            /\ [mem EXCEPT ![p] = g][p] = g
            /\ \A q \in Procs \ {p} : [mem EXCEPT ![p] = g][q] = mem[q]
  BY DEF BaseInv, TypeOK, Procs
<1>1. ASSUME NEW p \in Procs, Superstep(p), ~Raises(p)
      PROVE  \E g \in GraphState :
               /\ Moves(p, g)
               /\ mem'[p] = g /\ cp' \in {cp, g}
               /\ \A q \in Procs \ {p} : mem'[q] = mem[q]
  <2>1. PICK g \in GraphState : Moves(p, g)
    BY <1>0, <1>1, Supersteps, ShapeAwaitsDraft DEF Moves
  <2>2. mem' = [mem EXCEPT ![p] = g] /\ cp' \in {cp, g}
    BY <2>1 DEF Moves, Stores
  <2> QED BY <1>0, <2>1, <2>2
<1>2. ASSUME NEW p \in Procs, NEW g \in Around,
             mem' = [mem EXCEPT ![p] = g], cp' \in Around
      PROVE  cp' \in Around /\ \A q \in Procs : mem'[q] \in Around
  BY <1>0, <1>2 DEF Around
<1>3. \A p \in Procs : Flushed(p) \in Around
  BY DEF Flushed, Around
<1>4. /\ cp \in Around /\ NoGraph \in Around /\ StartGraph \in Around
      /\ \A q \in Procs : mem[q] \in Around
  BY DEF Around
<1>5. CASE \E p \in Procs : Raises(p) \/ Crash(p)
  BY <1>2, <1>4, <1>5 DEF Raises, Raise, Crash
<1>6. CASE CreateTicket
  BY <1>0, <1>2, <1>4, <1>6, RequestArrives DEF StartGraph
<1>7. CASE CreateRun \/ SaveRun
  BY <1>0, <1>2, <1>3, <1>4, <1>7 DEF CreateRun, SaveRun
<1>8. CASE Look
  BY <1>0, <1>2, <1>4, <1>8 DEF Look
<1>9. CASE TableStep \/ Claim \/ Release \/ UNCHANGED vars
  BY <1>0, <1>4, <1>9, TableSteps DEF Claim, Release, vars, graph
<1> QED BY <1>1, <1>5, <1>6, <1>7, <1>8, <1>9 DEF Next, TableStep

-----------------------------------------------------------------------------
(* A parked run waits for a task that is there *)

\* What a graph state waits for, or is about to wait for, is in the table.
Awaited(g) ==
    /\ \A s \in AgentStages : g.node = AwaitNode(s) => task[s] # "absent"
    /\ g.awaits # "none" => task[g.awaits] # "absent"

\* Whatever interrupt is on record names a task that is there.
AwaitInv == Awaited(cp) /\ \A p \in Procs : Awaited(mem[p])

\* A superstep commits the task before the graph waits for it.
LEMMA MoveAwaits ==
  ASSUME ShapeInv, AwaitInv, NEW p \in Procs, NEW g \in GraphState, Moves(p, g)
  PROVE  /\ \A s \in AgentStages : g.node = AwaitNode(s) => task'[s] # "absent"
         /\ g.awaits # "none" => task'[g.awaits] # "absent"
<1> DEFINE m == mem[p]
<1>0. /\ Grows /\ task \in [TaskKeys -> TaskStatus]
      /\ \A s \in AgentStages : /\ s \in TaskKeys /\ Fallback[s] \in TaskKeys
                                /\ s # Fallback[s] /\ AwaitNode(s) # "execute"
                                /\ AwaitNode(s) # "await_approval"
  BY StepsGrow, KeysAre
     DEF Moves, Next, ShapeInv, BaseInv, TypeOK, TaskStatus, AwaitNode,
         AgentStages
<1>1. Awaited(m) /\ Shape(m)
  BY DEF AwaitInv, ShapeInv, BaseInv, GraphsShaped
<1>2. CASE m.node = "start"
  BY <1>2 DEF Moves, DraftingMove, DecidingMove, Enters, AwaitNode, AgentStages
<1>3. CASE m.node \in {"dispatch_classify", "dispatch_draft"}
  <2>1. PICK s \in AgentStages : /\ task' = Enqueued(task, s)
                                 /\ g.node = AwaitNode(s) /\ g.awaits = "none"
    BY <1>3
       DEF Moves, DraftingMove, DecidingMove, Enters, AwaitNode, AgentStages
  <2>2. task'[s] # "absent"
    BY <1>0, <2>1, InsertedTasks
  <2>3. \A r \in AgentStages : AwaitNode(r) = AwaitNode(s) => r = s
    BY DEF AwaitNode, AgentStages
  <2> QED BY <2>1, <2>2, <2>3
<1>4. CASE \E s \in AgentStages : m.node = AwaitNode(s)
  <2>1. PICK s \in AgentStages : m.node = AwaitNode(s)
    BY <1>4
  <2>2. \A r \in AgentStages : AwaitNode(r) = AwaitNode(s) => r = s
    BY DEF AwaitNode, AgentStages
  <2>3. task'[s] # "absent"
    BY <1>0, <1>1, <2>1 DEF Awaited, Grows
  <2>4. \/ g.awaits = "none" /\ \A r \in AgentStages : g.node # AwaitNode(r)
        \/ g.node = m.node /\ g.awaits = s
        \/ /\ g.node = m.node /\ g.awaits = RedispatchKey(s)
           /\ task' = Redispatched(s)
    BY <2>1, <2>2
       DEF Moves, DraftingMove, DecidingMove, Enters, Parks, AwaitNode,
           AgentStages
  <2>5. task' = Redispatched(s) => task'[RedispatchKey(s)] # "absent"
    BY <1>0, <2>3, InsertedTasks DEF RedispatchKey
  <2> QED BY <2>1, <2>2, <2>3, <2>4, <2>5
<1>5. CASE m.node = "execute"
  <2>1. /\ EnqueueFinalize(p) /\ g.node \in {"execute", "end"}
        /\ g.awaits \in {"none", "finalize"}
    BY <1>5 DEF Moves, DraftingMove, DecidingMove, Enters, Parks, AwaitNode,
                AgentStages
  <2> QED BY <1>0, <2>1, PayloadKept DEF ShapeInv, AwaitNode, AgentStages
<1>6. CASE m.node \in {"decide_approval", "prepare_approval", "await_approval"}
  <2>1. g.awaits \in {"none", m.awaits} /\ m.awaits = "none"
    BY <1>1, <1>6 DEF Moves, DraftingMove, DecidingMove, Enters, Parks, Shape,
                      Quiet, AwaitNode, AgentStages
  <2>2. \A s \in AgentStages : g.node # AwaitNode(s)
    BY <1>6 DEF Moves, DraftingMove, DecidingMove, Enters, Parks, AwaitNode,
                AgentStages
  <2> QED BY <2>1, <2>2
<1> QED BY <1>2, <1>3, <1>4, <1>5, <1>6
        DEF Moves, DraftingMove, DecidingMove, AgentStages

\* The strengthening is inductive.
LEMMA AwaitInductive == ShapeInv /\ AwaitInv /\ [Next]_vars => AwaitInv'
<1> SUFFICES ASSUME ShapeInv, AwaitInv, [Next]_vars PROVE AwaitInv'
  OBVIOUS
<1>0. /\ Grows /\ \A s \in AgentStages : s \in TaskKeys
      /\ \A g \in GraphState : g.awaits \in TaskKeys \cup {"none"}
  BY StepsGrow, KeysAre DEF GraphState
<1>1. \A g \in Around : g \in GraphState /\ Awaited(g)
  <2>1. \A g \in {NoGraph, StartGraph} : g \in GraphState /\ Awaited(g)
    BY DEF NoGraph, StartGraph, GraphState, Wakeups, Awaited, AwaitNode,
           AgentStages
  <2> QED BY <2>1 DEF Around, AwaitInv, ShapeInv, BaseInv, TypeOK
<1>2. \A g \in GraphState : Awaited(g) =>
         /\ \A s \in AgentStages : g.node = AwaitNode(s) => task'[s] # "absent"
         /\ g.awaits # "none" => task'[g.awaits] # "absent"
  BY <1>0 DEF Awaited, Grows
<1>3. CASE /\ cp' \in Around
           /\ \A q \in Procs : mem'[q] \in Around
  BY <1>1, <1>2, <1>3 DEF AwaitInv, Awaited
<1>4. ASSUME NEW p \in Procs, NEW g \in GraphState, Moves(p, g),
             mem'[p] = g, cp' \in {cp, g},
             \A q \in Procs \ {p} : mem'[q] = mem[q]
      PROVE  AwaitInv'
  <2>1. \A h \in {cp} \cup {mem[q] : q \in Procs} :
           h \in GraphState /\ Awaited(h)
    BY <1>1 DEF Around
  <2> QED BY <1>2, <1>4, <2>1, MoveAwaits DEF AwaitInv, Awaited
<1> QED BY <1>3, <1>4, GraphOrigins DEF ShapeInv

\* A run that is parked for a task waits for one that is in the table
\* (AwaitedTaskExists), wherever a process has died: dispatch and redispatch
\* commit before the checkpoint that holds the interrupt.
THEOREM NoLostDispatch == Spec => []AwaitedTaskExists
<1>1. Init => AwaitInv
  BY DEF Init, AwaitInv, Awaited, NoGraph, AwaitNode, AgentStages
<1>2. AwaitInv => AwaitedTaskExists
  BY DEF AwaitInv, Awaited, AwaitedTaskExists
<1> QED BY <1>1, <1>2, AwaitInductive, GraphShaped, PTL DEF Spec
==============================================================================

-------------------------- MODULE SideEffectsProofs --------------------------
(***************************************************************************)
(* Theorems about SideEffects, for every set of tickets and side-effect    *)
(* slots and every set of tickets that are owed a refund.                  *)
(***************************************************************************)
EXTENDS SideEffects, TaskQueueProofs

-----------------------------------------------------------------------------
(* The side-effect worker drains the task queue *)

\* The locals of run_finalize have their types.
LocalsTyped == stage \in [Workers -> Stage] /\ flag \in [Workers -> BOOLEAN]

\* They keep them, whatever the queue holds.
LEMMA LocalsStayTyped == FinalizeSpec => []LocalsTyped
<1>1. FinalizeInit => LocalsTyped
  BY DEF FinalizeInit, LocalsTyped, Stage
<1>2. LocalsTyped /\ [FinalizeNext]_finalizeVars => LocalsTyped'
  <2> SUFFICES ASSUME LocalsTyped, [FinalizeNext]_finalizeVars
               PROVE  LocalsTyped'
    OBVIOUS
  <2> USE DEF LocalsTyped, Stage
  <2>1. ASSUME NEW w \in Workers, NEW k \in Keys, Begin(w, k)
        PROVE  LocalsTyped'
    BY <2>1 DEF Begin
  <2>2. ASSUME NEW w \in Workers,
               ExecuteRefund(w) \/ SendReply(w) \/ RecordResult(w)
        PROVE  LocalsTyped'
    BY <2>2 DEF ExecuteRefund, SendReply, RecordResult
  <2>3. ASSUME NEW w \in Workers, CheckRefund(w) PROVE LocalsTyped'
    BY <2>3 DEF CheckRefund, RefundFlag
  <2>4. ASSUME NEW w \in Workers, Return(w) \/ Raise(w) \/ Die(w)
        PROVE  LocalsTyped'
    BY <2>4 DEF Return, Raise, Die, Leave
  <2>5. CASE Elsewhere \/ UNCHANGED finalizeVars
    BY <2>5 DEF Elsewhere, finalizeVars
  <2> QED BY <2>1, <2>2, <2>3, <2>4, <2>5 DEF FinalizeNext
<1> QED BY <1>1, <1>2, PTL DEF FinalizeSpec

\* Every step of run_finalize, of its queue and of its crashes is a step of
\* the task queue or leaves the queue alone.
LEMMA FinalizeStepIsQueueStep ==
  ASSUME LocalsTyped, [FinalizeNext]_finalizeVars PROVE [Next]_vars
<1>1. ASSUME NEW w \in Workers, NEW k \in Keys, Begin(w, k) PROVE Next
  BY <1>1, Zenon DEF Begin, Next, SlotStep
<1>2. ASSUME NEW w \in Workers,
             ExecuteRefund(w) \/ CheckRefund(w) \/ SendReply(w)
               \/ RecordResult(w)
      PROVE  UNCHANGED vars
  BY <1>2, Zenon DEF ExecuteRefund, CheckRefund, SendReply, RecordResult
<1>3. ASSUME NEW w \in Workers, Return(w) PROVE Next
  <2>1. flag[w] \in Results
    BY SideEffectsAssumption DEF LocalsTyped
  <2> QED BY <1>3, <2>1, Zenon DEF Return, Next, SlotStep
<1>4. ASSUME NEW w \in Workers, Raise(w) \/ Die(w) PROVE Next
  <2>1. FALSE \in BOOLEAN
    OBVIOUS
  <2> QED BY <1>4, <2>1, Zenon DEF Raise, Die, Next, SlotStep
<1>5. ASSUME Elsewhere PROVE Next
  BY <1>5, Zenon DEF Elsewhere, Next, SlotStep, RowStep
<1>6. CASE UNCHANGED finalizeVars
  BY <1>6 DEF finalizeVars
<1> QED
  BY <1>1, <1>2, <1>3, <1>4, <1>5, <1>6, Zenon DEF FinalizeNext

\* What the queue promises to any worker it promises to the side-effect worker:
\* every behaviour of run_finalize is, of the queue, one of TaskQueue's.
THEOREM FinalizeRefinesQueue == FinalizeSpec => Spec
<1>1. FinalizeInit => Init
  BY DEF FinalizeInit
<1>2. LocalsTyped /\ [FinalizeNext]_finalizeVars => [Next]_vars
  BY FinalizeStepIsQueueStep
<1> QED BY <1>1, <1>2, LocalsStayTyped, PTL DEF FinalizeSpec, Spec

-----------------------------------------------------------------------------
(* Type correctness *)

\* A slot is in run_finalize exactly while it runs a task.
StageRuns == \A w \in Workers : stage[w] # "none" <=> Running(w)

\* The ledgers and the read-model rows have their types.
LedgersTyped ==
    /\ refunds \subseteq Keys
    /\ replies \subseteq Keys
    /\ refundLog \in [Keys -> SUBSET (Nat \X Nat)]
    /\ stored \in [Keys -> BOOLEAN \cup {NoResult}]
    /\ moneyMoved \in [Keys -> Nat]
    /\ mailsSent \in [Keys -> Nat]

\* The slot and the delivery of a slot in run_finalize.
LEMMA RunningSlot ==
  ASSUME TypeOK, StageRuns, NEW w \in Workers, stage[w] # "none"
  PROVE  /\ workers[w].key \in Keys
         /\ Delivery(w) \in Nat \X Nat
BY DEF TypeOK, StageRuns, Running, Slot, Delivery

\* A step of the queue that begins no delivery and ends none leaves the slots
\* that run a task as they are.
LEMMA ElsewhereSlots ==
  ASSUME TypeOK, Elsewhere, NEW w \in Workers
  PROVE  /\ Running(w) => workers'[w] = workers[w]
         /\ Running(w)' <=> Running(w)
BY DEF TypeOK, Elsewhere, Wake, Enqueue, LeaseExpires, BackoffElapses, Age,
       Reclaim, Prune, Running, Idle

\* A slot is in run_finalize exactly while it runs a task, after every step.
LEMMA StageRunsKept ==
  ASSUME TypeOK, LocalsTyped, StageRuns, [FinalizeNext]_finalizeVars
  PROVE  StageRuns'
<1> USE DEF TypeOK, LocalsTyped, StageRuns, Running
<1>1. ASSUME NEW w \in Workers, NEW k \in Keys, Begin(w, k) PROVE StageRuns'
  BY <1>1 DEF Begin, Dequeue
<1>2. ASSUME NEW w \in Workers,
             ExecuteRefund(w) \/ CheckRefund(w) \/ SendReply(w)
               \/ RecordResult(w)
      PROVE  StageRuns'
  BY <1>2 DEF ExecuteRefund, CheckRefund, SendReply, ReadyToReply,
              RecordResult, vars
<1>3. ASSUME NEW w \in Workers, Return(w) PROVE StageRuns'
  <2>1. workers'[w].pc # "running"
    BY <1>3 DEF Return, Complete, Idle, Slot
  <2> QED BY <1>3, <2>1 DEF Return, Complete, Leave
<1>4. ASSUME NEW w \in Workers, Raise(w) PROVE StageRuns'
  <2>1. workers[w] \in [pc : {"running", "waking"}, key : Keys, id : Nat,
                        attempt : Nat]
    BY <1>4 DEF Raise, Fail, Slot
  <2>2. [workers[w] EXCEPT !.pc = "waking"].pc # "running" /\ Idle.pc = "idle"
    BY <2>1 DEF Idle
  <2>3. workers'[w] \in {Idle, [workers[w] EXCEPT !.pc = "waking"]}
    BY <1>4, Zenon DEF Raise, Fail
  <2> QED BY <1>4, <2>2, <2>3 DEF Raise, Fail, Leave
<1>5. ASSUME NEW w \in Workers, Die(w) PROVE StageRuns'
  BY <1>5 DEF Die, Crash, Leave, Idle
<1>6. CASE Elsewhere
  <2>1. stage' = stage
    BY <1>6 DEF Elsewhere
  <2> QED BY <1>6, <2>1, ElsewhereSlots
<1>7. CASE UNCHANGED finalizeVars
  BY <1>7 DEF finalizeVars, vars
<1> QED BY <1>1, <1>2, <1>3, <1>4, <1>5, <1>6, <1>7 DEF FinalizeNext

\* The ledgers keep their types under every step of run_finalize.
LEMMA LedgersStayTyped ==
  ASSUME TypeOK, LocalsTyped, StageRuns, LedgersTyped,
         [FinalizeNext]_finalizeVars
  PROVE  LedgersTyped'
<1> USE DEF LedgersTyped
<1>1. ASSUME NEW w \in Workers, ExecuteRefund(w) PROVE LedgersTyped'
  <2>1. workers[w].key \in Keys /\ Delivery(w) \in Nat \X Nat
    BY <1>1, RunningSlot DEF ExecuteRefund
  <2>2. refundLog[workers[w].key] \cup {Delivery(w)} \in SUBSET (Nat \X Nat)
    BY <2>1
  <2>3. refundLog' \in [Keys -> SUBSET (Nat \X Nat)]
    BY <1>1, <2>1, <2>2 DEF ExecuteRefund
  <2>4. moneyMoved' \in [Keys -> Nat]
    BY <1>1, <2>1 DEF ExecuteRefund
  <2> QED BY <1>1, <2>1, <2>3, <2>4 DEF ExecuteRefund
<1>2. ASSUME NEW w \in Workers, SendReply(w) PROVE LedgersTyped'
  <2>1. workers[w].key \in Keys
    BY <1>2, RunningSlot DEF SendReply, ReadyToReply
  <2> QED BY <1>2, <2>1 DEF SendReply
<1>3. ASSUME NEW w \in Workers, RecordResult(w) PROVE LedgersTyped'
  <2>1. workers[w].key \in Keys /\ flag[w] \in BOOLEAN
    BY <1>3, RunningSlot DEF RecordResult, LocalsTyped
  <2> QED BY <1>3, <2>1 DEF RecordResult
<1>4. UNCHANGED effects => LedgersTyped'
  BY DEF effects
<1>5. ASSUME NEW w \in Workers, NEW k \in Keys, Begin(w, k)
      PROVE  UNCHANGED effects
  BY <1>5 DEF Begin
<1>6. ASSUME NEW w \in Workers,
             CheckRefund(w) \/ Return(w) \/ Raise(w) \/ Die(w)
      PROVE  UNCHANGED effects
  BY <1>6 DEF CheckRefund, Return, Raise, Die, Leave
<1>7. ASSUME Elsewhere \/ UNCHANGED finalizeVars PROVE UNCHANGED effects
  BY <1>7 DEF Elsewhere, finalizeVars
<1> HIDE DEF LedgersTyped
<1> QED
  BY <1>1, <1>2, <1>3, <1>4, <1>5, <1>6, <1>7 DEF FinalizeNext

\* Every variable keeps its type and a slot is in run_finalize exactly while it
\* runs a task, under every effect, exception, crash and step of the queue.
THEOREM FinalizeTypeCorrect == FinalizeSpec => []FinalizeTypeOK
<1> DEFINE Inv == LocalsTyped /\ StageRuns /\ LedgersTyped
<1>1. FinalizeInit => Inv
  BY DEF FinalizeInit, Init, Idle, LocalsTyped, StageRuns, LedgersTyped, Stage,
         Running
<1>2. TypeOK /\ Inv /\ [FinalizeNext]_finalizeVars => StageRuns' /\ LedgersTyped'
  BY StageRunsKept, LedgersStayTyped
<1>3. TypeOK /\ Inv => FinalizeTypeOK
  BY DEF FinalizeTypeOK, LocalsTyped, StageRuns, LedgersTyped
<1> QED
  BY <1>1, <1>2, <1>3, LocalsStayTyped, TypeCorrect, FinalizeRefinesQueue, PTL
  DEF FinalizeSpec
-----------------------------------------------------------------------------
(* The effects *)

\* The refund_executed flag the ticket's result must end up with.
Due(k) == k \in RefundKeys

\* The ledgers of a ticket: only a refund that is due is ever recorded, a reply
\* comes after it, and each was inserted as often as the ledger says.
Ledgers(k) ==
    /\ k \in refunds => Due(k)
    /\ k \in replies /\ Due(k) => k \in refunds
    /\ moneyMoved[k] = IF k \in refunds THEN 1 ELSE 0
    /\ mailsSent[k] = IF k \in replies THEN 1 ELSE 0

\* What the ledgers hold of a delivery that has come so far, whichever delivery
\* it was that inserted it; the flag is never an older delivery's view.
Progress(w) ==
    LET k == workers[w].key IN
    /\ stage[w] \in {"none", "start", "refunded"} => flag[w] = FALSE
    /\ stage[w] = "refunded" => Due(k)
    /\ stage[w] \notin {"none", "start"} /\ Due(k) => k \in refunds
    /\ stage[w] \in {"checked", "replied", "recorded"} => flag[w] = Due(k)
    /\ stage[w] \in {"replied", "recorded"} => k \in replies
    /\ stage[w] = "recorded" => stored[k] = Due(k)

\* What the ledgers and the read model hold of a task that is done.
Settlement(k) ==
    tasks[k].status = "done" => /\ k \in replies
                                /\ stored[k] = Due(k)
                                /\ tasks[k].result = Due(k)

\* The inductive invariant.
EffectsInv == /\ \A k \in Keys : Ledgers(k) /\ Settlement(k)
              /\ \A w \in Workers : Progress(w)

\* A step of the queue that settles nothing as done keeps the invariant, when
\* the slots that stay in run_finalize stay as they are.
QueueStep ==
    /\ UNCHANGED effects
    /\ \A k \in Keys : tasks'[k].status = "done" =>
          tasks[k].status = "done" /\ tasks'[k].result = tasks[k].result
    /\ \A w \in Workers :
          \/ stage'[w] \in {"none", "start"} /\ flag'[w] = FALSE
          \/ /\ stage'[w] = stage[w] /\ flag'[w] = flag[w]
             /\ workers'[w] = workers[w]

\* Such a step keeps the invariant.
LEMMA QueueStepKeepsEffects ==
  ASSUME EffectsInv, QueueStep PROVE EffectsInv'
<1>1. ASSUME NEW k \in Keys PROVE (Ledgers(k) /\ Settlement(k))'
  BY DEF EffectsInv, QueueStep, effects, Ledgers, Settlement
<1>2. ASSUME NEW w \in Workers PROVE Progress(w)'
  <2>1. CASE stage'[w] \in {"none", "start"} /\ flag'[w] = FALSE
    BY <2>1 DEF Progress
  <2>2. CASE /\ stage'[w] = stage[w] /\ flag'[w] = flag[w]
             /\ workers'[w] = workers[w]
    BY <2>2 DEF EffectsInv, QueueStep, effects, Progress
  <2> QED BY <2>1, <2>2 DEF QueueStep
<1> QED BY <1>1, <1>2 DEF EffectsInv

\* The steps that begin a delivery, that end one other than by completing the
\* task, and that happen elsewhere in the queue are such steps.
LEMMA QueueSteps ==
  ASSUME TypeOK, LocalsTyped, StageRuns, EffectsInv,
         \/ \E w \in Workers, k \in Keys : Begin(w, k)
         \/ \E w \in Workers : Raise(w) \/ Die(w)
         \/ Elsewhere
         \/ UNCHANGED finalizeVars
  PROVE  QueueStep
<1> USE DEF TypeOK, LocalsTyped
<1>1. ASSUME NEW w \in Workers, NEW k \in Keys, Begin(w, k) PROVE QueueStep
  <2>1. stage[w] = "none" /\ flag[w] = FALSE
    BY <1>1 DEF Begin, Dequeue, StageRuns, Running, EffectsInv, Progress
  <2>2. \A j \in Keys : tasks'[j].status = "done" => tasks'[j] = tasks[j]
    BY <1>1 DEF Begin, Dequeue, LeasedRow, Row
  <2>3. \A v \in Workers \ {w} : /\ workers'[v] = workers[v]
                                 /\ stage'[v] = stage[v]
    BY <1>1 DEF Begin, Dequeue
  <2> QED BY <1>1, <2>1, <2>2, <2>3 DEF Begin, QueueStep
<1>2. ASSUME NEW w \in Workers, Raise(w) PROVE QueueStep
  <2>1. workers[w].key \in Keys
    BY <1>2, RunningSlot DEF Raise
  <2>2. FailedRow(tasks[workers[w].key], FALSE).status \in {"pending", "failed"}
    <3>1. tasks[workers[w].key] \in Row /\ FALSE \in BOOLEAN
      BY <2>1
    <3>2. \/ Retried(tasks[workers[w].key], FALSE)
          \/ ~Retried(tasks[workers[w].key], FALSE)
      OBVIOUS
    <3> QED BY <3>1, <3>2, FailedRowFields, Zenon
  <2>3. \A j \in Keys : tasks'[j].status = "done" => tasks'[j] = tasks[j]
    <3> DEFINE row == FailedRow(tasks[workers[w].key], FALSE)
    <3>1. \/ UNCHANGED tasks
          \/ tasks' = [tasks EXCEPT ![workers[w].key] = row]
      BY <1>2, Zenon DEF Raise, Fail
    <3> HIDE DEF row
    <3>2. row.status # "done"
      BY <2>2 DEF row
    <3> QED BY <2>1, <3>1, <3>2
  <2>4. \A v \in Workers \ {w} : workers'[v] = workers[v]
    BY <1>2 DEF Raise, Fail
  <2> QED BY <1>2, <2>3, <2>4 DEF Raise, Leave, QueueStep
<1>3. ASSUME NEW w \in Workers, Die(w) PROVE QueueStep
  BY <1>3 DEF Die, Crash, Leave, QueueStep
<1>4. ASSUME Elsewhere PROVE QueueStep
  <2>1. \A j \in Keys : tasks'[j].status = "done" =>
            tasks[j].status = "done" /\ tasks'[j].result = tasks[j].result
    <3>1. CASE \E w \in Workers : Wake(w)
      BY <3>1 DEF Wake
    <3>2. ASSUME NEW k \in Keys,
                 Enqueue(k) \/ LeaseExpires(k) \/ BackoffElapses(k) \/ Age(k)
          PROVE  \A j \in Keys : tasks'[j].status = "done" =>
                    /\ tasks[j].status = "done"
                    /\ tasks'[j].result = tasks[j].result
      <4>1. FreshRow(nextId).status = "pending"
        BY DEF FreshRow, NoRow
      <4>2. ASSUME NEW row \in Row
            PROVE  /\ [row EXCEPT !.lease = "expired"].status = row.status
                   /\ [row EXCEPT !.lease = "expired"].result = row.result
                   /\ [row EXCEPT !.available = TRUE].status = row.status
                   /\ [row EXCEPT !.available = TRUE].result = row.result
                   /\ [row EXCEPT !.aged = TRUE].status = row.status
                   /\ [row EXCEPT !.aged = TRUE].result = row.result
        BY DEF Row
      <4>3. CASE Enqueue(k)
        BY <4>1, <4>3 DEF Enqueue
      <4>4. CASE LeaseExpires(k) \/ BackoffElapses(k) \/ Age(k)
        <5>1. PICK row \in Row : /\ tasks' = [tasks EXCEPT ![k] = row]
                                 /\ row.status = tasks[k].status
                                 /\ row.result = tasks[k].result
          BY <4>2, <4>4, EditedRowType DEF LeaseExpires, BackoffElapses, Age
        <5> QED BY <5>1
      <4> QED BY <3>2, <4>3, <4>4
    <3>3. CASE Reclaim
      <4>1. \A k \in Keys : ReclaimedRow(tasks[k]).status = "pending"
        BY DEF ReclaimedRow, Row
      <4> QED BY <3>3, <4>1 DEF Reclaim
    <3>4. CASE Prune
      BY <3>4 DEF Prune, NoRow
    <3> QED BY <1>4, <3>1, <3>2, <3>3, <3>4, Zenon DEF Elsewhere
  <2>2. \A w \in Workers : \/ stage[w] = "none" /\ flag[w] = FALSE
                           \/ workers'[w] = workers[w]
    BY <1>4, ElsewhereSlots DEF StageRuns, EffectsInv, Progress
  <2> QED BY <1>4, <2>1, <2>2 DEF Elsewhere, QueueStep
<1>5. CASE UNCHANGED finalizeVars
  BY <1>5 DEF finalizeVars, vars, QueueStep
<1> QED BY <1>1, <1>2, <1>3, <1>4, <1>5

\* What the ledger steps do: the queue stands still, and one ticket's ledgers
\* and one slot's locals change.
LEMMA LedgerStepsKeepEffects ==
  ASSUME TypeOK, LocalsTyped, StageRuns, LedgersTyped, EffectsInv,
         NEW w \in Workers,
         ExecuteRefund(w) \/ CheckRefund(w) \/ SendReply(w) \/ RecordResult(w)
  PROVE  EffectsInv'
<1> DEFINE k == workers[w].key
<1> USE DEF LocalsTyped, LedgersTyped
<1>1. /\ k \in Keys /\ stage[w] # "none"
      /\ Ledgers(k) /\ Progress(w)
      /\ \A j \in Keys : Ledgers(j) /\ Settlement(j)
      /\ \A v \in Workers : Progress(v)
  BY RunningSlot DEF ExecuteRefund, CheckRefund, SendReply, ReadyToReply,
                     RecordResult, EffectsInv
<1>2. UNCHANGED <<tasks, workers>>
  BY DEF ExecuteRefund, CheckRefund, SendReply, RecordResult, vars
<1>3. CASE ExecuteRefund(w)
  <2>1. /\ refunds' = refunds \cup {k} /\ Due(k) /\ flag' = flag
        /\ stage' = [stage EXCEPT ![w] = "refunded"]
        /\ UNCHANGED <<replies, stored, mailsSent>>
    BY <1>3 DEF ExecuteRefund, Due
  <2>2. \A j \in Keys : moneyMoved'[j] = IF j \in refunds' THEN 1 ELSE 0
    BY <1>1, <1>3 DEF ExecuteRefund, Ledgers
  <2>3. \A j \in Keys : Ledgers(j)' /\ Settlement(j)'
    BY <1>1, <1>2, <2>1, <2>2 DEF Ledgers, Settlement, Due
  <2>4. \A v \in Workers : Progress(v)'
    BY <1>1, <1>2, <1>3, <2>1 DEF ExecuteRefund, Progress, Due
  <2> QED BY <2>3, <2>4 DEF EffectsInv
<1>4. CASE CheckRefund(w)
  <2>1. flag' = [flag EXCEPT ![w] = Due(k)]
    BY <1>1, <1>4, Zenon DEF CheckRefund, RefundFlag, Progress, Ledgers
  <2>2. /\ stage[w] = "refunded"
        /\ stage' = [stage EXCEPT ![w] = "checked"]
        /\ UNCHANGED effects
    BY <1>4 DEF CheckRefund
  <2>3. \A j \in Keys : Ledgers(j)' /\ Settlement(j)'
    BY <1>1, <1>2, <2>2 DEF effects, Ledgers, Settlement, Due
  <2>4. \A v \in Workers : Progress(v)'
    BY <1>1, <1>2, <2>1, <2>2 DEF effects, Progress, Due
  <2> QED BY <2>3, <2>4 DEF EffectsInv
<1>5. CASE SendReply(w)
  <2>1. /\ replies' = replies \cup {k}
        /\ stage' = [stage EXCEPT ![w] = "replied"]
        /\ UNCHANGED <<flag, refunds, stored, moneyMoved>>
    BY <1>5 DEF SendReply
  <2>2. \A j \in Keys : mailsSent'[j] = IF j \in replies' THEN 1 ELSE 0
    BY <1>1, <1>5 DEF SendReply, Ledgers
  <2>3. (Due(k) => k \in refunds) /\ flag[w] = Due(k)
    BY <1>1, <1>5 DEF SendReply, ReadyToReply, Progress, Due
  <2>4. \A j \in Keys : Ledgers(j)' /\ Settlement(j)'
    BY <1>1, <1>2, <2>1, <2>2, <2>3 DEF Ledgers, Settlement, Due
  <2>5. \A v \in Workers : Progress(v)'
    BY <1>1, <1>2, <2>1, <2>3 DEF Progress, Due
  <2> QED BY <2>4, <2>5 DEF EffectsInv
<1>6. CASE RecordResult(w)
  <2>1. /\ stored' = [stored EXCEPT ![k] = Due(k)]
        /\ stage[w] = "replied"
        /\ stage' = [stage EXCEPT ![w] = "recorded"]
        /\ UNCHANGED <<flag, refunds, replies, moneyMoved, mailsSent>>
    BY <1>1, <1>6 DEF RecordResult, Progress
  <2>2. \A j \in Keys : Ledgers(j)' /\ Settlement(j)'
    BY <1>1, <1>2, <2>1 DEF Ledgers, Settlement, Due
  <2>3. \A v \in Workers : Progress(v)'
    BY <1>1, <1>2, <2>1 DEF Progress, Due
  <2> QED BY <2>2, <2>3 DEF EffectsInv
<1> QED BY <1>3, <1>4, <1>5, <1>6

\* A delivery that completes the task has had every effect, and stores the flag
\* that every other delivery would.
LEMMA ReturnKeepsEffects ==
  ASSUME TypeOK, LocalsTyped, StageRuns, EffectsInv,
         NEW w \in Workers, Return(w)
  PROVE  EffectsInv'
<1> DEFINE k == workers[w].key
<1> USE DEF TypeOK, LocalsTyped
<1>1. /\ k \in Keys /\ flag[w] = Due(k) /\ k \in replies /\ stored[k] = Due(k)
      /\ \A j \in Keys : Ledgers(j) /\ Settlement(j)
      /\ \A v \in Workers : Progress(v)
  BY RunningSlot DEF Return, EffectsInv, Progress
<1>2. /\ UNCHANGED effects
      /\ stage' = [stage EXCEPT ![w] = "none"]
      /\ flag' = [flag EXCEPT ![w] = FALSE]
      /\ \A v \in Workers \ {w} : workers'[v] = workers[v]
  BY DEF Return, Leave, Complete
<1>3. \A v \in Workers : Progress(v)'
  BY <1>1, <1>2 DEF effects, Progress, Due
<1>4. \A j \in Keys : tasks'[j].status = "done" =>
         \/ tasks'[j] = tasks[j]
         \/ j = k /\ tasks'[j].result = flag[w]
  <2>1. CompletedRow(tasks[k], flag[w]).result = flag[w]
    BY <1>1 DEF CompletedRow, Row
  <2>2. \/ UNCHANGED tasks
        \/ tasks' = [tasks EXCEPT ![k] = CompletedRow(tasks[k], flag[w])]
    BY Zenon DEF Return, Complete
  <2> QED BY <1>1, <2>1, <2>2
<1>5. \A j \in Keys : Ledgers(j)' /\ Settlement(j)'
  BY <1>1, <1>2, <1>4 DEF effects, Ledgers, Settlement, Due
<1> QED BY <1>3, <1>5 DEF EffectsInv

\* However many deliveries of a finalize task run at once, raise, crash or
\* repeat, every ledger, flag and result stays consistent with the others.
THEOREM EffectsConsistent == FinalizeSpec => []EffectsInv
<1>1. FinalizeInit => EffectsInv
  BY DEF FinalizeInit, Init, NoRow, EffectsInv, Ledgers, Settlement, Progress
<1>2. FinalizeTypeOK /\ EffectsInv /\ [FinalizeNext]_finalizeVars
        => EffectsInv'
  <2> SUFFICES ASSUME FinalizeTypeOK, EffectsInv, [FinalizeNext]_finalizeVars
               PROVE  EffectsInv'
    OBVIOUS
  <2>1. TypeOK /\ LocalsTyped /\ StageRuns /\ LedgersTyped
    BY DEF FinalizeTypeOK, LocalsTyped, StageRuns, LedgersTyped
  <2>2. ASSUME NEW w \in Workers,
               ExecuteRefund(w) \/ CheckRefund(w) \/ SendReply(w)
                 \/ RecordResult(w)
        PROVE  EffectsInv'
    BY <2>1, <2>2, LedgerStepsKeepEffects
  <2>3. ASSUME NEW w \in Workers, Return(w) PROVE EffectsInv'
    BY <2>1, <2>3, ReturnKeepsEffects
  <2>4. CASE \/ \E w \in Workers, k \in Keys : Begin(w, k)
             \/ \E w \in Workers : Raise(w) \/ Die(w)
             \/ Elsewhere
             \/ UNCHANGED finalizeVars
    BY <2>1, <2>4, QueueSteps, QueueStepKeepsEffects
  <2> QED BY <2>2, <2>3, <2>4 DEF FinalizeNext
<1> QED BY <1>1, <1>2, FinalizeTypeCorrect, PTL DEF FinalizeSpec

\* However many deliveries of a ticket's finalize task run, raise, crash or
\* repeat, the money moves and the customer is written to at most once, exactly
\* when the ledgers say so.
THEOREM EffectsOnce == FinalizeSpec => []EffectsAtMostOnce
<1>1. EffectsInv => EffectsAtMostOnce
  BY DEF EffectsInv, Ledgers, EffectsAtMostOnce
<1> QED BY <1>1, EffectsConsistent, PTL

\* A customer who is due a refund is not written to before the refund is in the
\* ledger, although the delivery that writes need not be the one that refunded.
THEOREM RefundPrecedesReply == FinalizeSpec => []RefundBeforeReply
<1>1. EffectsInv /\ FinalizeTypeOK => RefundBeforeReply
  BY DEF EffectsInv, FinalizeTypeOK, Ledgers, Due, RefundBeforeReply
<1> QED BY <1>1, EffectsConsistent, FinalizeTypeCorrect, PTL

\* A finalize task that is done has had all its effects, and its result, the
\* read-model row and the refund ledger agree, whichever deliveries wrote them.
THEOREM DoneIsComplete == FinalizeSpec => []DoneMeansEffects
<1>1. EffectsInv => DoneMeansEffects
  BY DEF EffectsInv, Ledgers, Settlement, Due, DoneMeansEffects
<1> QED BY <1>1, EffectsConsistent, PTL
==============================================================================

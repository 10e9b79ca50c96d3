-------------------------- MODULE TaskQueueProofs --------------------------
(***************************************************************************)
(* Theorems about TaskQueue, for every set of keys, slots and results and  *)
(* every value of the bounds.                                              *)
(***************************************************************************)
EXTENDS TaskQueue, TLAPS

-----------------------------------------------------------------------------
(* What the row operators return *)

\* Every row operator returns a row.
LEMMA RowOperatorsType ==
    /\ NoRow \in Row
    /\ \A i \in Nat : FreshRow(i) \in Row
    /\ \A row \in Row :
          /\ LeasedRow(row) \in Row
          /\ \A r \in Results : CompletedRow(row, r) \in Row
          /\ \A permanent \in BOOLEAN : FailedRow(row, permanent) \in Row
          /\ ReclaimedRow(row) \in Row
          /\ CancelledRow(row) \in Row
<1>1. NoRow \in Row /\ \A i \in Nat : FreshRow(i) \in Row
  BY DEF Row, NoRow, FreshRow
<1> SUFFICES ASSUME NEW row \in Row
             PROVE  /\ LeasedRow(row) \in Row
                    /\ \A r \in Results : CompletedRow(row, r) \in Row
                    /\ \A p \in BOOLEAN : FailedRow(row, p) \in Row
                    /\ ReclaimedRow(row) \in Row
                    /\ CancelledRow(row) \in Row
  BY <1>1
<1>2. LeasedRow(row) \in Row
  <2>1. row.attempts + 1 \in Nat
    BY DEF Row
  <2> QED BY <2>1 DEF Row, LeasedRow
<1>3. ASSUME NEW r \in Results PROVE CompletedRow(row, r) \in Row
  BY DEF Row, CompletedRow
<1>4. ASSUME NEW p \in BOOLEAN PROVE FailedRow(row, p) \in Row
  <2>1. PICK status \in {"pending", "failed"}, available \in BOOLEAN,
             permanent \in BOOLEAN :
          FailedRow(row, p) = [row EXCEPT !.status = status,
                                          !.available = available,
                                          !.permanent = permanent,
                                          !.lease = "none"]
    <3>1. row.available \in BOOLEAN /\ (row.permanent \/ p) \in BOOLEAN
      BY DEF Row
    <3>2. CASE Retried(row, p)
      BY <3>1, <3>2, Zenon DEF FailedRow
    <3>3. CASE ~Retried(row, p)
      BY <3>1, <3>3, Zenon DEF FailedRow
    <3> QED BY <3>2, <3>3
  <2> QED BY <2>1 DEF Row
<1>5. ReclaimedRow(row) \in Row /\ CancelledRow(row) \in Row
  BY DEF Row, ReclaimedRow, CancelledRow
<1> QED BY <1>2, <1>3, <1>4, <1>5

\* What the clock does to a row: one field gets another value of its type.
LEMMA EditedRowType ==
  ASSUME NEW row \in Row
  PROVE  /\ [row EXCEPT !.lease = "expired"] \in Row
         /\ [row EXCEPT !.available = TRUE] \in Row
         /\ [row EXCEPT !.aged = TRUE] \in Row
BY DEF Row

-----------------------------------------------------------------------------
(* Type correctness *)

\* Every variable keeps its type under every statement, crash and clock step.
THEOREM TypeCorrect == Spec => []TypeOK
<1>1. Init => TypeOK
  BY RowOperatorsType DEF Init, TypeOK, Slot, Idle
<1>2. TypeOK /\ [Next]_vars => TypeOK'
  <2> SUFFICES ASSUME TypeOK, [Next]_vars PROVE TypeOK'
    OBVIOUS
  <2> USE DEF TypeOK
  <2>1. ASSUME NEW k \in Keys, Enqueue(k) PROVE TypeOK'
    BY <2>1, RowOperatorsType DEF Enqueue
  <2>2. ASSUME NEW w \in Workers, NEW k \in Keys, Dequeue(w, k) PROVE TypeOK'
    <3>1. tasks' \in [Keys -> Row]
      BY <2>2, RowOperatorsType DEF Dequeue
    <3>2. tasks[k].id \in Nat /\ tasks[k].attempts + 1 \in Nat
      BY DEF Row
    <3>3. workers' \in [Workers -> Slot]
      BY <2>2, <3>2 DEF Dequeue, Slot
    <3> QED BY <2>2, <3>1, <3>3 DEF Dequeue, history
  <2>3. ASSUME NEW w \in Workers, NEW r \in Results, Complete(w, r)
        PROVE  TypeOK'
    <3>1. workers[w] \in [pc : {"running", "waking"}, key : Keys, id : Nat,
                          attempt : Nat]
      BY <2>3 DEF Complete, Slot
    <3>2. workers' \in [Workers -> Slot]
      BY <2>3, <3>1 DEF Complete, Slot, Idle
    <3>3. tasks' \in [Keys -> Row]
      <4>1. CASE Matches(workers[w].key, workers[w].id)
        BY <2>3, <3>1, <4>1, RowOperatorsType DEF Complete
      <4>2. CASE ~Matches(workers[w].key, workers[w].id)
        BY <2>3, <4>2 DEF Complete
      <4> QED BY <4>1, <4>2
    <3> QED BY <2>3, <3>2, <3>3 DEF Complete, history
  <2>4. ASSUME NEW w \in Workers, NEW p \in BOOLEAN, Fail(w, p)
        PROVE  TypeOK'
    <3>1. workers[w] \in [pc : {"running", "waking"}, key : Keys, id : Nat,
                          attempt : Nat]
      BY <2>4 DEF Fail, Slot
    <3>2. workers' \in [Workers -> Slot]
      BY <2>4, <3>1 DEF Fail, Slot, Idle
    <3>3. tasks' \in [Keys -> Row]
      BY <2>4, <3>1, RowOperatorsType DEF Fail
    <3> QED BY <2>4, <3>2, <3>3 DEF Fail, history
  <2>5. ASSUME NEW w \in Workers, Wake(w) \/ Crash(w) PROVE TypeOK'
    <3>1. workers[w].pc = "waking" => workers[w].id \in Nat
      BY DEF Slot
    <3>2. [workers EXCEPT ![w] = Idle] \in [Workers -> Slot]
      BY DEF Slot, Idle
    <3> QED BY <2>5, <3>1, <3>2 DEF Wake, Crash
  <2>6. ASSUME NEW k \in Keys,
               LeaseExpires(k) \/ BackoffElapses(k) \/ Age(k) \/ Cancel(k)
        PROVE  TypeOK'
    <3>0. tasks[k] \in Row
      OBVIOUS
    <3>1. CASE LeaseExpires(k)
      <4>1. [tasks[k] EXCEPT !.lease = "expired"] \in Row
        BY <3>0, EditedRowType
      <4> QED BY <3>1, <4>1 DEF LeaseExpires, history
    <3>2. CASE BackoffElapses(k)
      <4>1. [tasks[k] EXCEPT !.available = TRUE] \in Row
        BY <3>0, EditedRowType
      <4> QED BY <3>2, <4>1 DEF BackoffElapses, history
    <3>3. CASE Age(k)
      <4>1. [tasks[k] EXCEPT !.aged = TRUE] \in Row
        BY <3>0, EditedRowType
      <4> QED BY <3>3, <4>1 DEF Age, history
    <3>4. CASE Cancel(k)
      BY <3>4, RowOperatorsType DEF Cancel, history
    <3> QED BY <2>6, <3>1, <3>2, <3>3, <3>4
  <2>7. ASSUME Reclaim PROVE TypeOK'
    BY <2>7, RowOperatorsType DEF Reclaim
  <2>8. ASSUME Prune PROVE TypeOK'
    BY <2>8, RowOperatorsType DEF Prune, history
  <2>9. CASE UNCHANGED vars
    BY <2>9 DEF vars, history
  <2> QED
    BY <2>1, <2>2, <2>3, <2>4, <2>5, <2>6, <2>7, <2>8, <2>9
    DEF Next, SlotStep, RowStep
<1> QED BY <1>1, <1>2, PTL DEF Spec

-----------------------------------------------------------------------------
(* The retry budget *)

\* What fail() does to the fields the budget is about.
LEMMA FailedRowFields ==
  ASSUME NEW row \in Row, NEW p \in BOOLEAN
  PROVE  /\ FailedRow(row, p).attempts = row.attempts
         /\ FailedRow(row, p).id = row.id
         /\ FailedRow(row, p).result = row.result
         /\ FailedRow(row, p).lease = "none"
         /\ FailedRow(row, p).permanent = (row.permanent \/ p)
         /\ Retried(row, p) => FailedRow(row, p).status = "pending"
         /\ ~Retried(row, p) => FailedRow(row, p).status = "failed"
<1>1. CASE Retried(row, p)
  BY <1>1 DEF Row, FailedRow
<1>2. CASE ~Retried(row, p)
  BY <1>2 DEF Row, FailedRow
<1> QED BY <1>1, <1>2

Budget == DeliveriesBounded /\ FailsOnlyWhenSpent

\* The budget of one row, and of a key whose row a step leaves alone.
RowBudget(row, n) ==
    /\ row.attempts <= MaxAttempts + n
    /\ row.status = "pending" => row.attempts < MaxAttempts + n
    /\ row.status = "failed" => row.permanent \/ row.attempts >= MaxAttempts
    /\ row.permanent => row.status = "failed"

\* The budget of the table is the budget of each of its rows.
LEMMA BudgetByRow == Budget <=> \A k \in Keys : RowBudget(tasks[k], reclaimed[k])
  BY DEF Budget, DeliveriesBounded, FailsOnlyWhenSpent, RowBudget

\* Every row operator keeps a row within its budget, in the status in which the
\* statement that uses it finds the row.
LEMMA RowBudgetKept ==
  ASSUME NEW row \in Row, NEW n \in Nat, RowBudget(row, n)
  PROVE  /\ row.status = "pending" => RowBudget(LeasedRow(row), n)
         /\ \A r \in Results :
               row.status = "leased" => RowBudget(CompletedRow(row, r), n)
         /\ \A p \in BOOLEAN :
               row.status = "leased" => RowBudget(FailedRow(row, p), n)
         /\ row.status = "leased" => RowBudget(ReclaimedRow(row), n + 1)
         /\ row.status = "pending" => RowBudget(CancelledRow(row), n)
<1> USE QueueAssumption
<1>1. ASSUME row.status = "pending"
      PROVE  RowBudget(LeasedRow(row), n) /\ RowBudget(CancelledRow(row), n)
  BY <1>1 DEF Row, RowBudget, LeasedRow, CancelledRow
<1>2. ASSUME row.status = "leased", NEW r \in Results
      PROVE  RowBudget(CompletedRow(row, r), n)
  BY <1>2 DEF Row, RowBudget, CompletedRow
<1>3. ASSUME row.status = "leased", NEW p \in BOOLEAN
      PROVE  RowBudget(FailedRow(row, p), n)
  <2>1. CASE Retried(row, p)
    BY <1>3, <2>1, FailedRowFields DEF Row, RowBudget, Retried
  <2>2. CASE ~Retried(row, p)
    BY <1>3, <2>2, FailedRowFields DEF Row, RowBudget, Retried
  <2> QED BY <2>1, <2>2
<1>4. ASSUME row.status = "leased"
      PROVE  RowBudget(ReclaimedRow(row), n + 1)
  BY <1>4 DEF Row, RowBudget, ReclaimedRow
<1> QED BY <1>1, <1>2, <1>3, <1>4

\* However statements, crashes, lost leases and cancellations interleave, a row
\* is delivered at most max_attempts times plus once per lost lease, and fails
\* for good only when its attempts are spent or it was failed permanently.
THEOREM RetryBudget == Spec => [](DeliveriesBounded /\ FailsOnlyWhenSpent)
<1>1. Init => Budget
  BY QueueAssumption
  DEF Init, Budget, DeliveriesBounded, FailsOnlyWhenSpent, NoRow
<1>2. TypeOK /\ Budget /\ [Next]_vars => Budget'
  <2> SUFFICES ASSUME TypeOK, Budget, [Next]_vars
               PROVE  \A k \in Keys : RowBudget(tasks'[k], reclaimed'[k])
    BY DEF Budget, DeliveriesBounded, FailsOnlyWhenSpent, RowBudget
  <2>0. \A k \in Keys : /\ tasks[k] \in Row
                        /\ reclaimed[k] \in Nat
                        /\ RowBudget(tasks[k], reclaimed[k])
    BY BudgetByRow DEF TypeOK
  <2> SUFFICES ASSUME NEW j \in Keys
               PROVE  RowBudget(tasks'[j], reclaimed'[j])
    OBVIOUS
  <2>1. ASSUME NEW k \in Keys, Enqueue(k)
        PROVE  RowBudget(tasks'[j], reclaimed'[j])
    <3>1. RowBudget(FreshRow(nextId), 0)
      BY QueueAssumption DEF FreshRow, NoRow, RowBudget
    <3> QED BY <2>0, <2>1, <3>1 DEF Enqueue, TypeOK
  <2>2. ASSUME NEW w \in Workers, NEW k \in Keys, Dequeue(w, k)
        PROVE  RowBudget(tasks'[j], reclaimed'[j])
    BY <2>0, <2>2, RowBudgetKept DEF Dequeue, TypeOK, history
  <2>3. ASSUME NEW w \in Workers, NEW r \in Results, Complete(w, r)
        PROVE  RowBudget(tasks'[j], reclaimed'[j])
    BY <2>0, <2>3, RowBudgetKept DEF Complete, Matches, TypeOK, history
  <2>4. ASSUME NEW w \in Workers, NEW p \in BOOLEAN, Fail(w, p)
        PROVE  RowBudget(tasks'[j], reclaimed'[j])
    BY <2>0, <2>4, RowBudgetKept DEF Fail, Matches, TypeOK, history
  <2>5. ASSUME NEW w \in Workers, Wake(w) \/ Crash(w)
        PROVE  RowBudget(tasks'[j], reclaimed'[j])
    BY <2>0, <2>5 DEF Wake, Crash
  <2>6. ASSUME NEW k \in Keys, LeaseExpires(k) \/ BackoffElapses(k) \/ Age(k)
        PROVE  RowBudget(tasks'[j], reclaimed'[j])
    BY <2>0, <2>6
    DEF LeaseExpires, BackoffElapses, Age, TypeOK, Row, RowBudget, history
  <2>7. ASSUME NEW k \in Keys, Cancel(k)
        PROVE  RowBudget(tasks'[j], reclaimed'[j])
    BY <2>0, <2>7, RowBudgetKept DEF Cancel, TypeOK, history
  <2>8. ASSUME Reclaim PROVE RowBudget(tasks'[j], reclaimed'[j])
    BY <2>0, <2>8, RowBudgetKept DEF Reclaim, Expired, TypeOK
  <2>9. ASSUME Prune PROVE RowBudget(tasks'[j], reclaimed'[j])
    <3>1. RowBudget(NoRow, reclaimed[j])
      BY <2>0, QueueAssumption DEF NoRow, RowBudget
    <3> QED BY <2>0, <2>9, <3>1 DEF Prune, history
  <2>10. CASE UNCHANGED vars
    BY <2>0, <2>10 DEF vars, history
  <2> QED
    BY <2>1, <2>2, <2>3, <2>4, <2>5, <2>6, <2>7, <2>8, <2>9, <2>10
    DEF Next, SlotStep, RowStep
<1> QED BY <1>1, <1>2, TypeCorrect, PTL DEF Spec, Budget

-----------------------------------------------------------------------------
(* Rows, slots and ids agree *)

\* Every row operator keeps a row coherent, in the status in which the
\* statement that uses it finds the row.
LEMMA RowCoherentKept ==
  ASSUME NEW row \in Row, RowCoherent(row)
  PROVE  /\ row.status = "pending" =>
              RowCoherent(LeasedRow(row)) /\ RowCoherent(CancelledRow(row))
         /\ \A r \in Results :
               row.status = "leased" => RowCoherent(CompletedRow(row, r))
         /\ \A p \in BOOLEAN :
               row.status = "leased" => RowCoherent(FailedRow(row, p))
         /\ row.status = "leased" => RowCoherent(ReclaimedRow(row))
<1> USE QueueAssumption
<1>1. ASSUME row.status = "pending"
      PROVE  RowCoherent(LeasedRow(row)) /\ RowCoherent(CancelledRow(row))
  BY <1>1 DEF Row, RowCoherent, LeasedRow, CancelledRow
<1>2. ASSUME row.status = "leased", NEW r \in Results
      PROVE  RowCoherent(CompletedRow(row, r))
  BY <1>2 DEF Row, RowCoherent, CompletedRow
<1>3. ASSUME row.status = "leased", NEW p \in BOOLEAN
      PROVE  RowCoherent(FailedRow(row, p))
  BY <1>3, FailedRowFields DEF Row, RowCoherent
<1>4. ASSUME row.status = "leased" PROVE RowCoherent(ReclaimedRow(row))
  BY <1>4 DEF Row, RowCoherent, ReclaimedRow
<1> QED BY <1>1, <1>2, <1>3, <1>4

\* What a step other than an insert may do to one row of the table: nothing,
\* keep its id and stay coherent, or delete it once it has settled.
RowStays(j) == /\ tasks'[j].id = tasks[j].id
               /\ tasks'[j].status # "absent" <=> tasks[j].status # "absent"
               /\ RowCoherent(tasks'[j])

RowsKept == \A j \in Keys : RowStays(j) \/ tasks'[j] = NoRow

\* Replacing one row by a coherent one with the same id keeps every row.
LEMMA OneRowKept ==
  ASSUME TypeOK, \A k \in Keys : RowCoherent(tasks[k]),
         NEW k \in Keys, NEW row \in Row,
         tasks' = [tasks EXCEPT ![k] = row],
         row.id = tasks[k].id, RowCoherent(row)
  PROVE  RowsKept
BY DEF TypeOK, RowsKept, RowStays, RowCoherent, Row

\* Every step except Enqueue leaves each row its id or deletes the row.
LEMMA StepsKeepRows ==
  ASSUME TypeOK, \A k \in Keys : RowCoherent(tasks[k]), [Next]_vars
  PROVE  RowsKept \/ \E k \in Keys : Enqueue(k)
<1> USE DEF TypeOK
<1>0. UNCHANGED tasks => RowsKept
  BY DEF RowsKept, RowStays
<1>1. ASSUME NEW w \in Workers, NEW k \in Keys, Dequeue(w, k) PROVE RowsKept
  <2>1. LeasedRow(tasks[k]).id = tasks[k].id
    BY DEF LeasedRow, Row
  <2> QED BY <1>1, <2>1, RowOperatorsType, RowCoherentKept, OneRowKept
          DEF Dequeue
<1>2. ASSUME NEW w \in Workers, NEW r \in Results, Complete(w, r)
      PROVE  RowsKept
  <2> DEFINE k == workers[w].key
  <2>1. CASE Matches(k, workers[w].id)
    <3>1. k \in Keys
      BY <1>2 DEF Complete, Slot
    <3>2. CompletedRow(tasks[k], r).id = tasks[k].id
      BY <3>1 DEF CompletedRow, Row
    <3>3. /\ tasks' = [tasks EXCEPT ![k] = CompletedRow(tasks[k], r)]
          /\ tasks[k].status = "leased"
      BY <1>2, <2>1 DEF Complete, Matches
    <3> HIDE DEF k
    <3>4. CompletedRow(tasks[k], r) \in Row
      BY <3>1, RowOperatorsType
    <3>5. RowCoherent(CompletedRow(tasks[k], r))
      BY <3>1, <3>3, RowCoherentKept
    <3> QED BY <3>1, <3>2, <3>3, <3>4, <3>5, OneRowKept
  <2>2. CASE ~Matches(k, workers[w].id)
    BY <1>0, <1>2, <2>2 DEF Complete
  <2> QED BY <2>1, <2>2
<1>3. ASSUME NEW w \in Workers, NEW p \in BOOLEAN, Fail(w, p) PROVE RowsKept
  <2> DEFINE k == workers[w].key
  <2>1. CASE Matches(k, workers[w].id)
    <3>1. k \in Keys
      BY <1>3 DEF Fail, Slot
    <3>2. FailedRow(tasks[k], p).id = tasks[k].id
      BY <3>1, FailedRowFields
    <3>3. /\ tasks' = [tasks EXCEPT ![k] = FailedRow(tasks[k], p)]
          /\ tasks[k].status = "leased"
      BY <1>3, <2>1 DEF Fail, Matches
    <3> HIDE DEF k
    <3> QED BY <3>1, <3>2, <3>3, RowOperatorsType, RowCoherentKept, OneRowKept
  <2>2. CASE ~Matches(k, workers[w].id)
    BY <1>0, <1>3, <2>2 DEF Fail
  <2> QED BY <2>1, <2>2
<1>4. ASSUME NEW w \in Workers, Wake(w) \/ Crash(w) PROVE RowsKept
  BY <1>0, <1>4 DEF Wake, Crash
<1>5. ASSUME NEW k \in Keys, LeaseExpires(k) \/ BackoffElapses(k) \/ Age(k)
      PROVE  RowsKept
  <2>1. CASE LeaseExpires(k)
    BY <2>1 DEF LeaseExpires, Row, RowsKept, RowStays, RowCoherent
  <2>2. CASE BackoffElapses(k)
    BY <2>2 DEF BackoffElapses, Row, RowsKept, RowStays, RowCoherent
  <2>3. CASE Age(k)
    BY <2>3 DEF Age, Exists, Row, RowsKept, RowStays, RowCoherent
  <2> QED BY <1>5, <2>1, <2>2, <2>3
<1>6. ASSUME NEW k \in Keys, Cancel(k) PROVE RowsKept
  <2>1. CancelledRow(tasks[k]).id = tasks[k].id
    BY DEF CancelledRow, Row
  <2> QED BY <1>6, <2>1, RowOperatorsType, RowCoherentKept, OneRowKept
          DEF Cancel
<1>7. ASSUME Reclaim PROVE RowsKept
  <2>1. ASSUME NEW j \in Expired PROVE RowStays(j)
    BY <1>7, <2>1, RowCoherentKept DEF Reclaim, Expired, ReclaimedRow, Row,
                                       RowStays
  <2> QED BY <1>7, <2>1 DEF Reclaim, RowsKept, RowStays
<1>8. ASSUME Prune PROVE RowsKept
  BY <1>8 DEF Prune, RowsKept, RowStays
<1>9. CASE UNCHANGED vars
  BY <1>0, <1>9 DEF vars
<1> QED
  BY <1>1, <1>2, <1>3, <1>4, <1>5, <1>6, <1>7, <1>8, <1>9
  DEF Next, SlotStep, RowStep

\* A step other than Enqueue puts no id into a slot that some row or slot does
\* not already hold, and none into the history that no slot holds.
SlotsKept ==
    /\ nextId' = nextId
    /\ \A w \in Workers : workers'[w].pc # "idle" =>
          \/ /\ workers[w].pc # "idle"
             /\ workers'[w].id = workers[w].id
             /\ workers'[w].key = workers[w].key
          \/ /\ workers'[w].key \in Keys
             /\ Exists(workers'[w].key)
             /\ workers'[w].id = tasks[workers'[w].key].id
    /\ \A i \in (notified \cup lostWakes)' :
          \/ i \in notified \cup lostWakes
          \/ \E w \in Workers : workers[w].pc # "idle" /\ workers[w].id = i

\* A slot that is busy after a step was busy with the same delivery before, or
\* has just leased a row.
LEMMA StepsKeepSlots ==
  ASSUME TypeOK, [Next]_vars
  PROVE  SlotsKept \/ \E k \in Keys : Enqueue(k)
<1> USE DEF TypeOK
<1>0. UNCHANGED <<workers, nextId, history>> => SlotsKept
  BY DEF SlotsKept, history
<1>1. ASSUME NEW w \in Workers, NEW k \in Keys, Dequeue(w, k) PROVE SlotsKept
  BY <1>1 DEF Dequeue, SlotsKept, Exists, history
<1>2. ASSUME NEW w \in Workers, NEW r \in Results, Complete(w, r)
      PROVE  SlotsKept
  <2>1. workers[w] \in [pc : {"running", "waking"}, key : Keys, id : Nat,
                        attempt : Nat]
    BY <1>2 DEF Complete, Slot
  <2> QED BY <1>2, <2>1 DEF Complete, SlotsKept, Idle, history
<1>3. ASSUME NEW w \in Workers, NEW p \in BOOLEAN, Fail(w, p)
      PROVE  SlotsKept
  <2>1. workers[w] \in [pc : {"running", "waking"}, key : Keys, id : Nat,
                        attempt : Nat]
    BY <1>3 DEF Fail, Slot
  <2> QED BY <1>3, <2>1 DEF Fail, SlotsKept, Idle, history
<1>4. ASSUME NEW w \in Workers, Wake(w) \/ Crash(w) PROVE SlotsKept
  BY <1>4 DEF Wake, Crash, SlotsKept, Idle
<1>5. ASSUME NEW k \in Keys,
             LeaseExpires(k) \/ BackoffElapses(k) \/ Age(k) \/ Cancel(k)
      PROVE  SlotsKept
  BY <1>0, <1>5 DEF LeaseExpires, BackoffElapses, Age, Cancel
<1>6. ASSUME Reclaim \/ Prune PROVE SlotsKept
  BY <1>6 DEF Reclaim, Prune, SlotsKept, history
<1>7. CASE UNCHANGED vars
  BY <1>0, <1>7 DEF vars, history
<1> QED
  BY <1>1, <1>2, <1>3, <1>4, <1>5, <1>6, <1>7 DEF Next, SlotStep, RowStep

\* A row has a lease exactly while it is leased and a result exactly when it is
\* done, and the id in a slot, however stale, never names another key's row.
THEOREM RowsAndSlotsAgree == Spec => []Coherent
<1>1. Init => Coherent
  BY QueueAssumption
  DEF Init, Coherent, RowCoherent, NoRow, Exists, Idle
<1>2. TypeOK /\ Coherent /\ [Next]_vars => Coherent'
  <2> SUFFICES ASSUME TypeOK, Coherent, [Next]_vars PROVE Coherent'
    OBVIOUS
  <2>0. \A k \in Keys : /\ RowCoherent(tasks[k])
                        /\ tasks[k] \in Row
                        /\ tasks[k].id \in Nat
    BY DEF TypeOK, Coherent, Row
  <2>1. ASSUME NEW k \in Keys, Enqueue(k) PROVE Coherent'
    <3>1. /\ FreshRow(nextId).id = nextId
          /\ FreshRow(nextId).status = "pending"
          /\ RowCoherent(FreshRow(nextId))
      BY QueueAssumption DEF FreshRow, NoRow, RowCoherent, Coherent
    <3>2. \A w \in Workers : workers[w].pc # "idle" => workers[w].id \in Nat
      BY DEF Coherent, TypeOK
    <3>3. tasks'[k] = FreshRow(nextId) /\ \A j \in Keys \ {k} :
                                             tasks'[j] = tasks[j]
      BY <2>1 DEF Enqueue, TypeOK
    <3>4. /\ nextId \in Nat /\ nextId' = nextId + 1 /\ workers' = workers
          /\ notified' = notified /\ lostWakes' = lostWakes
      BY <2>1 DEF Enqueue, TypeOK
    <3>5. nextId' >= 1 /\ \A j \in Keys : RowCoherent(tasks'[j])
                                           /\ tasks'[j].id < nextId'
      BY <2>0, <3>1, <3>3, <3>4 DEF Coherent
    <3>6. \A i, j \in Keys : tasks'[i].status # "absent"
                               /\ tasks'[i].id = tasks'[j].id => i = j
      BY <2>0, <3>1, <3>3, <3>4 DEF Coherent, Exists
    <3>7. \A w \in Workers : workers[w].pc # "idle" =>
            /\ workers[w].id \in 1..(nextId' - 1)
            /\ \A j \in Keys : tasks'[j].id = workers[w].id
                                  => j = workers[w].key
      BY <2>0, <3>1, <3>2, <3>3, <3>4 DEF Coherent
    <3>8. (notified \cup lostWakes)' \subseteq 1..(nextId' - 1)
      BY <3>4 DEF Coherent
    <3> QED BY <3>4, <3>5, <3>6, <3>7, <3>8 DEF Coherent, Exists, RowCoherent
  <2>2. ASSUME RowsKept, SlotsKept PROVE Coherent'
    <3>1. RowCoherent(NoRow) /\ NoRow.id = 0 /\ NoRow.status = "absent"
      BY QueueAssumption DEF NoRow, RowCoherent
    <3>2. /\ nextId' = nextId /\ nextId \in Nat /\ nextId >= 1
          /\ \A k \in Keys : tasks[k].id < nextId
      BY <2>2 DEF SlotsKept, TypeOK, Coherent
    <3>3. \A k \in Keys : RowCoherent(tasks'[k]) /\ tasks'[k].id < nextId'
      BY <2>2, <3>1, <3>2 DEF RowsKept, RowStays
    <3>4. \A j, k \in Keys : tasks'[j].status # "absent"
                               /\ tasks'[j].id = tasks'[k].id => j = k
      <4> SUFFICES ASSUME NEW j \in Keys, NEW k \in Keys,
                          tasks'[j].status # "absent",
                          tasks'[j].id = tasks'[k].id
                   PROVE  j = k
        OBVIOUS
      <4>1. tasks[j].id = tasks'[j].id /\ tasks[j].status # "absent"
        BY <2>2, <3>1 DEF RowsKept, RowStays
      <4>2. tasks'[k].status # "absent"
        BY <3>3 DEF RowCoherent
      <4>3. tasks[k].id = tasks'[k].id
        BY <2>2, <3>1, <4>2 DEF RowsKept, RowStays
      <4> QED BY <4>1, <4>3 DEF Coherent, Exists
    <3>5. ASSUME NEW w \in Workers, workers'[w].pc # "idle"
          PROVE  /\ workers'[w].id \in 1..(nextId' - 1)
                 /\ \A k \in Keys : tasks'[k].id = workers'[w].id
                                       => k = workers'[w].key
      <4>1. /\ workers'[w].id \in 1..(nextId - 1)
            /\ \A k \in Keys : tasks[k].id = workers'[w].id
                                  => k = workers'[w].key
        <5>1. CASE /\ workers[w].pc # "idle"
                   /\ workers'[w].id = workers[w].id
                   /\ workers'[w].key = workers[w].key
          BY <5>1 DEF Coherent
        <5>2. CASE /\ workers'[w].key \in Keys
                   /\ Exists(workers'[w].key)
                   /\ workers'[w].id = tasks[workers'[w].key].id
          BY <2>0, <3>2, <5>2 DEF Coherent, Exists, RowCoherent
        <5> QED BY <2>2, <3>5, <5>1, <5>2 DEF SlotsKept
      <4>2. \A k \in Keys : tasks'[k].id = workers'[w].id
                             => tasks[k].id = workers'[w].id
        BY <2>2, <3>1, <4>1 DEF RowsKept, RowStays
      <4> QED BY <3>2, <4>1, <4>2
    <3>6. (notified \cup lostWakes)' \subseteq 1..(nextId' - 1)
      BY <2>2, <3>2 DEF SlotsKept, Coherent
    <3> QED BY <3>2, <3>3, <3>4, <3>5, <3>6
            DEF Coherent, Exists, RowCoherent
  <2> QED
    BY <2>0, <2>1, <2>2, StepsKeepRows, StepsKeepSlots
<1> QED BY <1>1, <1>2, TypeCorrect, PTL DEF Spec

-----------------------------------------------------------------------------
(* The queue implements the outcome promise *)

\* What TaskOutcome sees of a coherent row, status by status.
LEMMA OutcomeByStatus ==
  ASSUME NEW row \in Row, RowCoherent(row)
  PROVE  /\ row.status = "absent" => OutcomeOf(row) = Outcomes!Absent
         /\ row.status \in {"pending", "leased"} => OutcomeOf(row) = Outcomes!Open
         /\ row.status = "done" => OutcomeOf(row) = Outcomes!Done(row.result)
         /\ row.status = "failed" => OutcomeOf(row) = Outcomes!Failed
BY DEF Row, RowCoherent, OutcomeOf, Outcomes!Absent, Outcomes!Open,
       Outcomes!Done, Outcomes!Failed

Same(k) == OutcomeOf(tasks'[k]) = OutcomeOf(tasks[k])

\* A step that settles one open key.
LEMMA SettlesOne ==
  ASSUME TypeOK, NEW k \in Keys, NEW row \in Row,
         tasks' = [tasks EXCEPT ![k] = row],
         RowCoherent(tasks[k]), tasks[k].status \in {"pending", "leased"},
         RowCoherent(row), row.status \in {"done", "failed"}
  PROVE  Outcomes!Settle(k)
<1>1. OutcomeOf(tasks[k]) = Outcomes!Open
  BY OutcomeByStatus DEF TypeOK
<1>2. OutcomeOf(row) \in {Outcomes!Failed}
                           \cup {Outcomes!Done(r) : r \in Results}
  <2>1. row.status = "done" => row.result \in Results
    BY DEF Row, RowCoherent
  <2> QED BY <2>1, OutcomeByStatus
<1>3. [j \in Keys |-> OutcomeOf(tasks'[j])]
        = [[j \in Keys |-> OutcomeOf(tasks[j])] EXCEPT ![k] = OutcomeOf(row)]
  BY DEF TypeOK
<1> QED BY <1>1, <1>2, <1>3 DEF Outcomes!Settle

\* Every step of the queue settles, submits or forgets, or changes no outcome.
LEMMA StepImplements ==
  ASSUME TypeOK, \A k \in Keys : RowCoherent(tasks[k]), [Next]_vars
  PROVE  Outcomes!Next \/ \A k \in Keys : Same(k)
<1> USE DEF TypeOK
<1>0. \A k \in Keys : tasks[k] \in Row
  OBVIOUS
<1>1. ASSUME NEW k \in Keys, Enqueue(k) PROVE Outcomes!Submit(k)
  <2>1. OutcomeOf(FreshRow(nextId)) = Outcomes!Open
    BY DEF OutcomeOf, Outcomes!Open, FreshRow, NoRow
  <2>2. OutcomeOf(tasks[k]) = Outcomes!Absent
    BY <1>0, <1>1, OutcomeByStatus DEF Enqueue, Exists
  <2>3. [j \in Keys |-> OutcomeOf(tasks'[j])]
          = [[j \in Keys |-> OutcomeOf(tasks[j])] EXCEPT ![k] = Outcomes!Open]
    BY <1>1, <2>1 DEF Enqueue
  <2> QED BY <2>2, <2>3 DEF Outcomes!Submit
<1>2. ASSUME NEW w \in Workers, NEW k \in Keys, Dequeue(w, k)
      PROVE  \A j \in Keys : Same(j)
  <2>1. OutcomeOf(LeasedRow(tasks[k])) = OutcomeOf(tasks[k])
    BY <1>2 DEF Dequeue, OutcomeOf, LeasedRow, Row
  <2> QED BY <1>2, <2>1 DEF Dequeue, Same
<1>3. ASSUME NEW w \in Workers, NEW r \in Results, Complete(w, r)
      PROVE  Outcomes!Next \/ \A j \in Keys : Same(j)
  <2> DEFINE k == workers[w].key
  <2>1. CASE Matches(k, workers[w].id)
    <3>1. k \in Keys
      BY <1>3 DEF Complete, Slot
    <3>2. /\ tasks' = [tasks EXCEPT ![k] = CompletedRow(tasks[k], r)]
          /\ tasks[k].status = "leased"
      BY <1>3, <2>1 DEF Complete, Matches
    <3>3. CompletedRow(tasks[k], r).status = "done"
      BY <3>1 DEF CompletedRow, Row
    <3> HIDE DEF k
    <3>4. CompletedRow(tasks[k], r) \in Row
      BY <3>1, RowOperatorsType
    <3>5. RowCoherent(CompletedRow(tasks[k], r))
      BY <1>0, <3>1, <3>2, RowCoherentKept
    <3>6. Outcomes!Settle(k)
      BY <3>1, <3>2, <3>3, <3>4, <3>5, SettlesOne
    <3> QED BY <3>1, <3>6 DEF Outcomes!Next
  <2>2. CASE ~Matches(k, workers[w].id)
    BY <1>3, <2>2 DEF Complete, Same
  <2> QED BY <2>1, <2>2
<1>4. ASSUME NEW w \in Workers, NEW p \in BOOLEAN, Fail(w, p)
      PROVE  Outcomes!Next \/ \A j \in Keys : Same(j)
  <2> DEFINE k == workers[w].key
  <2>1. CASE Matches(k, workers[w].id)
    <3>1. k \in Keys
      BY <1>4 DEF Fail, Slot
    <3>2. /\ tasks' = [tasks EXCEPT ![k] = FailedRow(tasks[k], p)]
          /\ tasks[k].status = "leased"
      BY <1>4, <2>1 DEF Fail, Matches
    <3> HIDE DEF k
    <3>3. tasks[k] \in Row /\ FailedRow(tasks[k], p) \in Row
      BY <3>1, RowOperatorsType
    <3>4. RowCoherent(FailedRow(tasks[k], p))
      BY <1>0, <3>1, <3>2, RowCoherentKept
    <3>5. CASE FailedRow(tasks[k], p).status = "failed"
      <4>1. Outcomes!Settle(k)
        BY <3>1, <3>2, <3>3, <3>4, <3>5, SettlesOne
      <4> QED BY <3>1, <4>1 DEF Outcomes!Next
    <3>6. CASE FailedRow(tasks[k], p).status = "pending"
      <4>1. OutcomeOf(FailedRow(tasks[k], p)) = OutcomeOf(tasks[k])
        BY <3>1, <3>2, <3>3, <3>4, <3>6, OutcomeByStatus
      <4> QED BY <3>1, <3>2, <4>1 DEF Same
    <3> QED BY <3>3, <3>5, <3>6, FailedRowFields
  <2>2. CASE ~Matches(k, workers[w].id)
    BY <1>4, <2>2 DEF Fail, Same
  <2> QED BY <2>1, <2>2
<1>5. ASSUME NEW w \in Workers, Wake(w) \/ Crash(w)
      PROVE  \A j \in Keys : Same(j)
  BY <1>5 DEF Wake, Crash, Same
<1>6. ASSUME NEW k \in Keys, LeaseExpires(k) \/ BackoffElapses(k) \/ Age(k)
      PROVE  \A j \in Keys : Same(j)
  BY <1>6 DEF LeaseExpires, BackoffElapses, Age, OutcomeOf, Row, Same
<1>7. ASSUME NEW k \in Keys, Cancel(k) PROVE Outcomes!Settle(k)
  <2>1. CancelledRow(tasks[k]).status = "failed"
    BY DEF CancelledRow, Row
  <2>2. CancelledRow(tasks[k]) \in Row /\ RowCoherent(CancelledRow(tasks[k]))
    BY <1>7, RowOperatorsType, RowCoherentKept DEF Cancel
  <2> QED BY <1>7, <2>1, <2>2, SettlesOne DEF Cancel
<1>8. ASSUME Reclaim PROVE \A j \in Keys : Same(j)
  <2>1. ASSUME NEW j \in Expired
        PROVE  OutcomeOf(ReclaimedRow(tasks[j])) = OutcomeOf(tasks[j])
    BY <2>1 DEF Expired, OutcomeOf, ReclaimedRow, Row
  <2> QED BY <1>8, <2>1 DEF Reclaim, Same
<1>9. ASSUME Prune PROVE Outcomes!Forget(Prunable)
  <2>1. OutcomeOf(NoRow) = Outcomes!Absent
    BY DEF OutcomeOf, NoRow, Outcomes!Absent
  <2>2. \A k \in Prunable :
          k \in Keys /\ OutcomeOf(tasks[k]).state \in {"done", "failed"}
    BY DEF Prunable, Settled, OutcomeOf, Row
  <2>3. [j \in Keys |-> OutcomeOf(tasks'[j])]
          = [j \in Keys |-> IF j \in Prunable THEN Outcomes!Absent
                             ELSE [i \in Keys |-> OutcomeOf(tasks[i])][j]]
    BY <1>9, <2>1 DEF Prune
  <2> QED BY <2>2, <2>3 DEF Outcomes!Forget, Outcomes!Settled
<1>10. CASE UNCHANGED vars
  BY <1>10 DEF vars, Same
<1>11. Prunable \in SUBSET Keys
  BY DEF Prunable
<1> QED
  BY <1>1, <1>2, <1>3, <1>4, <1>5, <1>6, <1>7, <1>8, <1>9, <1>10, <1>11
  DEF Next, SlotStep, RowStep, Outcomes!Next

\* The queue, with its leases, retries, redelivery, reclaim and retention,
\* keeps the promise of TaskOutcome to the workflow: a key settles at most once
\* and keeps the result or the failure it settled to until it is pruned.
THEOREM QueueImplementsOutcome == Spec => ImplementsOutcome
<1>1. Init => Outcomes!Init
  BY DEF Init, Outcomes!Init, Outcomes!Absent, OutcomeOf, NoRow
<1>2. TypeOK /\ Coherent /\ [Next]_vars
        => [Outcomes!Next]_([k \in Keys |-> OutcomeOf(tasks[k])])
  BY StepImplements DEF Coherent, Same
<1> QED
  BY <1>1, <1>2, TypeCorrect, RowsAndSlotsAgree, PTL
  DEF Spec, ImplementsOutcome, Outcomes!Spec

-----------------------------------------------------------------------------
(* One wake-up per settlement, after it *)

Wakes == OneWakePerSettlement /\ WakeAfterSettlement

\* A step in which no slot begins to wake, no id joins the history except that
\* of a slot that stops waking, and no settled row reopens.
QuietStep ==
    /\ \A w \in Workers : workers'[w].pc = "waking" =>
          workers[w].pc = "waking" /\ workers'[w].id = workers[w].id
    /\ \A i \in (notified \cup lostWakes)' \ (notified \cup lostWakes) :
          \E w \in Workers : /\ workers[w].pc = "waking" /\ workers[w].id = i
                             /\ workers'[w].pc # "waking"
    /\ \A k \in Keys : tasks'[k].status \in {"pending", "leased"} =>
          IsOpen(k) /\ tasks'[k].id = tasks[k].id

\* A quiet step keeps the wake-ups in order.
LEMMA QuietStepKeepsWakes ==
  ASSUME Wakes, QuietStep PROVE Wakes'
<1>1. OneWakePerSettlement'
  BY DEF Wakes, OneWakePerSettlement, QuietStep, Waking
<1>2. WakeAfterSettlement'
  BY DEF Wakes, WakeAfterSettlement, QuietStep, Waking, IsOpen
<1> QED BY <1>1, <1>2 DEF Wakes

\* A step in which slot w settles the leased row it matches, and owes its wake.
LEMMA SettlementKeepsWakes ==
  ASSUME TypeOK, Coherent, Wakes, NEW w \in Workers, Running(w),
         Matches(workers[w].key, workers[w].id), workers[w].key \in Keys,
         NEW row \in Row, row.status \in {"done", "failed"},
         tasks' = [tasks EXCEPT ![workers[w].key] = row],
         workers' = [workers EXCEPT ![w] = [workers[w] EXCEPT !.pc = "waking"]],
         UNCHANGED history
  PROVE  Wakes'
<1> DEFINE k == workers[w].key
<1>1. /\ tasks[k].id = workers[w].id /\ IsOpen(k)
      /\ workers[w].id \notin notified \cup lostWakes
      /\ \A v \in Workers : Waking(v) => workers[v].id # workers[w].id
  BY DEF Matches, IsOpen, Wakes, WakeAfterSettlement
<1>2. /\ workers'[w].pc = "waking" /\ workers'[w].id = workers[w].id
      /\ \A v \in Workers \ {w} : workers'[v] = workers[v]
  BY DEF TypeOK, Slot, Running
<1>3. OneWakePerSettlement'
  BY <1>1, <1>2 DEF Wakes, OneWakePerSettlement, Waking, history
<1>4. ASSUME NEW j \in Keys, tasks'[j].status \in {"pending", "leased"}
      PROVE  j # k /\ tasks'[j] = tasks[j] /\ tasks[j].id # workers[w].id
  BY <1>1, <1>4 DEF TypeOK, Coherent, Exists
<1>5. WakeAfterSettlement'
  BY <1>2, <1>4 DEF Wakes, WakeAfterSettlement, Waking, IsOpen, history
<1> QED BY <1>3, <1>5 DEF Wakes

\* complete() and fail() identify the row by id and status alone, so stale and
\* current holders race to settle it: one of them, and only after the
\* settlement, goes on to wake the workflow.
THEOREM OneWake == Spec => [](OneWakePerSettlement /\ WakeAfterSettlement)
<1>1. Init => Wakes
  BY DEF Init, Wakes, OneWakePerSettlement, WakeAfterSettlement, Waking, Idle,
         IsOpen, NoRow
<1>2. TypeOK /\ Coherent /\ Wakes /\ [Next]_vars => Wakes'
  <2> SUFFICES ASSUME TypeOK, Coherent, Wakes, [Next]_vars PROVE Wakes'
    OBVIOUS
  <2> USE DEF TypeOK
  <2>1. ASSUME NEW k \in Keys, Enqueue(k) PROVE Wakes'
    <3>1. nextId \notin notified \cup lostWakes
      BY DEF Coherent
    <3>2. \A w \in Workers : Waking(w) => workers[w].id # nextId
      BY DEF Coherent, Waking
    <3>3. tasks'[k].id = nextId /\ \A j \in Keys \ {k} : tasks'[j] = tasks[j]
      BY <2>1 DEF Enqueue, FreshRow, NoRow
    <3> QED BY <2>1, <3>1, <3>2, <3>3
            DEF Enqueue, Wakes, OneWakePerSettlement, WakeAfterSettlement,
                Waking, IsOpen
  <2>2. ASSUME NEW w \in Workers, NEW k \in Keys, Dequeue(w, k) PROVE Wakes'
    <3>1. tasks'[k].id = tasks[k].id
      BY <2>2 DEF Dequeue, LeasedRow, Row
    <3>2. QuietStep
      BY <2>2, <3>1 DEF Dequeue, QuietStep, IsOpen, history
    <3> QED BY <3>2, QuietStepKeepsWakes
  <2>3. ASSUME NEW w \in Workers, NEW r \in Results, Complete(w, r)
        PROVE  Wakes'
    <3>1. workers[w].key \in Keys
      BY <2>3 DEF Complete, Slot
    <3>2. CASE Matches(workers[w].key, workers[w].id)
      <4> DEFINE row == CompletedRow(tasks[workers[w].key], r)
      <4>0. row \in Row
        BY <3>1, RowOperatorsType
      <4>1. row.status = "done"
        BY <3>1 DEF CompletedRow, Row
      <4>2. /\ Running(w)
            /\ tasks' = [tasks EXCEPT ![workers[w].key] = row]
            /\ workers' = [workers EXCEPT ![w] =
                              [workers[w] EXCEPT !.pc = "waking"]]
            /\ UNCHANGED history
        BY <2>3, <3>2 DEF Complete, Running
      <4> HIDE DEF row
      <4> QED BY <3>1, <3>2, <4>0, <4>1, <4>2, SettlementKeepsWakes
    <3>3. CASE ~Matches(workers[w].key, workers[w].id)
      <4>1. QuietStep
        BY <2>3, <3>3 DEF Complete, QuietStep, Idle, IsOpen, history
      <4> QED BY <4>1, QuietStepKeepsWakes
    <3> QED BY <3>2, <3>3
  <2>4. ASSUME NEW w \in Workers, NEW p \in BOOLEAN, Fail(w, p) PROVE Wakes'
    <3>1. workers[w].key \in Keys
      BY <2>4 DEF Fail, Slot
    <3> DEFINE row == FailedRow(tasks[workers[w].key], p)
    <3>2. row \in Row
      BY <3>1, RowOperatorsType
    <3>3. CASE /\ Matches(workers[w].key, workers[w].id)
               /\ ~Retried(tasks[workers[w].key], p)
      <4>1. row.status = "failed"
        BY <3>1, <3>3, FailedRowFields
      <4>2. /\ Running(w)
            /\ tasks' = [tasks EXCEPT ![workers[w].key] = row]
            /\ workers' = [workers EXCEPT ![w] =
                              [workers[w] EXCEPT !.pc = "waking"]]
            /\ UNCHANGED history
        BY <2>4, <3>3 DEF Fail, Running
      <4> HIDE DEF row
      <4> QED BY <3>1, <3>2, <3>3, <4>1, <4>2, SettlementKeepsWakes
    <3>4. CASE /\ Matches(workers[w].key, workers[w].id)
               /\ Retried(tasks[workers[w].key], p)
      <4>1. row.id = tasks[workers[w].key].id
        BY <3>1, FailedRowFields
      <4>2. QuietStep
        BY <2>4, <3>1, <3>4, <4>1
        DEF Fail, Matches, QuietStep, Idle, IsOpen, history
      <4> QED BY <4>2, QuietStepKeepsWakes
    <3>5. CASE ~Matches(workers[w].key, workers[w].id)
      <4>1. QuietStep
        BY <2>4, <3>5 DEF Fail, QuietStep, Idle, IsOpen, history
      <4> QED BY <4>1, QuietStepKeepsWakes
    <3> QED BY <3>3, <3>4, <3>5
  <2>5. ASSUME NEW w \in Workers, Wake(w) \/ Crash(w) PROVE Wakes'
    <3>1. QuietStep
      BY <2>5 DEF Wake, Crash, QuietStep, Idle, IsOpen
    <3> QED BY <3>1, QuietStepKeepsWakes
  <2>6. ASSUME NEW k \in Keys, LeaseExpires(k) \/ BackoffElapses(k) \/ Age(k)
        PROVE  Wakes'
    <3>1. /\ tasks'[k].id = tasks[k].id /\ tasks'[k].status = tasks[k].status
          /\ \A j \in Keys \ {k} : tasks'[j] = tasks[j]
          /\ UNCHANGED <<workers, history>>
      BY <2>6 DEF LeaseExpires, BackoffElapses, Age, Row
    <3>2. QuietStep
      BY <3>1 DEF QuietStep, IsOpen, history
    <3> QED BY <3>2, QuietStepKeepsWakes
  <2>7. ASSUME NEW k \in Keys, Cancel(k) PROVE Wakes'
    <3>1. QuietStep
      BY <2>7 DEF Cancel, CancelledRow, Row, QuietStep, IsOpen, history
    <3> QED BY <3>1, QuietStepKeepsWakes
  <2>8. ASSUME Reclaim PROVE Wakes'
    <3>1. QuietStep
      BY <2>8 DEF Reclaim, Expired, ReclaimedRow, Row, QuietStep, IsOpen
    <3> QED BY <3>1, QuietStepKeepsWakes
  <2>9. ASSUME Prune PROVE Wakes'
    <3>1. QuietStep
      BY <2>9 DEF Prune, NoRow, QuietStep, IsOpen, history
    <3> QED BY <3>1, QuietStepKeepsWakes
  <2>10. CASE UNCHANGED vars
    <3>1. QuietStep
      BY <2>10 DEF vars, QuietStep, IsOpen, history
    <3> QED BY <3>1, QuietStepKeepsWakes
  <2> QED
    BY <2>1, <2>2, <2>3, <2>4, <2>5, <2>6, <2>7, <2>8, <2>9, <2>10
    DEF Next, SlotStep, RowStep
<1> QED BY <1>1, <1>2, TypeCorrect, RowsAndSlotsAgree, PTL DEF Spec, Wakes
-----------------------------------------------------------------------------
(* Every settlement accounts for its wake-up *)

\* The wake-up of task i is issued, lost with its slot, or still owed by one.
Accounted(i) ==
    \/ i \in notified \cup lostWakes
    \/ \E w \in Workers : Waking(w) /\ workers[w].id = i

\* A row whose settlement owes a wake-up: not one the workflow cancelled.
Owing(row) == row.status \in {"done", "failed"} /\ ~row.cancelled

\* A slot stops waking only by issuing its wake-up or by dying with it.
WakingKept ==
    /\ notified \subseteq notified' /\ lostWakes \subseteq lostWakes'
    /\ \A w \in Workers : workers[w].pc = "waking" =>
          \/ workers'[w] = workers[w]
          \/ workers[w].id \in (notified \cup lostWakes)'

\* No step drops a wake-up that is owed.
LEMMA StepsKeepWaking ==
  ASSUME TypeOK, [Next]_vars PROVE WakingKept
<1> USE DEF TypeOK, WakingKept
<1>1. ASSUME NEW w \in Workers, NEW k \in Keys, Dequeue(w, k)
      PROVE  WakingKept
  BY <1>1 DEF Dequeue, history
<1>2. ASSUME NEW w \in Workers, NEW r \in Results, Complete(w, r)
      PROVE  WakingKept
  BY <1>2 DEF Complete, history
<1>3. ASSUME NEW w \in Workers, NEW p \in BOOLEAN, Fail(w, p)
      PROVE  WakingKept
  BY <1>3 DEF Fail, history
<1>4. ASSUME NEW w \in Workers, Wake(w) \/ Crash(w) PROVE WakingKept
  BY <1>4 DEF Wake, Crash
<1>5. ASSUME NEW k \in Keys, RowStep(k) PROVE WakingKept
  BY <1>5 DEF RowStep, Enqueue, LeaseExpires, BackoffElapses, Age, Cancel,
              history
<1>6. CASE Reclaim \/ Prune \/ UNCHANGED vars
  BY <1>6 DEF Reclaim, Prune, vars, history
<1> QED BY <1>1, <1>2, <1>3, <1>4, <1>5, <1>6 DEF Next, SlotStep

\* A row that owes a wake-up after a step owed it before, or has just been
\* settled by a slot that has begun to wake.
OwingKept ==
    \A k \in Keys : Owing(tasks'[k]) =>
        \/ Owing(tasks[k]) /\ tasks'[k].id = tasks[k].id
        \/ \E w \in Workers : /\ workers'[w].pc = "waking"
                              /\ workers'[w].id = tasks'[k].id

\* A settlement by slot w of the row it matches.
LEMMA SettlementOwes ==
  ASSUME TypeOK, NEW w \in Workers, workers[w].pc = "running",
         workers[w].key \in Keys, Matches(workers[w].key, workers[w].id),
         NEW row \in Row, row.id = tasks[workers[w].key].id,
         tasks' = [tasks EXCEPT ![workers[w].key] = row],
         workers' = [workers EXCEPT ![w] = [workers[w] EXCEPT !.pc = "waking"]]
  PROVE  OwingKept
<1>1. workers'[w].pc = "waking" /\ workers'[w].id = workers[w].id
  BY DEF TypeOK, Slot
<1>2. \A k \in Keys \ {workers[w].key} : tasks'[k] = tasks[k]
  BY DEF TypeOK
<1>3. tasks'[workers[w].key].id = workers[w].id
  BY DEF TypeOK, Matches
<1> QED BY <1>1, <1>2, <1>3 DEF OwingKept

\* No step settles a row, other than by cancelling it, without a slot that owes
\* its wake-up.
LEMMA StepsKeepOwing ==
  ASSUME TypeOK, [Next]_vars PROVE OwingKept
<1> USE DEF TypeOK
<1>0. \A k \in Keys : tasks[k] \in Row
  OBVIOUS
<1>1. ASSUME NEW w \in Workers, NEW r \in Results, Complete(w, r)
      PROVE  OwingKept
  <2>1. workers[w].key \in Keys
    BY <1>1 DEF Complete, Slot
  <2>2. CASE Matches(workers[w].key, workers[w].id)
    <3> DEFINE row == CompletedRow(tasks[workers[w].key], r)
    <3>1. row \in Row
      BY <2>1, RowOperatorsType
    <3>2. row.id = tasks[workers[w].key].id
      BY <2>1 DEF CompletedRow, Row
    <3>3. /\ workers[w].pc = "running"
          /\ tasks' = [tasks EXCEPT ![workers[w].key] = row]
          /\ workers' = [workers EXCEPT ![w] =
                            [workers[w] EXCEPT !.pc = "waking"]]
      BY <1>1, <2>2 DEF Complete
    <3> HIDE DEF row
    <3> QED BY <2>1, <2>2, <3>1, <3>2, <3>3, SettlementOwes
  <2>3. CASE ~Matches(workers[w].key, workers[w].id)
    BY <1>1, <2>3 DEF Complete, OwingKept
  <2> QED BY <2>2, <2>3
<1>2. ASSUME NEW w \in Workers, NEW p \in BOOLEAN, Fail(w, p)
      PROVE  OwingKept
  <2>1. workers[w].key \in Keys
    BY <1>2 DEF Fail, Slot
  <2> DEFINE row == FailedRow(tasks[workers[w].key], p)
  <2>2. row \in Row /\ row.id = tasks[workers[w].key].id
    <3>1. tasks[workers[w].key] \in Row
      BY <2>1
    <3>2. row \in Row
      BY <3>1, RowOperatorsType
    <3>3. row.id = tasks[workers[w].key].id
      BY <3>1, FailedRowFields
    <3> QED BY <3>2, <3>3
  <2>3. CASE /\ Matches(workers[w].key, workers[w].id)
             /\ ~Retried(tasks[workers[w].key], p)
    <3>1. /\ workers[w].pc = "running"
          /\ tasks' = [tasks EXCEPT ![workers[w].key] = row]
          /\ workers' = [workers EXCEPT ![w] =
                            [workers[w] EXCEPT !.pc = "waking"]]
      BY <1>2, <2>3 DEF Fail
    <3> HIDE DEF row
    <3> QED BY <2>1, <2>2, <2>3, <3>1, SettlementOwes
  <2>4. CASE /\ Matches(workers[w].key, workers[w].id)
             /\ Retried(tasks[workers[w].key], p)
    <3>1. row.status = "pending"
      BY <2>1, <2>4, FailedRowFields
    <3>2. tasks' = [tasks EXCEPT ![workers[w].key] = row]
      BY <1>2, <2>4 DEF Fail
    <3> HIDE DEF row
    <3> QED BY <2>1, <3>1, <3>2 DEF OwingKept, Owing
  <2>5. CASE ~Matches(workers[w].key, workers[w].id)
    BY <1>2, <2>5 DEF Fail, OwingKept
  <2> QED BY <2>3, <2>4, <2>5
<1>3. ASSUME NEW k \in Keys, NEW row \in Row,
             tasks' = [tasks EXCEPT ![k] = row],
             ~Owing(row) \/ (Owing(tasks[k]) /\ row.id = tasks[k].id)
      PROVE  OwingKept
  BY <1>3 DEF OwingKept
<1>4. ASSUME NEW w \in Workers, NEW k \in Keys, Dequeue(w, k)
      PROVE  OwingKept
  <2>1. ~Owing(LeasedRow(tasks[k]))
    BY DEF LeasedRow, Row, Owing
  <2> QED BY <1>3, <1>4, <2>1, RowOperatorsType DEF Dequeue
<1>5. ASSUME NEW k \in Keys, Enqueue(k) \/ Cancel(k) PROVE OwingKept
  <2>1. ~Owing(FreshRow(nextId)) /\ ~Owing(CancelledRow(tasks[k]))
    BY DEF FreshRow, NoRow, CancelledRow, Row, Owing
  <2> QED BY <1>3, <1>5, <2>1, RowOperatorsType DEF Enqueue, Cancel
<1>6. ASSUME NEW k \in Keys, LeaseExpires(k) \/ BackoffElapses(k) \/ Age(k)
      PROVE  OwingKept
  <2>1. ASSUME NEW row \in Row, row.status = tasks[k].status,
               row.cancelled = tasks[k].cancelled, row.id = tasks[k].id,
               tasks' = [tasks EXCEPT ![k] = row]
        PROVE  OwingKept
    BY <2>1 DEF OwingKept, Owing
  <2>2. /\ tasks[k] \in Row
        /\ \A row \in {[tasks[k] EXCEPT !.lease = "expired"],
                       [tasks[k] EXCEPT !.available = TRUE],
                       [tasks[k] EXCEPT !.aged = TRUE]} :
              /\ row.status = tasks[k].status /\ row.id = tasks[k].id
              /\ row.cancelled = tasks[k].cancelled
    BY DEF Row
  <2> QED BY <1>6, <2>1, <2>2, EditedRowType
          DEF LeaseExpires, BackoffElapses, Age
<1>7. ASSUME Reclaim PROVE OwingKept
  <2>1. \A k \in Keys : ~Owing(ReclaimedRow(tasks[k]))
    BY DEF ReclaimedRow, Row, Owing
  <2> QED BY <1>7, <2>1 DEF Reclaim, OwingKept
<1>8. ASSUME Prune PROVE OwingKept
  <2>1. ~Owing(NoRow)
    BY DEF NoRow, Owing
  <2> QED BY <1>8, <2>1 DEF Prune, OwingKept
<1>9. ASSUME UNCHANGED tasks PROVE OwingKept
  BY <1>9 DEF OwingKept
<1>10. ASSUME NEW w \in Workers, Wake(w) \/ Crash(w) PROVE OwingKept
  BY <1>9, <1>10 DEF Wake, Crash
<1>11. CASE UNCHANGED vars
  BY <1>9, <1>11 DEF vars
<1> QED
  BY <1>1, <1>2, <1>4, <1>5, <1>6, <1>7, <1>8, <1>10, <1>11
  DEF Next, SlotStep, RowStep

\* Whichever of several slots settles a row, with a result, with its last attempt
\* or with a permanent error, and wherever it dies: the wake-up of its workflow is
\* issued, owed, or known to have died with its slot (WakeAccounted).
THEOREM NoWakeForgotten == Spec => []WakeAccounted
<1> DEFINE Inv == \A k \in Keys : Owing(tasks[k]) => Accounted(tasks[k].id)
<1>1. Init => Inv
  BY DEF Init, NoRow, Owing
<1>2. TypeOK /\ Inv /\ [Next]_vars => Inv'
  <2> SUFFICES ASSUME TypeOK, Inv, [Next]_vars,
                      NEW k \in Keys, Owing(tasks'[k])
               PROVE  Accounted(tasks[k].id)'
    BY DEF Owing
  <2>1. WakingKept /\ OwingKept
    BY StepsKeepWaking, StepsKeepOwing
  <2>2. CASE Owing(tasks[k]) /\ tasks'[k].id = tasks[k].id
    BY <2>1, <2>2 DEF WakingKept, Accounted, Waking
  <2>3. CASE \E w \in Workers : /\ workers'[w].pc = "waking"
                                /\ workers'[w].id = tasks'[k].id
    BY <2>3 DEF Accounted, Waking
  <2> QED BY <2>1, <2>2, <2>3 DEF OwingKept
<1>3. Inv => WakeAccounted
  BY DEF Owing, Accounted, WakeAccounted, Settled
<1> QED BY <1>1, <1>2, <1>3, TypeCorrect, PTL DEF Spec

-----------------------------------------------------------------------------
(* Two slots never hold the same delivery *)

\* A row that is still there after a step has counted what it had counted.
AttemptsKept ==
    \A k \in Keys : \/ tasks'[k].id = 0
                    \/ /\ tasks'[k].id = tasks[k].id
                       /\ tasks'[k].attempts >= tasks[k].attempts
                    \/ tasks'[k].id = nextId

\* No statement takes a delivery back from a row's count.
LEMMA StepsKeepAttempts ==
  ASSUME TypeOK, [Next]_vars PROVE AttemptsKept
<1> USE DEF TypeOK
<1>0. \A k \in Keys : /\ tasks[k] \in Row /\ tasks[k].attempts \in Nat
                      /\ tasks[k].attempts >= tasks[k].attempts
  BY DEF Row
<1>1. ASSUME NEW k \in Keys, NEW row \in Row,
             tasks' = [tasks EXCEPT ![k] = row], row.id = tasks[k].id,
             row.attempts \in {tasks[k].attempts, tasks[k].attempts + 1}
      PROVE  AttemptsKept
  BY <1>0, <1>1 DEF AttemptsKept
<1>2. ASSUME UNCHANGED tasks PROVE AttemptsKept
  BY <1>0, <1>2 DEF AttemptsKept
<1>3. ASSUME NEW k \in Keys, Enqueue(k) PROVE AttemptsKept
  <2>1. FreshRow(nextId).id = nextId
    BY DEF FreshRow, NoRow
  <2> QED BY <1>0, <1>3, <2>1 DEF Enqueue, AttemptsKept
<1>4. ASSUME NEW w \in Workers, NEW k \in Keys, Dequeue(w, k)
      PROVE  AttemptsKept
  <2>1. /\ LeasedRow(tasks[k]).id = tasks[k].id
        /\ LeasedRow(tasks[k]).attempts = tasks[k].attempts + 1
    BY DEF LeasedRow, Row
  <2> QED BY <1>1, <1>4, <2>1, RowOperatorsType DEF Dequeue
<1>5. ASSUME NEW w \in Workers, NEW r \in Results, Complete(w, r)
      PROVE  AttemptsKept
  <2>1. workers[w].key \in Keys
    BY <1>5 DEF Complete, Slot
  <2> DEFINE k == workers[w].key
  <2>2. /\ CompletedRow(tasks[k], r).id = tasks[k].id
        /\ CompletedRow(tasks[k], r).attempts = tasks[k].attempts
    BY <2>1 DEF CompletedRow, Row
  <2> QED BY <1>1, <1>2, <1>5, <2>1, <2>2, RowOperatorsType DEF Complete
<1>6. ASSUME NEW w \in Workers, NEW p \in BOOLEAN, Fail(w, p)
      PROVE  AttemptsKept
  <2>1. workers[w].key \in Keys
    BY <1>6 DEF Fail, Slot
  <2> DEFINE k == workers[w].key
  <2>2. /\ FailedRow(tasks[k], p).id = tasks[k].id
        /\ FailedRow(tasks[k], p).attempts = tasks[k].attempts
        /\ FailedRow(tasks[k], p) \in Row
    <3>1. tasks[k] \in Row
      BY <2>1
    <3>2. FailedRow(tasks[k], p) \in Row
      BY <3>1, RowOperatorsType
    <3> HIDE DEF k
    <3>3. /\ FailedRow(tasks[k], p).id = tasks[k].id
          /\ FailedRow(tasks[k], p).attempts = tasks[k].attempts
      BY <3>1, FailedRowFields
    <3> QED BY <3>2, <3>3
  <2>3. \/ UNCHANGED tasks
        \/ tasks' = [tasks EXCEPT ![k] = FailedRow(tasks[k], p)]
    BY <1>6, Zenon DEF Fail
  <2> QED BY <1>1, <1>2, <2>1, <2>2, <2>3
<1>7. ASSUME NEW k \in Keys,
             LeaseExpires(k) \/ BackoffElapses(k) \/ Age(k) \/ Cancel(k)
      PROVE  AttemptsKept
  <2>1. \A row \in {[tasks[k] EXCEPT !.lease = "expired"],
                    [tasks[k] EXCEPT !.available = TRUE],
                    [tasks[k] EXCEPT !.aged = TRUE],
                    CancelledRow(tasks[k])} :
           row.id = tasks[k].id /\ row.attempts = tasks[k].attempts
    BY <1>0 DEF CancelledRow, Row
  <2>2. /\ [tasks[k] EXCEPT !.lease = "expired"] \in Row
        /\ [tasks[k] EXCEPT !.available = TRUE] \in Row
        /\ [tasks[k] EXCEPT !.aged = TRUE] \in Row
        /\ CancelledRow(tasks[k]) \in Row
    BY <1>0, EditedRowType, RowOperatorsType
  <2>3. CASE LeaseExpires(k) \/ BackoffElapses(k) \/ Age(k)
    BY <1>1, <2>1, <2>2, <2>3 DEF LeaseExpires, BackoffElapses, Age
  <2>4. CASE Cancel(k)
    BY <1>1, <2>1, <2>2, <2>4 DEF Cancel
  <2> QED BY <1>7, <2>3, <2>4
<1>8. ASSUME Reclaim PROVE AttemptsKept
  <2>1. \A k \in Keys : /\ ReclaimedRow(tasks[k]).id = tasks[k].id
                        /\ ReclaimedRow(tasks[k]).attempts = tasks[k].attempts
    BY DEF ReclaimedRow, Row
  <2> QED BY <1>0, <1>8, <2>1 DEF Reclaim, AttemptsKept
<1>9. ASSUME Prune PROVE AttemptsKept
  <2>1. NoRow.id = 0
    BY DEF NoRow
  <2> QED BY <1>0, <1>9, <2>1 DEF Prune, AttemptsKept
<1>10. ASSUME NEW w \in Workers, Wake(w) \/ Crash(w) PROVE AttemptsKept
  BY <1>2, <1>10 DEF Wake, Crash
<1>11. CASE UNCHANGED vars
  BY <1>2, <1>11 DEF vars
<1> QED
  BY <1>3, <1>4, <1>5, <1>6, <1>7, <1>8, <1>9, <1>10, <1>11
  DEF Next, SlotStep, RowStep

\* A slot that runs a task after a step ran the same delivery before, or has
\* just leased it.
LEMMA RunningStays ==
  ASSUME TypeOK, [Next]_vars,
         ~ \E w \in Workers, k \in Keys : Dequeue(w, k)
  PROVE  \A w \in Workers : workers'[w].pc = "running" =>
            workers[w].pc = "running" /\ workers'[w] = workers[w]
<1> USE DEF TypeOK
<1>1. ASSUME NEW v \in Workers,
             \/ \E r \in Results : Complete(v, r)
             \/ \E p \in BOOLEAN : Fail(v, p)
             \/ Wake(v)
             \/ Crash(v)
      PROVE  /\ workers'[v].pc # "running"
             /\ \A w \in Workers \ {v} : workers'[w] = workers[w]
  <2>1. /\ Idle.pc = "idle"
        /\ workers[v].pc = "running"
             => [workers[v] EXCEPT !.pc = "waking"].pc = "waking"
    BY DEF Idle, Slot
  <2>2. CASE \E r \in Results : Complete(v, r)
    <3>1. \E s \in {Idle, [workers[v] EXCEPT !.pc = "waking"]} :
             workers' = [workers EXCEPT ![v] = s] /\ workers[v].pc = "running"
      BY <2>2 DEF Complete
    <3> QED BY <2>1, <3>1
  <2>3. CASE \E p \in BOOLEAN : Fail(v, p)
    <3>1. \E s \in {Idle, [workers[v] EXCEPT !.pc = "waking"]} :
             workers' = [workers EXCEPT ![v] = s] /\ workers[v].pc = "running"
      BY <2>3 DEF Fail
    <3> QED BY <2>1, <3>1
  <2>4. CASE Wake(v) \/ Crash(v)
    BY <2>1, <2>4 DEF Wake, Crash
  <2> QED BY <1>1, <2>2, <2>3, <2>4
<1>2. ASSUME NEW k \in Keys, RowStep(k) PROVE UNCHANGED workers
  BY <1>2 DEF RowStep, Enqueue, LeaseExpires, BackoffElapses, Age, Cancel
<1>3. ASSUME Reclaim \/ Prune \/ UNCHANGED vars PROVE UNCHANGED workers
  BY <1>3 DEF Reclaim, Prune, vars
<1> QED BY <1>1, <1>2, <1>3 DEF Next, SlotStep

\* However often a lease is lost and the row handed out again, two slots that
\* run it hold different deliveries, each of them counted by the row.
THEOREM DeliveriesApart == Spec => []DeliveriesDistinct
<1>1. Init => DeliveriesDistinct
  BY DEF Init, Idle, DeliveriesDistinct, Running
<1>2. TypeOK /\ TypeOK' /\ Coherent /\ DeliveriesDistinct /\ [Next]_vars
        => DeliveriesDistinct'
  <2> SUFFICES ASSUME TypeOK, TypeOK', Coherent, DeliveriesDistinct, [Next]_vars
               PROVE  DeliveriesDistinct'
    OBVIOUS
  <2>0. ASSUME NEW w \in Workers, workers[w].pc = "running"
        PROVE  /\ workers[w].id \in 1..(nextId - 1)
               /\ workers[w].attempt \in Nat
    BY <2>0 DEF TypeOK, Coherent, Slot
  <2>1. ASSUME NEW w \in Workers, workers[w].pc = "running", NEW k \in Keys,
               tasks'[k].id = workers[w].id
        PROVE  workers[w].attempt <= tasks'[k].attempts
    <3>1. /\ tasks'[k].id = tasks[k].id
          /\ tasks'[k].attempts >= tasks[k].attempts
      BY <2>0, <2>1, StepsKeepAttempts DEF AttemptsKept, TypeOK
    <3>2. tasks[k].attempts \in Nat /\ tasks'[k].attempts \in Nat
      BY <3>1 DEF TypeOK, Row
    <3>3. workers[w].attempt <= tasks[k].attempts
      BY <2>1, <3>1 DEF DeliveriesDistinct, Running
    <3> QED BY <2>0, <2>1, <3>1, <3>2, <3>3
  <2>2. CASE ~ \E w \in Workers, k \in Keys : Dequeue(w, k)
    BY <2>1, <2>2, RunningStays DEF DeliveriesDistinct, Running
  <2>3. ASSUME NEW u \in Workers, NEW j \in Keys, Dequeue(u, j)
        PROVE  DeliveriesDistinct'
    <3>1. /\ workers'[u].id = tasks[j].id
          /\ workers'[u].attempt = tasks[j].attempts + 1
          /\ tasks'[j].id = tasks[j].id
          /\ tasks'[j].attempts = tasks[j].attempts + 1
          /\ tasks[j].attempts \in Nat
          /\ \A k \in Keys \ {j} : tasks'[k] = tasks[k]
          /\ \A v \in Workers \ {u} : workers'[v] = workers[v]
      BY <2>3 DEF Dequeue, TypeOK, LeasedRow, Row
    <3>2. \A k \in Keys : tasks'[k].id = tasks[j].id => k = j
      BY <2>3, <3>1 DEF Dequeue, Coherent, Exists
    <3>3. \A v \in Workers \ {u} :
             workers[v].pc = "running" /\ workers[v].id = tasks[j].id
               => workers[v].attempt < tasks[j].attempts + 1
      BY <2>0, <3>1 DEF DeliveriesDistinct, Running
    <3>4. \A v \in Workers \ {u} :
             workers[v].pc = "running" /\ workers[v].id = tasks[j].id
               => workers[v].attempt # tasks[j].attempts + 1
      BY <2>0, <3>1, <3>3
    <3> QED BY <2>1, <3>1, <3>2, <3>4 DEF DeliveriesDistinct, Running
  <2> QED BY <2>2, <2>3
<1> QED BY <1>1, <1>2, TypeCorrect, RowsAndSlotsAgree, PTL DEF Spec
=============================================================================

---------------------------- MODULE SideEffects ----------------------------
(***************************************************************************)
(* The side-effect worker (side_effect_worker.run_finalize) on top of the  *)
(* task queue: a delivery of a finalize task runs refund -> ledger check   *)
(* -> reply -> read-model row, each a transaction of its own (ledger.py,   *)
(* readmodel.py), before complete() stores the result.  A delivery may     *)
(* stop at any point (an exception, a crash), and several deliveries of    *)
(* one task may run at once after a lease expired; the effects still       *)
(* happen at most once and the stored results agree with the ledgers.      *)
(*                                                                         *)
(* A key is the finalize task of one ticket; its payload is fixed, so the  *)
(* one thing about it that matters is whether a refund is due.  A result   *)
(* is its refund_executed flag: Results is BOOLEAN.                        *)
(***************************************************************************)
EXTENDS TaskQueue

CONSTANT RefundKeys   \* tasks whose payload is resolved with a refund action

ASSUME SideEffectsAssumption ==
    /\ RefundKeys \subseteq Keys
    /\ Results = BOOLEAN

VARIABLES stage,       \* [Workers -> Stage], how far run_finalize has come
          flag,        \* [Workers -> BOOLEAN], its local refund_executed
          refunds,     \* tickets in the refunds ledger
          replies,     \* tickets in the sent_replies ledger
          refundLog,   \* [Keys -> deliveries], the refund_attempts rows
          stored,      \* [Keys -> result], the ticket_results row
          moneyMoved,  \* history: record_refund returned True, per ticket
          mailsSent    \* history: record_sent_reply returned True, per ticket

effects == <<refunds, replies, refundLog, stored, moneyMoved, mailsSent>>
finalizeVars == <<vars, stage, flag, effects>>

Stage == {"none", "start", "refunded", "checked", "replied", "recorded"}

FinalizeInit ==
    /\ Init
    /\ stage = [w \in Workers |-> "none"]
    /\ flag = [w \in Workers |-> FALSE]
    /\ refunds = {}
    /\ replies = {}
    /\ refundLog = [k \in Keys |-> {}]
    /\ stored = [k \in Keys |-> NoResult]
    /\ moneyMoved = [k \in Keys |-> 0]
    /\ mailsSent = [k \in Keys |-> 0]

Delivery(w) == <<workers[w].id, workers[w].attempt>>

\* Mutant: a slot that is done with its delivery goes on with its next effect.
LeaveRunning(w) == UNCHANGED <<stage, flag, effects>>

\* The slot leaves run_finalize: its locals are gone.
Leave(w) == /\ stage' = [stage EXCEPT ![w] = "none"]
            /\ flag' = [flag EXCEPT ![w] = FALSE]
            /\ UNCHANGED effects

Begin(w, k) ==
    /\ Dequeue(w, k)
    /\ stage' = [stage EXCEPT ![w] = "start"]
    /\ UNCHANGED <<flag, effects>>

\* Mutant: the ledger insert has no ON CONFLICT, every call is the first.
ExecuteRefundAlways(w) ==
    LET k == workers[w].key IN
    /\ stage[w] = "start"
    /\ k \in RefundKeys
    /\ refundLog' = [refundLog EXCEPT ![k] = @ \cup {Delivery(w)}]
    /\ refunds' = refunds \cup {k}
    /\ moneyMoved' = [moneyMoved EXCEPT ![k] = @ + 1]
    /\ stage' = [stage EXCEPT ![w] = "refunded"]
    /\ UNCHANGED <<vars, flag, replies, stored, mailsSent>>

\* execute_refund: log the attempt, insert unless present, one transaction.
ExecuteRefund(w) ==
    LET k == workers[w].key IN
    /\ stage[w] = "start"
    /\ k \in RefundKeys
    /\ refundLog' = [refundLog EXCEPT ![k] = @ \cup {Delivery(w)}]
    /\ refunds' = refunds \cup {k}
    /\ moneyMoved' = [moneyMoved EXCEPT ![k] = IF k \in refunds THEN @
                                               ELSE @ + 1]
    /\ stage' = [stage EXCEPT ![w] = "refunded"]
    /\ UNCHANGED <<vars, flag, replies, stored, mailsSent>>

\* Mutant: the flag is the refund call's "first time?" answer.
RefundFlagFirst(w) ==
    \A d \in refundLog[workers[w].key] : d = Delivery(w)

\* refund_recorded: the flag comes from the ledger.
RefundFlag(w) == workers[w].key \in refunds

CheckRefund(w) ==
    /\ stage[w] = "refunded"
    /\ flag' = [flag EXCEPT ![w] = RefundFlag(w)]
    /\ stage' = [stage EXCEPT ![w] = "checked"]
    /\ UNCHANGED <<vars, effects>>

\* Mutant: the reply does not wait for the refund.
ReadyToReplyEarly(w) == stage[w] \in {"start", "checked"}

ReadyToReply(w) ==
    \/ stage[w] = "checked"
    \/ stage[w] = "start" /\ workers[w].key \notin RefundKeys

\* send_reply: the same shape as the refund, on sent_replies.
SendReply(w) ==
    LET k == workers[w].key IN
    /\ ReadyToReply(w)
    /\ replies' = replies \cup {k}
    /\ mailsSent' = [mailsSent EXCEPT ![k] = IF k \in replies THEN @
                                             ELSE @ + 1]
    /\ stage' = [stage EXCEPT ![w] = "replied"]
    /\ UNCHANGED <<vars, flag, refunds, refundLog, stored, moneyMoved>>

\* record_result: an upsert of the read-model row.
RecordResult(w) ==
    /\ stage[w] = "replied"
    /\ stored' = [stored EXCEPT ![workers[w].key] = flag[w]]
    /\ stage' = [stage EXCEPT ![w] = "recorded"]
    /\ UNCHANGED <<vars, flag, refunds, replies, refundLog, moneyMoved,
                   mailsSent>>

\* run_finalize returned.
Return(w) == stage[w] = "recorded" /\ Complete(w, flag[w]) /\ Leave(w)

\* A transaction of run_finalize raised, before or after it took effect; none
\* of them raises an AgentPermanentError.
Raise(w) == stage[w] # "none" /\ Fail(w, FALSE) /\ Leave(w)

Die(w) == Crash(w) /\ Leave(w)

\* The rest of the queue.  The workflow never cancels a finalize task.
Elsewhere ==
    /\ \/ \E w \in Workers : Wake(w)
       \/ \E k \in Keys : Enqueue(k) \/ LeaseExpires(k) \/ BackoffElapses(k)
                            \/ Age(k)
       \/ Reclaim
       \/ Prune
    /\ UNCHANGED <<stage, flag, effects>>

FinalizeNext ==
    \/ \E w \in Workers :
         \/ \E k \in Keys : Begin(w, k)
         \/ ExecuteRefund(w)
         \/ CheckRefund(w)
         \/ SendReply(w)
         \/ RecordResult(w)
         \/ Return(w)
         \/ Raise(w)
         \/ Die(w)
    \/ Elsewhere

FinalizeSpec == FinalizeInit /\ [][FinalizeNext]_finalizeVars

-----------------------------------------------------------------------------
(* Correctness *)

\* Every variable has its type, and a slot is in run_finalize exactly while it
\* runs a task.
FinalizeTypeOK ==
    /\ TypeOK
    /\ stage \in [Workers -> Stage]
    /\ flag \in [Workers -> BOOLEAN]
    /\ refunds \subseteq Keys
    /\ replies \subseteq Keys
    /\ refundLog \in [Keys -> SUBSET (Nat \X Nat)]
    /\ stored \in [Keys -> BOOLEAN \cup {NoResult}]
    /\ moneyMoved \in [Keys -> Nat]
    /\ mailsSent \in [Keys -> Nat]
    /\ \A w \in Workers : stage[w] # "none" <=> Running(w)

\* However many deliveries of a ticket's finalize task run, fail, crash or
\* repeat, the money moves and the customer is written to at most once, and
\* the ledgers say exactly when that has happened.
EffectsAtMostOnce ==
    \A k \in Keys : /\ moneyMoved[k] = IF k \in refunds THEN 1 ELSE 0
                    /\ mailsSent[k] = IF k \in replies THEN 1 ELSE 0

\* The customer is not told of a refund before it is durably recorded, by this
\* delivery or by an earlier one.
RefundBeforeReply == replies \cap RefundKeys \subseteq refunds

\* A finalize task that is done has had all its effects, and its result, the
\* read-model row and the refund ledger agree, although an older delivery may
\* have upserted the row or settled the task after a newer one.
DoneMeansEffects ==
    \A k \in Keys : tasks[k].status = "done" =>
        /\ k \in replies
        /\ stored[k] = tasks[k].result
        /\ tasks[k].result = (k \in refunds)
        /\ k \in RefundKeys => k \in refunds
=============================================================================

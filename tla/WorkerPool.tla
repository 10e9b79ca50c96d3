----------------------------- MODULE WorkerPool -----------------------------
(***************************************************************************)
(* The loop of a task worker process (agent_worker.run_forever, with its   *)
(* TokenBucket): it keeps at most max_concurrent deliveries in flight,     *)
(* spaces their beginnings when it is throttled, and lets what is in       *)
(* flight finish when it is stopped, cancelled or hit by an exception.     *)
(* What a delivery does is TaskQueue's; here it only ends.                 *)
(*                                                                         *)
(* One event loop: an action runs from one suspension of the loop's        *)
(* coroutine to the next.  Time is counted in ticks, relative to now.  A   *)
(* sleep may end late by any time.                                         *)
(***************************************************************************)
EXTENDS Integers, Sequences, FiniteSets

CONSTANTS MaxConcurrent,  \* max_concurrent
          Interval,       \* 1 / max_per_second
          PollInterval,   \* poll_interval
          Memory          \* how many beginnings the history remembers

ASSUME PoolAssumption ==
    {MaxConcurrent, Interval, PollInterval, Memory} \subseteq Nat \ {0}

VARIABLES throttled,  \* the worker has a bucket: max_per_second is not None
          stop,       \* the stop event
          pc,         \* where the coroutine is suspended, or in which of its loops
          wait,       \* what is left of its sleep
          next,       \* _next_available - now, 0 once that has passed
          slots,      \* process_one_task, by slot
          begun       \* history: ages of the latest beginnings, newest first

vars == <<throttled, stop, pc, wait, next, slots, begun>>

Slots == 1..MaxConcurrent
Horizon == Memory * Interval

Init ==
    /\ throttled \in BOOLEAN
    /\ stop = FALSE
    /\ pc = "looping"
    /\ wait = 0
    /\ next = 0
    /\ slots = [s \in Slots |-> "free"]
    /\ begun = <<>>

With(state) == {s \in Slots : slots[s] = state}
Finished == With("processed") \cup With("empty") \cup With("error")

\* in_flight: what runs, and what has finished and was not looked at.
InFlight == With("running") \cup Finished

-----------------------------------------------------------------------------
(* TokenBucket.acquire *)

\* Mutant: the time of the next token is counted from now, not from the token
\* before.
TokenAfterNow(n) == Interval

\* Mutant: a token is paid for twice.
TokenAfterTwice(n) == n + 2 * Interval

\* _next_available after a token that is n away: now + interval at once, else
\* one interval after it.
TokenAfter(n) == n + Interval

-----------------------------------------------------------------------------
(* The loop *)

\* create_task, for each slot of S; the history keeps the latest beginnings.
Begin(S) ==
    LET n == Cardinality(S)
        length == IF n + Len(begun) < Memory THEN n + Len(begun) ELSE Memory IN
    /\ slots' = [s \in Slots |-> IF s \in S THEN "running" ELSE slots[s]]
    /\ begun' = [i \in 1..length |-> IF i <= n THEN 0 ELSE begun[i - n]]

Free == Slots \ InFlight

\* The condition of the inner loop.
Room == Free # {} /\ ~stop

\* The inner loop, reached past the condition of the outer one.
Inside == pc = "filling" \/ (pc = "looping" /\ ~stop)

\* A throttled worker takes a token, at once or at the end of a sleep.
Acquire ==
    /\ Inside
    /\ throttled
    /\ Room
    /\ next' = TokenAfter(next)
    /\ IF next = 0
         THEN /\ \E s \in Free : Begin({s})
              /\ pc' = "filling"
              /\ UNCHANGED wait
         ELSE /\ pc' = "acquiring"
              /\ wait' = next
              /\ UNCHANGED <<slots, begun>>
    /\ UNCHANGED <<throttled, stop>>

\* The sleep is over; the stop event is not asked for again.
Acquired ==
    /\ pc = "acquiring"
    /\ wait = 0
    /\ \E s \in Free : Begin({s})
    /\ pc' = "filling"
    /\ UNCHANGED <<throttled, stop, wait, next>>

\* Without a bucket nothing suspends the inner loop.
FillAll ==
    /\ Inside
    /\ ~throttled
    /\ Room
    /\ Begin(Free)
    /\ pc' = "filling"
    /\ UNCHANGED <<throttled, stop, wait, next>>

\* The inner loop is done: wait for one of the tasks.
Filled ==
    /\ Inside
    /\ ~Room
    /\ InFlight # {}
    /\ pc' = "waiting"
    /\ UNCHANGED <<throttled, stop, wait, next, slots, begun>>

\* The stop event ends the outer loop.
Leave ==
    /\ pc = "looping"
    /\ stop
    /\ pc' = "draining"
    /\ UNCHANGED <<throttled, stop, wait, next, slots, begun>>

\* Mutant: a task that found the queue empty stays in in_flight.
CollectProcessed ==
    /\ pc = "waiting"
    /\ Finished # {}
    /\ With("error") = {}
    /\ slots' = [s \in Slots |-> IF slots[s] = "processed" THEN "free"
                                                           ELSE slots[s]]
    /\ pc' = "looping"
    /\ UNCHANGED <<throttled, stop, wait, next, begun>>

\* _wait_for_one: everything that has finished by now leaves in_flight.  If
\* nothing was processed the loop pauses, unless a token or a running task will
\* pace it.
Collect ==
    /\ pc = "waiting"
    /\ Finished # {}
    /\ With("error") = {}
    /\ slots' = [s \in Slots |-> IF s \in Finished THEN "free" ELSE slots[s]]
    /\ IF With("processed") = {} /\ (~throttled \/ With("running") = {})
         THEN pc' = "pausing" /\ wait' = PollInterval
         ELSE pc' = "looping" /\ UNCHANGED wait
    /\ UNCHANGED <<throttled, stop, next, begun>>

\* The result of one of them raises: those before it have left in_flight, those
\* after it have not, and the loop is over.
CollectRaises ==
    /\ pc = "waiting"
    /\ \E e \in With("error"), before \in SUBSET (Finished \ With("error")) :
          slots' = [s \in Slots |-> IF s = e \/ s \in before THEN "free"
                                                             ELSE slots[s]]
    /\ pc' = "draining"
    /\ UNCHANGED <<throttled, stop, wait, next, begun>>

Paused ==
    /\ pc = "pausing"
    /\ wait = 0
    /\ pc' = "looping"
    /\ UNCHANGED <<throttled, stop, wait, next, slots, begun>>

\* Mutant: the loop does not wait for what is in flight.
DrainedAtOnce == TRUE

\* Mutant: it waits until in_flight is empty.
DrainedIfCollected == InFlight = {}

\* gather(*in_flight, return_exceptions=True).
Drained == With("running") = {}

Drain ==
    /\ pc = "draining"
    /\ Drained
    /\ pc' = "ended"
    /\ slots' = [s \in Slots |-> IF s \in Finished THEN "free" ELSE slots[s]]
    /\ UNCHANGED <<throttled, stop, wait, next, begun>>

Loop == \/ Acquire \/ Acquired \/ FillAll \/ Filled \/ Leave
        \/ Collect \/ CollectRaises \/ Paused \/ Drain

-----------------------------------------------------------------------------
(* What happens to the loop *)

\* process_one_task returns whether there was a task, or raises.
Finish(s) ==
    /\ slots[s] = "running"
    /\ \E state \in {"processed", "empty", "error"} :
          slots' = [slots EXCEPT ![s] = state]
    /\ UNCHANGED <<throttled, stop, pc, wait, next, begun>>

Stop ==
    /\ ~stop
    /\ pc \in {"acquiring", "waiting", "pausing"}
    /\ stop' = TRUE
    /\ UNCHANGED <<throttled, pc, wait, next, slots, begun>>

\* The process is interrupted: CancelledError at the suspension.
Cancel ==
    /\ pc \in {"acquiring", "waiting", "pausing"}
    /\ pc' = "draining"
    /\ wait' = 0
    /\ UNCHANGED <<throttled, stop, next, slots, begun>>

Decrease(n) == IF n = 0 THEN 0 ELSE n - 1

Tick ==
    /\ pc # "ended"
    /\ wait' = Decrease(wait)
    /\ next' = Decrease(next)
    /\ begun' = [i \in DOMAIN begun |->
                   IF begun[i] < Horizon THEN begun[i] + 1 ELSE Horizon]
    /\ UNCHANGED <<throttled, stop, pc, slots>>

Next ==
    \/ Loop
    \/ \E s \in Slots : Finish(s)
    \/ Stop \/ Cancel \/ Tick

Spec == Init /\ [][Next]_vars

\* The event loop schedules the coroutine, time passes, deliveries end.
Fairness ==
    /\ WF_vars(Loop)
    /\ WF_vars(Tick)
    /\ \A s \in Slots : WF_vars(Finish(s))

FairSpec == Spec /\ Fairness

-----------------------------------------------------------------------------
(* Properties *)

\* Types of the state.
TypeOK ==
    /\ throttled \in BOOLEAN
    /\ stop \in BOOLEAN
    /\ pc \in {"looping", "filling", "acquiring", "waiting", "pausing",
               "draining", "ended"}
    /\ wait \in Nat
    /\ next \in 0..(2 * Interval)
    /\ slots \in [Slots -> {"free", "running", "processed", "empty", "error"}]
    /\ begun \in Seq(0..Horizon)
    /\ Len(begun) <= Memory

\* The rate of a throttled worker, however late its sleeps end: n beginnings
\* take at least n - 2 intervals.  (A late one and the next may be any time
\* apart, but no two late ones in a row gain on the bucket.)
RateBound ==
    throttled =>
        \A i, j \in DOMAIN begun :
            i < j /\ begun[j] < Horizon =>
                begun[j] - begun[i] >= (j - i - 1) * Interval

\* The process does not end under a delivery: no task that was leased is left
\* to its lease's expiry by an orderly exit, an exception or an interrupt.
NoDeliveryAbandoned == pc = "ended" => With("running") = {}

\* A stop event, and an exception of any delivery, ends the loop.
StopEnds == stop \/ With("error") # {} ~> pc = "ended"

\* Until it ends the worker goes on taking tasks: neither the bucket, a pause
\* nor slots that have finished stop it.
KeepsPolling ==
    []<>(pc = "ended" \/ (begun # <<>> /\ Head(begun) = 0))
=============================================================================

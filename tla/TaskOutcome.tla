---------------------------- MODULE TaskOutcome ----------------------------
(***************************************************************************)
(* What the durable task queue promises the workflow that enqueues work:   *)
(* a submitted key is open until it settles, it settles at most once, with *)
(* one result or with a final failure, and what it settled to never        *)
(* changes while the key is remembered.  Leases, retries, redelivery and   *)
(* the janitor are invisible at this level.                                *)
(***************************************************************************)
CONSTANTS Keys,      \* idempotency keys
          Results,   \* values a worker can store
          NoResult   \* the NULL of the result column, no member of Results

VARIABLE outcome     \* [Keys -> Outcome]

Outcome == [state : {"absent", "open", "failed"}, result : {NoResult}]
             \cup [state : {"done"}, result : Results]

Absent  == [state |-> "absent", result |-> NoResult]
Open    == [state |-> "open",   result |-> NoResult]
Failed  == [state |-> "failed", result |-> NoResult]
Done(r) == [state |-> "done",   result |-> r]

Settled(k) == outcome[k].state \in {"done", "failed"}

Init == outcome = [k \in Keys |-> Absent]

Submit(k) ==
    /\ outcome[k] = Absent
    /\ outcome' = [outcome EXCEPT ![k] = Open]

Settle(k) ==
    /\ outcome[k] = Open
    /\ \E final \in {Failed} \cup {Done(r) : r \in Results} :
          outcome' = [outcome EXCEPT ![k] = final]

\* Retention may forget any set of settled keys at once.
Forget(S) ==
    /\ \A k \in S : Settled(k)
    /\ outcome' = [k \in Keys |-> IF k \in S THEN Absent ELSE outcome[k]]

Next ==
    \/ \E k \in Keys : Submit(k) \/ Settle(k)
    \/ \E S \in SUBSET Keys : Forget(S)

Spec == Init /\ [][Next]_outcome

\* The promise with progress: open work does not stay open.
FairSpec == Spec /\ \A k \in Keys : WF_outcome(Settle(k))
=============================================================================

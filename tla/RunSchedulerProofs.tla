------------------------- MODULE RunSchedulerProofs -------------------------
(***************************************************************************)
(* Theorems about RunScheduler, for every number of tickets, every set of  *)
(* runners and any number of deaths, late runners and failed tasks.        *)
(***************************************************************************)
EXTENDS RunScheduler, TLAPS

\* A runner that is in a ticket has its lease, unless somebody there has
\* outlived one.
Holds(r) ==
    LET t == proc[r].ticket IN
    /\ t \in Tickets
    /\ row[t].status # "absent"
    /\ behind[t] # "now" => row[t].lease = r

\* A ticket is shown as ended only once its graph waits for its terminal task
\* or is past it.
Late(g) == g.node \in {"final", "end"}

EndsLate(t) == t \notin branched /\ row[t].status = "closed" => Late(cp[t])

\* What a runner will show of its ticket: it is not early in showing it as ended,
\* and if it has the lease it is not behind the row either, for every save_run
\* since its claim would have taken the lease away.
Remembers(r) ==
    LET t == proc[r].ticket IN
    t \notin branched /\ proc[r].pc # "invoking" =>
      /\ proc[r].status = "closed" => Late(cp[t])
      /\ row[t].status = "closed" /\ row[t].lease = r =>
           proc[r].status = "closed"

SchedulerInv ==
    /\ TypeOK
    /\ \A r \in Busy : Holds(r) /\ Remembers(r)
    /\ \A t \in Tickets : EndsLate(t)

\* Where a resume may lead.
LEMMA OutcomesType ==
  ASSUME NEW g \in Graph, NEW resume \in Resumed,
         NEW o \in Outcomes(g, resume)
  PROVE  /\ o.graph \in Graph /\ o.status \in Status /\ o.wakeup \in Wakeup
         /\ Late(g) => o.status = "closed"
         /\ o.status = "closed" => Late(o.graph)
<1>0. \/ o \in {Final("agent"), Final("closed"),
               Outcome(Parked("approval"), "approval", "future")}
            /\ g.node = "agent"
      \/ o = Outcome([g EXCEPT !.again = TRUE, !.parked = TRUE], "agent", "null")
            /\ g.node = "agent"
      \/ o \in {Final("approval"), Final("closed")} /\ g.node = "approval"
      \/ o = Outcome([g EXCEPT !.node = "end", !.parked = FALSE], "closed", "null")
  BY Zenon DEF Outcomes
<1> USE DEF Outcome, Final, Parked, Graph, Status, Wakeup, Waits, Late
<1>1. CASE /\ o \in {Final("agent"), Final("closed"),
                     Outcome(Parked("approval"), "approval", "future")}
           /\ g.node = "agent"
  <2>1. CASE o = Final("agent")
    BY <1>1, <2>1
  <2>2. CASE o = Final("closed")
    BY <1>1, <2>2
  <2>3. CASE o = Outcome(Parked("approval"), "approval", "future")
    BY <1>1, <2>3
  <2> QED BY <1>1, <2>1, <2>2, <2>3
<1>2. CASE /\ o = Outcome([g EXCEPT !.again = TRUE, !.parked = TRUE], "agent",
                          "null")
           /\ g.node = "agent"
  BY <1>2
<1>3. CASE o \in {Final("approval"), Final("closed")} /\ g.node = "approval"
  <2>1. CASE o = Final("approval")
    BY <1>3, <2>1
  <2>2. CASE o = Final("closed")
    BY <1>3, <2>2
  <2> QED BY <1>3, <2>1, <2>2
<1>4. CASE o = Outcome([g EXCEPT !.node = "end", !.parked = FALSE], "closed",
                       "null")
  BY <1>4
<1> QED BY <1>0, <1>1, <1>2, <1>3, <1>4

\* Where ainvoke may lead from the checkpoint it has loaded.
LEMMA ResultsType ==
  ASSUME NEW r, proc[r].resume \in Resumed, NEW g \in Graph,
         NEW o \in Results(r, g)
  PROVE  /\ o.graph \in Graph /\ o.status \in Status /\ o.wakeup \in Wakeup
         /\ Late(g) => o.status = "closed"
         /\ o.status = "closed" => Late(o.graph)
<1>1. \/ g.node = "end" /\ o = Outcome(g, "closed", "null")
      \/ o \in Outcomes(g, proc[r].resume)
  BY Zenon DEF Results
<1>2. CASE g.node = "end" /\ o = Outcome(g, "closed", "null")
  BY <1>2 DEF Outcome, Status, Wakeup, Late
<1>3. CASE o \in Outcomes(g, proc[r].resume)
  BY <1>3, OutcomesType
<1> QED BY <1>1, <1>2, <1>3

-----------------------------------------------------------------------------
(* What a step leaves alone *)

\* A step that edits rows only keeps the invariant if it shows no ticket
\* differently, but for new ones, gives no lease, and takes none from a runner in
\* a ticket without putting that ticket behind.
LEMMA RowsOnly ==
  ASSUME SchedulerInv, TypeOK', UNCHANGED <<cp, proc, branched>>,
         \A t \in Tickets : \/ row'[t].status = row[t].status
                            \/ row[t].status = "absent" /\ row'[t].status = "agent",
         \A t \in Tickets : row'[t].lease \in Runners =>
                              row'[t].lease = row[t].lease,
         \A r \in Busy : behind'[proc[r].ticket] # "now" =>
                           row'[proc[r].ticket].lease = r
  PROVE  SchedulerInv'
<1>1. Busy' = Busy /\ Busy \subseteq Runners
  BY DEF Busy
<1>2. \A r \in Busy : Holds(r)'
  BY DEF SchedulerInv, Holds
<1>3. \A t \in Tickets : row'[t].status = "closed" => row[t].status = "closed"
  OBVIOUS
<1>4. \A r \in Busy : Remembers(r)'
  BY <1>1, <1>3 DEF SchedulerInv, Holds, Remembers, Late
<1>5. \A t \in Tickets : EndsLate(t)'
  BY <1>3 DEF SchedulerInv, EndsLate, Late
<1> QED BY <1>1, <1>2, <1>4, <1>5 DEF SchedulerInv

\* What must hold in the ticket t after a step of the runner r in it, for the
\* other runners there to be right still.
LEMMA OneTicket ==
  ASSUME SchedulerInv, TypeOK', NEW r \in Runners, NEW t \in Tickets,
         \A s \in Runners \ {r} : proc'[s] = proc[s],
         \A u \in Tickets \ {t} : /\ row'[u] = row[u] /\ cp'[u] = cp[u]
                                  /\ behind'[u] = behind[u],
         branched \subseteq branched',
         \A s \in Busy \ {r} : proc[s].ticket = t => behind'[t] = "now",
         row'[t].status # "absent",
         t \notin branched' /\ Late(cp[t]) => Late(cp'[t]),
         t \notin branched' /\ row'[t].status = "closed" => Late(cp'[t]),
         row'[t].lease \in Runners \ {r} => row'[t] = row[t],
         proc'[r].pc # "idle" =>
           /\ proc'[r].ticket = t
           /\ behind'[t] # "now" => row'[t].lease = r
           /\ Remembers(r)'
  PROVE  SchedulerInv'
<1>1. \A s \in Busy' : s = r \/ (s \in Busy \ {r} /\ proc'[s] = proc[s])
  BY DEF Busy
<1>2. \A u \in Tickets : EndsLate(u)'
  BY DEF SchedulerInv, EndsLate, Late
<1>3. ASSUME NEW s \in Busy' PROVE Holds(s)' /\ Remembers(s)'
  <2>1. CASE s = r
    BY <1>3, <2>1 DEF Busy, Holds
  <2>2. CASE s # r
    <3>1. s \in Busy \ {r} /\ proc'[s] = proc[s] /\ Holds(s) /\ Remembers(s)
      BY <1>1, <1>3, <2>2 DEF SchedulerInv
    <3>2. CASE proc[s].ticket = t
      <4>1. Holds(s)'
        BY <3>1, <3>2 DEF Holds
      <4>2. row'[t].lease = s => row'[t] = row[t]
        BY <3>1 DEF Busy
      <4>3. Remembers(s)'
        BY <3>1, <3>2, <4>2 DEF Remembers
      <4> QED BY <4>1, <4>3
    <3>3. CASE proc[s].ticket # t
      <4>1. proc[s].ticket \in Tickets \ {t}
        BY <3>1, <3>3 DEF Holds
      <4>2. /\ row'[proc[s].ticket] = row[proc[s].ticket]
            /\ cp'[proc[s].ticket] = cp[proc[s].ticket]
            /\ behind'[proc[s].ticket] = behind[proc[s].ticket]
        BY <4>1
      <4> QED BY <3>1, <4>1, <4>2 DEF Holds, Remembers, Late
    <3> QED BY <3>2, <3>3
  <2> QED BY <2>1, <2>2
<1> QED BY <1>2, <1>3 DEF SchedulerInv

\* What a step knows of its runner and its ticket.
LEMMA InTicket ==
  ASSUME SchedulerInv, NEW r \in Busy
  PROVE  /\ r \in Runners /\ proc[r] \in Proc
         /\ proc[r].ticket \in Tickets
         /\ row[proc[r].ticket] \in Row
         /\ cp[proc[r].ticket] \in Graph
         /\ row[proc[r].ticket].status # "absent"
         /\ behind[proc[r].ticket] # "now" => row[proc[r].ticket].lease = r
         /\ Remembers(r)
         /\ EndsLate(proc[r].ticket)
BY DEF SchedulerInv, TypeOK, Holds, Busy

\* Two runners in one ticket.
LEMMA Together ==
  ASSUME SchedulerInv, NEW r \in Busy, NEW s \in Busy \ {r},
         proc[s].ticket = proc[r].ticket
  PROVE  behind[proc[r].ticket] = "now"
BY DEF SchedulerInv, Holds

\* A runner that leaves its ticket takes it back into time only if it was the
\* last one there.
LEMMA LeaveStep ==
  ASSUME SchedulerInv, NEW r \in Busy, Leave(r)
  PROVE  /\ behind' \in [Tickets -> {"never", "now", "once"}]
         /\ \A u \in Tickets \ {proc[r].ticket} : behind'[u] = behind[u]
         /\ \A s \in Busy \ {r} : proc[s].ticket = proc[r].ticket =>
                                    behind'[proc[r].ticket] = "now"
<1>1. proc[r].ticket \in Tickets
  BY InTicket
<1>2. behind \in [Tickets -> {"never", "now", "once"}]
  BY DEF SchedulerInv, TypeOK
<1>3. ASSUME NEW s \in Busy \ {r}, proc[s].ticket = proc[r].ticket
      PROVE  behind'[proc[r].ticket] = "now"
  <2>1. Others(r) # {}
    BY <1>3 DEF Others, Busy
  <2>2. behind[proc[r].ticket] = "now"
    BY <1>3, Together
  <2> QED BY <2>1, <2>2 DEF Leave
<1> QED BY <1>1, <1>2, <1>3 DEF Leave

-----------------------------------------------------------------------------
(* The steps of a runner *)

\* A runner as claim_run and ainvoke leave it.
LEMMA RunnerType ==
  ASSUME NEW place \in {"idle", "claimed", "saving"}, NEW t \in Tickets \cup {0},
         NEW status \in Status, NEW wakeup \in Wakeup
  PROVE  Runner(place, t, status, wakeup) \in Proc
<1>1. Parked("agent") \in Graph
  BY DEF Parked, Graph, Waits
<1>2. t \in 0..N
  BY SchedulerAssumption DEF Tickets
<1> QED BY <1>1, <1>2 DEF Runner, Proc, Resumed

\* claim_run: the lease was free, so nobody is in the ticket, or it is behind.
LEMMA ClaimStep ==
  ASSUME SchedulerInv, NEW r \in Runners, Claim(r)
  PROVE  SchedulerInv'
<1>1. PICK t \in Tickets :
        /\ Claimable(t)
        /\ row' = [row EXCEPT ![t].lease = r]
        /\ proc' = [proc EXCEPT ![r] =
                      Runner("claimed", t, row[t].status, row[t].wakeup)]
  BY DEF Claim
<1>2. /\ row \in [Tickets -> Row] /\ proc \in [Runners -> Proc]
      /\ UNCHANGED <<cp, job, owed, faults, behind, branched>>
  BY DEF SchedulerInv, TypeOK, Claim, history
<1>3. /\ row[t].status \in Status /\ row[t].wakeup \in Wakeup
      /\ row[t].lease \notin Runners
      /\ row[t] \in Row
  <2>1. row[t] \in Row
    BY <1>2
  <2>2. row[t].lease \in {"nobody", "expired"} /\ row[t].status # "absent"
    BY <1>1 DEF Claimable, Nobody, Expired
  <2>3. row[t].lease \notin Runners
    BY <2>2, SchedulerAssumption
  <2>4. row[t].status \in Status \cup {"absent"} /\ row[t].wakeup \in Wakeup
    BY <2>1 DEF Row
  <2> QED BY <2>1, <2>2, <2>3, <2>4
<1>5. proc'[r] = Runner("claimed", t, row[t].status, row[t].wakeup)
  BY <1>1, <1>2
<1>6. proc'[r] \in Proc
  BY <1>3, <1>5, RunnerType DEF Status
<1>7. [row[t] EXCEPT !.lease = r] \in Row
  BY <1>3 DEF Row
<1>8. TypeOK'
  <2>1. row' \in [Tickets -> Row]
    BY <1>1, <1>2, <1>7
  <2>2. proc' \in [Runners -> Proc]
    BY <1>1, <1>2, <1>5, <1>6
  <2> QED BY <1>2, <2>1, <2>2 DEF SchedulerInv, TypeOK
<1>9. row'[t].status = row[t].status /\ row'[t].lease = r
  BY <1>1, <1>2, <1>3 DEF Row
<1>10. EndsLate(t)
  BY DEF SchedulerInv
<1>11. /\ t \notin branched' /\ row'[t].status = "closed" => Late(cp'[t])
       /\ Remembers(r)'
  BY <1>2, <1>5, <1>9, <1>10 DEF EndsLate, Remembers, Late, Runner
<1>12. \A s \in Busy \ {r} : proc[s].ticket = t => behind'[t] = "now"
  BY <1>2, <1>3 DEF SchedulerInv, Holds, Busy
<1>13. /\ \A s \in Runners \ {r} : proc'[s] = proc[s]
       /\ \A u \in Tickets \ {t} : row'[u] = row[u]
       /\ proc'[r].ticket = t
  BY <1>1, <1>2, <1>5 DEF Runner
<1> QED
  BY <1>2, <1>3, <1>8, <1>9, <1>11, <1>12, <1>13, OneTicket DEF Late, Status

\* The lookup: what is remembered of the ticket stays true.
LEMMA LookStep ==
  ASSUME SchedulerInv, NEW r \in Runners, Look(r)
  PROVE  SchedulerInv'
<1> DEFINE t == proc[r].ticket
<1>1. /\ r \in Busy /\ proc[r].pc = "claimed"
      /\ UNCHANGED <<row, cp, job, owed, faults, behind, branched>>
  BY DEF Look, Busy, history
<1>2. /\ proc[r] \in Proc /\ t \in Tickets
      /\ row[t].status # "absent"
      /\ behind[t] # "now" => row[t].lease = r
      /\ Remembers(r) /\ EndsLate(t)
      /\ cp[t] \in Graph
  BY <1>1, InTicket
<1>3. proc \in [Runners -> Proc]
  BY DEF SchedulerInv, TypeOK
<1>4. \/ proc' = [proc EXCEPT ![r].pc = "saving"]
      \/ \E resume \in Resumed :
           proc' = [proc EXCEPT ![r].pc = "invoking", ![r].resume = resume,
                                ![r].graph = cp[t]]
  <2>1. Lookups(r) \subseteq Resumed
    BY DEF Lookups, Resume, Resumed
  <2> QED BY <2>1 DEF Look
<1>5. /\ proc'[r] \in Proc
      /\ proc'[r].ticket = t
      /\ \/ proc'[r].pc = "saving" /\ proc'[r].status = proc[r].status
         \/ proc'[r].pc = "invoking"
  <2>1. CASE proc' = [proc EXCEPT ![r].pc = "saving"]
    BY <1>2, <1>3, <2>1 DEF Proc
  <2>2. ASSUME NEW resume \in Resumed,
               proc' = [proc EXCEPT ![r].pc = "invoking", ![r].resume = resume,
                                    ![r].graph = cp[t]]
        PROVE  proc'[r] \in Proc /\ proc'[r].ticket = t /\ proc'[r].pc = "invoking"
    BY <1>2, <1>3, <2>2 DEF Proc
  <2> QED BY <1>4, <2>1, <2>2
<1>6. \A s \in Runners \ {r} : proc'[s] = proc[s]
  BY <1>3, <1>4
<1>7. proc' \in [Runners -> Proc]
  BY <1>3, <1>4, <1>5, <1>6
<1>8. TypeOK'
  BY <1>1, <1>7 DEF SchedulerInv, TypeOK
<1>9. t \notin branched' /\ row'[t].status = "closed" => Late(cp'[t])
  BY <1>1, <1>2 DEF EndsLate, Late
<1>10. /\ \A s \in Busy \ {r} : proc[s].ticket = t => behind'[t] = "now"
       /\ Remembers(r)'
  BY <1>1, <1>2, <1>5, Together DEF Remembers, Late
<1>11. row' = row /\ cp' = cp /\ behind' = behind /\ branched' = branched
  BY <1>1
<1> HIDE DEF t
<1> QED BY <1>2, <1>5, <1>6, <1>8, <1>9, <1>10, <1>11, OneTicket DEF Late

\* What a runner's ainvoke may load.
LEMMA LoadedType ==
  ASSUME SchedulerInv, NEW r \in Busy, NEW g \in Loaded(r)
  PROVE  g \in Graph
BY InTicket DEF Loaded, Proc

\* ainvoke: from a graph that waits for its terminal task only its end, which
\* is saved as ended, can be reached.  A checkpoint that is not the newest makes
\* the thread a branched one.
LEMMA InvokeStep ==
  ASSUME SchedulerInv, NEW r \in Runners, Invoke(r)
  PROVE  SchedulerInv'
<1> DEFINE t == proc[r].ticket
<1>1. /\ r \in Busy /\ proc[r].pc = "invoking"
      /\ UNCHANGED <<row, owed, faults, behind>>
  BY DEF Invoke, Busy
<1>2. /\ proc[r] \in Proc /\ t \in Tickets
      /\ row[t].status # "absent"
      /\ behind[t] # "now" => row[t].lease = r
      /\ EndsLate(t)
  BY <1>1, InTicket
<1>3. PICK g \in Loaded(r) : \E o \in Results(r, g), resume \in Resumed :
        /\ cp' = [cp EXCEPT ![t] = o.graph]
        /\ job' = Enqueued(t, o.graph.node)
        /\ proc' = [proc EXCEPT ![r] =
                      [Runner("saving", t, o.status, o.wakeup) EXCEPT
                         !.resume = resume]]
        /\ Continue(t, g)
  <2>1. proc[r].resume \in Resumed /\ "none" \in Resumed
    BY <1>2 DEF Proc, Resumed
  <2> QED BY <2>1 DEF Invoke
<1>4. PICK o \in Results(r, g), resume \in Resumed :
        /\ cp' = [cp EXCEPT ![t] = o.graph]
        /\ job' = Enqueued(t, o.graph.node)
        /\ proc' = [proc EXCEPT ![r] =
                      [Runner("saving", t, o.status, o.wakeup) EXCEPT
                         !.resume = resume]]
        /\ Continue(t, g)
  BY <1>3
<1>5. /\ proc \in [Runners -> Proc] /\ cp \in [Tickets -> Graph]
      /\ job \in [Tickets -> [Waits -> Job]] /\ branched \subseteq Tickets
  BY DEF SchedulerInv, TypeOK
<1>6. /\ o.graph \in Graph /\ o.status \in Status /\ o.wakeup \in Wakeup
      /\ Late(g) => o.status = "closed"
      /\ o.status = "closed" => Late(o.graph)
  <2>1. g \in Graph /\ proc[r].resume \in Resumed
    BY <1>1, <1>2, LoadedType DEF Proc
  <2> QED BY <2>1, ResultsType
<1>7. /\ proc'[r] \in Proc /\ cp'[t] = o.graph
      /\ proc'[r].pc = "saving" /\ proc'[r].ticket = t
      /\ proc'[r].status = o.status
      /\ \A s \in Runners \ {r} : proc'[s] = proc[s]
      /\ \A u \in Tickets \ {t} : cp'[u] = cp[u]
  <2> DEFINE runner == Runner("saving", t, o.status, o.wakeup)
  <2>1. runner \in Proc
    BY <1>2, <1>6, RunnerType
  <2>2. runner.pc = "saving" /\ runner.ticket = t /\ runner.status = o.status
    BY DEF Runner
  <2> HIDE DEF runner
  <2>3. /\ [runner EXCEPT !.resume = resume] \in Proc
        /\ [runner EXCEPT !.resume = resume].pc = "saving"
        /\ [runner EXCEPT !.resume = resume].ticket = t
        /\ [runner EXCEPT !.resume = resume].status = o.status
    BY <2>1, <2>2 DEF Proc
  <2>4. proc' = [proc EXCEPT ![r] = [runner EXCEPT !.resume = resume]]
    BY <1>4 DEF runner
  <2> QED BY <1>2, <1>4, <1>5, <2>3, <2>4
<1>8. /\ branched' \subseteq Tickets /\ branched \subseteq branched'
      /\ t \notin branched' => g = cp[t]
  BY <1>2, <1>4, <1>5 DEF Continue
<1>9. TypeOK'
  <2>1. proc' \in [Runners -> Proc] /\ cp' \in [Tickets -> Graph]
    BY <1>4, <1>5, <1>6, <1>7
  <2>2. job' \in [Tickets -> [Waits -> Job]]
    BY <1>2, <1>4, <1>5 DEF Enqueued, Waits, Job
  <2> QED BY <1>1, <1>8, <2>1, <2>2 DEF SchedulerInv, TypeOK
<1>10. t \notin branched' /\ Late(cp[t]) => o.status = "closed" /\ Late(cp'[t])
  BY <1>6, <1>7, <1>8 DEF Late
<1>11. t \notin branched' /\ row'[t].status = "closed" => Late(cp'[t])
  BY <1>1, <1>2, <1>8, <1>10 DEF EndsLate, Late
<1>12. Remembers(r)'
  BY <1>1, <1>2, <1>6, <1>7, <1>8, <1>10 DEF EndsLate, Remembers, Late
<1>13. \A s \in Busy \ {r} : proc[s].ticket = t => behind'[t] = "now"
  BY <1>1, Together
<1>14. row' = row /\ behind' = behind
  BY <1>1
<1> HIDE DEF t
<1> QED BY <1>2, <1>7, <1>8, <1>9, <1>10, <1>11, <1>12, <1>13, <1>14, OneTicket
           DEF Late

\* save_run shows what is remembered, and the runner leaves the ticket.  It
\* takes the lease of whoever else is there, who will be late then.
LEMMA SaveStep ==
  ASSUME SchedulerInv, NEW r \in Runners, Save(r)
  PROVE  SchedulerInv'
<1> DEFINE t == proc[r].ticket
<1>1. /\ r \in Busy /\ proc[r].pc = "saving" /\ Leave(r)
      /\ UNCHANGED <<cp, owed, faults, branched>>
  BY DEF Save, Busy
<1>2. proc[r] \in Proc /\ t \in Tickets /\ Remembers(r)
  BY <1>1, InTicket
<1>3. /\ row' = [row EXCEPT ![t] = [status |-> proc[r].status,
                                    wakeup |-> proc[r].wakeup,
                                    lease |-> Nobody]]
      /\ proc' = [proc EXCEPT ![r] = IdleRunner]
      /\ job' = Consumed(r)
  BY DEF Save
<1>4. /\ proc \in [Runners -> Proc] /\ row \in [Tickets -> Row]
      /\ job \in [Tickets -> [Waits -> Job]]
  BY DEF SchedulerInv, TypeOK
<1>5. IdleRunner \in Proc /\ IdleRunner.pc = "idle"
  BY RunnerType DEF IdleRunner, Runner, Status, Wakeup
<1>6. [status |-> proc[r].status, wakeup |-> proc[r].wakeup, lease |-> Nobody]
        \in Row
  BY <1>2 DEF Proc, Row
<1>7. /\ proc'[r].pc = "idle"
      /\ \A s \in Runners \ {r} : proc'[s] = proc[s]
      /\ \A u \in Tickets \ {t} : row'[u] = row[u]
      /\ row'[t].status = proc[r].status
      /\ row'[t].lease = Nobody
  BY <1>2, <1>3, <1>4, <1>5
<1>8. TypeOK'
  <2>1. proc' \in [Runners -> Proc] /\ row' \in [Tickets -> Row]
    BY <1>2, <1>3, <1>4, <1>5, <1>6
  <2>2. job' \in [Tickets -> [Waits -> Job]]
    BY <1>2, <1>3, <1>4 DEF Consumed, Waits, Job
  <2>3. behind' \in [Tickets -> {"never", "now", "once"}]
    BY <1>1, LeaveStep
  <2> QED BY <1>1, <2>1, <2>2, <2>3 DEF SchedulerInv, TypeOK
<1>9. t \notin branched' /\ row'[t].status = "closed" => Late(cp'[t])
  BY <1>1, <1>2, <1>7 DEF Remembers, Late
<1>10. row'[t].status # "absent" /\ row'[t].lease \notin Runners
  BY <1>2, <1>7, SchedulerAssumption DEF Proc, Status, Nobody
<1>11. /\ \A u \in Tickets \ {t} : behind'[u] = behind[u]
       /\ \A s \in Busy \ {r} : proc[s].ticket = t => behind'[t] = "now"
  BY <1>1, LeaveStep
<1>12. cp' = cp /\ branched' = branched
  BY <1>1
<1> HIDE DEF t
<1> QED BY <1>2, <1>7, <1>8, <1>9, <1>10, <1>11, <1>12, OneTicket DEF Late

\* A runner that ends or dies leaves the row as it is, and a checkpoint that is
\* at the node of the one it had loaded.
LEMMA EndStep ==
  ASSUME SchedulerInv, NEW r \in Runners, Raise(r) \/ Crash(r)
  PROVE  SchedulerInv'
<1> DEFINE t == proc[r].ticket
<1>1. /\ r \in Busy /\ Leave(r) /\ UNCHANGED <<row, job, owed>>
      /\ proc' = [proc EXCEPT ![r] = IdleRunner]
      /\ faults' \in 0..MaxFaults
  <2>1. faults \in 0..MaxFaults
    BY DEF SchedulerInv, TypeOK
  <2>2. CASE Raise(r)
    BY <2>1, <2>2 DEF Raise, Busy
  <2>3. CASE Crash(r)
    <3>1. faults' \in 0..MaxFaults
      BY <2>1, <2>3, SchedulerAssumption DEF Crash
    <3> QED BY <2>3, <3>1 DEF Crash, Busy
  <2> QED BY <2>2, <2>3
<1>2. proc[r] \in Proc /\ t \in Tickets /\ row[t].status # "absent" /\ EndsLate(t)
  BY <1>1, InTicket
<1>3. /\ proc \in [Runners -> Proc] /\ cp \in [Tickets -> Graph]
      /\ branched \subseteq Tickets
  BY DEF SchedulerInv, TypeOK
<1>4. IdleRunner \in Proc /\ IdleRunner.pc = "idle"
  BY RunnerType DEF IdleRunner, Runner, Status, Wakeup
<1>5. \/ UNCHANGED <<cp, branched>>
      \/ \E g \in Loaded(r) : /\ cp' = [cp EXCEPT ![t] = [g EXCEPT !.parked = FALSE]]
                              /\ Continue(t, g)
  <2>1. CASE Raise(r)
    BY <2>1 DEF Raise
  <2>2. CASE Crash(r)
    BY <2>2 DEF Crash
  <2> QED BY <2>1, <2>2
<1>6. /\ cp' \in [Tickets -> Graph]
      /\ branched' \subseteq Tickets /\ branched \subseteq branched'
      /\ \A u \in Tickets \ {t} : cp'[u] = cp[u]
      /\ t \notin branched' => cp'[t].node = cp[t].node
  <2>1. CASE UNCHANGED <<cp, branched>>
    BY <1>3, <2>1
  <2>2. ASSUME NEW g \in Loaded(r),
               cp' = [cp EXCEPT ![t] = [g EXCEPT !.parked = FALSE]],
               Continue(t, g)
        PROVE  /\ cp' \in [Tickets -> Graph]
               /\ branched' \subseteq Tickets /\ branched \subseteq branched'
               /\ \A u \in Tickets \ {t} : cp'[u] = cp[u]
               /\ t \notin branched' => cp'[t].node = cp[t].node
    <3>1. g \in Graph
      BY <1>1, LoadedType
    <3>2. /\ [g EXCEPT !.parked = FALSE] \in Graph
          /\ [g EXCEPT !.parked = FALSE].node = g.node
      BY <3>1 DEF Graph
    <3>3. /\ branched' \subseteq Tickets /\ branched \subseteq branched'
          /\ t \notin branched' => g = cp[t]
      BY <1>2, <1>3, <2>2 DEF Continue
    <3> QED BY <1>2, <1>3, <2>2, <3>2, <3>3
  <2> QED BY <1>5, <2>1, <2>2
<1>7. /\ proc'[r].pc = "idle"
      /\ \A s \in Runners \ {r} : proc'[s] = proc[s]
  BY <1>1, <1>3, <1>4
<1>8. TypeOK'
  <2>1. proc' \in [Runners -> Proc]
    BY <1>1, <1>3, <1>4
  <2>2. behind' \in [Tickets -> {"never", "now", "once"}]
    BY <1>1, LeaveStep
  <2> QED BY <1>1, <1>6, <2>1, <2>2 DEF SchedulerInv, TypeOK
<1>9. /\ t \notin branched' /\ Late(cp[t]) => Late(cp'[t])
      /\ t \notin branched' /\ row'[t].status = "closed" => Late(cp'[t])
  BY <1>1, <1>2, <1>6 DEF EndsLate, Late
<1>10. /\ \A u \in Tickets \ {t} : behind'[u] = behind[u]
       /\ \A s \in Busy \ {r} : proc[s].ticket = t => behind'[t] = "now"
  BY <1>1, LeaveStep
<1>11. row' = row
  BY <1>1
<1> HIDE DEF t
<1> QED BY <1>2, <1>6, <1>7, <1>8, <1>9, <1>10, <1>11, OneTicket

-----------------------------------------------------------------------------
(* The steps of everybody else *)

\* A lease that a runner in a ticket had is taken away by the clock only, and
\* that ticket is behind then.
LEMMA ExpiryStep ==
  ASSUME SchedulerInv, NEW t \in Tickets, LeaseExpires(t)
  PROVE  SchedulerInv'
<1>1. /\ row \in [Tickets -> Row] /\ behind \in [Tickets -> {"never", "now", "once"}]
      /\ row' = [row EXCEPT ![t].lease = Expired]
      /\ UNCHANGED <<cp, job, owed, proc, branched>>
  BY DEF SchedulerInv, TypeOK, LeaseExpires
<1>2. \/ ~Working(t) /\ UNCHANGED <<faults, behind>>
      \/ /\ faults < MaxFaults /\ faults' = faults + 1
         /\ behind' = [behind EXCEPT ![t] = "now"]
  BY DEF LeaseExpires
<1>3. /\ row' \in [Tickets -> Row]
      /\ row'[t].status = row[t].status /\ row'[t].lease = Expired
      /\ \A u \in Tickets \ {t} : row'[u] = row[u] /\ behind'[u] = behind[u]
  <2>1. [row[t] EXCEPT !.lease = Expired] \in Row
    BY <1>1 DEF Row
  <2> QED BY <1>1, <1>2, <2>1 DEF Row
<1>4. TypeOK'
  <2>1. faults' \in 0..MaxFaults
    BY <1>2, SchedulerAssumption DEF SchedulerInv, TypeOK
  <2>2. behind' \in [Tickets -> {"never", "now", "once"}]
    BY <1>1, <1>2
  <2> QED BY <1>1, <1>3, <2>1, <2>2 DEF SchedulerInv, TypeOK
<1>5. Expired \notin Runners
  BY SchedulerAssumption DEF Expired
<1>6. ASSUME NEW r \in Busy, behind'[proc[r].ticket] # "now"
      PROVE  row'[proc[r].ticket].lease = r
  <2>1. proc[r].ticket \in Tickets /\ r \in Runners /\ proc[r].pc # "idle"
    BY InTicket DEF Busy
  <2>2. proc[r].ticket # t
    <3>1. SUFFICES ASSUME proc[r].ticket = t PROVE FALSE
      OBVIOUS
    <3>2. ~Working(t) /\ behind' = behind
      BY <1>1, <1>2, <1>6, <3>1
    <3>3. row[t].lease = r
      BY <1>6, <3>1, <3>2, InTicket
    <3> QED BY <2>1, <3>1, <3>2, <3>3 DEF Working, Held
  <2>3. /\ row'[proc[r].ticket] = row[proc[r].ticket]
        /\ behind'[proc[r].ticket] = behind[proc[r].ticket]
    BY <1>3, <2>1, <2>2
  <2> QED BY <1>6, <2>3, InTicket
<1> QED BY <1>1, <1>3, <1>4, <1>5, <1>6, RowsOnly

\* reclaim_expired_runs finds leases that no runner has any more.
LEMMA ReclaimStep ==
  ASSUME SchedulerInv, Reclaim
  PROVE  SchedulerInv'
<1>1. /\ row \in [Tickets -> Row]
      /\ UNCHANGED <<cp, job, owed, proc, faults, behind, branched>>
      /\ row' = [t \in Tickets |-> IF row[t].lease = Expired
                                     THEN [row[t] EXCEPT !.lease = Nobody]
                                     ELSE row[t]]
  BY DEF SchedulerInv, TypeOK, Reclaim, history
<1>2. \A u \in Tickets :
        /\ row'[u].status = row[u].status
        /\ row'[u] \in Row
        /\ row'[u].lease = IF row[u].lease = Expired THEN Nobody
                                                     ELSE row[u].lease
  BY <1>1 DEF Row
<1>3. TypeOK'
  <2>1. row' \in [Tickets -> Row]
    BY <1>1, <1>2
  <2> QED BY <1>1, <2>1 DEF SchedulerInv, TypeOK
<1>4. Expired \notin Runners /\ Nobody \notin Runners
  BY SchedulerAssumption DEF Expired, Nobody
<1>5. ASSUME NEW r \in Busy, behind'[proc[r].ticket] # "now"
      PROVE  row'[proc[r].ticket].lease = r
  BY <1>1, <1>2, <1>4, <1>5, InTicket
<1> QED BY <1>1, <1>2, <1>3, <1>4, <1>5, RowsOnly

\* The API, the workers and the clock write timestamps, and new rows.
LEMMA OtherSteps ==
  ASSUME SchedulerInv, NEW t \in Tickets,
         \/ CreateTicket(t) \/ SubmitApproval(t) \/ TimerFires(t)
         \/ \E w \in Waits : Settle(t, w) \/ WakeRun(t, w)
  PROVE  SchedulerInv'
<1>1. /\ row \in [Tickets -> Row] /\ UNCHANGED <<cp, proc, behind, branched>>
      /\ job \in [Tickets -> [Waits -> Job]]
      /\ owed \subseteq Tickets \X Waits
  BY DEF SchedulerInv, TypeOK, CreateTicket, SubmitApproval, TimerFires, Settle,
         WakeRun, history
<1>2. \/ row' = row
      \/ row' = [row EXCEPT ![t].wakeup = "due"]
      \/ /\ row[t] = NoRow
         /\ row' = [row EXCEPT ![t] = [status |-> "agent", wakeup |-> "future",
                                       lease |-> Nobody]]
  BY DEF CreateTicket, SubmitApproval, TimerFires, Settle, WakeRun
<1>3. /\ row' \in [Tickets -> Row]
      /\ \A u \in Tickets \ {t} : row'[u] = row[u]
      /\ \/ row'[t].status = row[t].status /\ row'[t].lease = row[t].lease
         \/ /\ row[t].status = "absent" /\ row'[t].status = "agent"
            /\ row'[t].lease = Nobody
  <2>1. CASE row' = row
    BY <1>1, <2>1
  <2>2. CASE row' = [row EXCEPT ![t].wakeup = "due"]
    <3>1. [row[t] EXCEPT !.wakeup = "due"] \in Row
      BY <1>1 DEF Row, Wakeup
    <3> QED BY <1>1, <2>2, <3>1 DEF Row
  <2>3. CASE /\ row[t] = NoRow
             /\ row' = [row EXCEPT ![t] = [status |-> "agent",
                                           wakeup |-> "future", lease |-> Nobody]]
    <3>1. [status |-> "agent", wakeup |-> "future", lease |-> Nobody] \in Row
      BY DEF Row, Status, Wakeup
    <3> QED BY <1>1, <2>3, <3>1 DEF NoRow
  <2> QED BY <1>2, <2>1, <2>2, <2>3
<1>4. /\ job' \in [Tickets -> [Waits -> Job]]
      /\ owed' \subseteq Tickets \X Waits
  <2>1. ASSUME NEW w \in Waits, NEW x \in Job, job' = [job EXCEPT ![t][w] = x]
        PROVE  job' \in [Tickets -> [Waits -> Job]]
    <3>1. [job[t] EXCEPT ![w] = x] \in [Waits -> Job]
      BY <1>1, <2>1
    <3>2. job' = [job EXCEPT ![t] = [job[t] EXCEPT ![w] = x]]
      BY <1>1, <2>1
    <3> QED BY <1>1, <3>1, <3>2
  <2>2. \/ job' = job
        \/ \E w \in Waits, x \in Job : job' = [job EXCEPT ![t][w] = x]
    <3>1. CASE CreateTicket(t)
      <4>1. job' = [job EXCEPT ![t]["agent"] = "open"]
        BY <3>1 DEF CreateTicket
      <4> QED BY <4>1 DEF Waits, Job
    <3>2. CASE SubmitApproval(t)
      <4>1. job' = [job EXCEPT ![t]["approval"] = "done"]
        BY <3>2 DEF SubmitApproval
      <4> QED BY <4>1 DEF Waits, Job
    <3>3. CASE TimerFires(t)
      BY <3>3 DEF TimerFires
    <3>4. ASSUME NEW w \in Waits, Settle(t, w)
          PROVE  \/ job' = [job EXCEPT ![t][w] = "done"]
                 \/ job' = [job EXCEPT ![t][w] = "failed"]
      BY <3>4, Zenon DEF Settle
    <3>5. ASSUME NEW w \in Waits, WakeRun(t, w) PROVE job' = job
      BY <3>5 DEF WakeRun
    <3> QED BY <3>1, <3>2, <3>3, <3>4, <3>5 DEF Job
  <2>3. \/ owed' = owed
        \/ \E w \in Waits : \/ owed' = owed \cup {<<t, w>>}
                            \/ owed' = owed \ {<<t, w>>}
    BY DEF CreateTicket, SubmitApproval, TimerFires, Settle, WakeRun
  <2>4. owed' \subseteq Tickets \X Waits
    BY <1>1, <2>3
  <2> QED BY <1>1, <2>1, <2>2, <2>4
<1>5. TypeOK'
  <2>1. faults' = faults \/ (faults < MaxFaults /\ faults' = faults + 1)
    <3>1. ASSUME NEW w \in Waits, Settle(t, w)
          PROVE  faults' = faults \/ (faults < MaxFaults /\ faults' = faults + 1)
      BY <3>1, Zenon DEF Settle
    <3>2. \/ faults' = faults
          \/ \E w \in Waits : Settle(t, w)
      BY DEF CreateTicket, SubmitApproval, TimerFires, WakeRun
    <3> QED BY <3>1, <3>2
  <2>2. faults' \in 0..MaxFaults
    BY <2>1, SchedulerAssumption DEF SchedulerInv, TypeOK
  <2> QED BY <1>1, <1>3, <1>4, <2>2 DEF SchedulerInv, TypeOK
<1>6. ASSUME NEW r \in Busy, behind'[proc[r].ticket] # "now"
      PROVE  row'[proc[r].ticket].lease = r
  BY <1>1, <1>3, <1>6, InTicket
<1>7. Nobody \notin Runners
  BY SchedulerAssumption DEF Nobody
<1> QED BY <1>1, <1>3, <1>5, <1>6, <1>7, RowsOnly

-----------------------------------------------------------------------------
(* The theorems *)

\* The invariant holds in every state.
LEMMA Invariance == Spec => []SchedulerInv
<1>1. Init => SchedulerInv
  <2> SUFFICES ASSUME Init PROVE SchedulerInv
    OBVIOUS
  <2>1. /\ NoRow \in Row /\ Parked("agent") \in Graph /\ IdleRunner \in Proc
        /\ NoRow.status = "absent" /\ IdleRunner.pc = "idle"
    BY RunnerType DEF NoRow, Row, Status, Wakeup, Parked, Graph, Waits,
                      IdleRunner, Runner
  <2>2. TypeOK
    <3>1. 0 \in 0..MaxFaults
      BY SchedulerAssumption
    <3> QED BY <2>1, <3>1 DEF Init, TypeOK, Job
  <2>3. Busy = {} /\ \A t \in Tickets : row[t].status # "closed"
    BY <2>1 DEF Init, Busy
  <2> QED BY <2>2, <2>3 DEF SchedulerInv, EndsLate
<1>2. SchedulerInv /\ [Next]_vars => SchedulerInv'
  <2> SUFFICES ASSUME SchedulerInv, [Next]_vars PROVE SchedulerInv'
    OBVIOUS
  <2>1. CASE UNCHANGED vars
    <3>1. TypeOK'
      BY <2>1 DEF vars, history, SchedulerInv, TypeOK
    <3>2. \A r \in Busy' : Holds(r)' /\ Remembers(r)'
      BY <2>1 DEF vars, history, SchedulerInv, Holds, Remembers, Late, Busy
    <3>3. \A t \in Tickets : EndsLate(t)'
      BY <2>1 DEF vars, history, SchedulerInv, EndsLate, Late
    <3> QED BY <3>1, <3>2, <3>3 DEF SchedulerInv
  <2>2. CASE Next
    BY <2>2, ClaimStep, LookStep, InvokeStep, SaveStep, EndStep, ExpiryStep,
       ReclaimStep, OtherSteps DEF Next, Step
  <2> QED BY <2>1, <2>2
<1> QED BY <1>1, <1>2, PTL DEF Spec

\* Every reachable state is typed.
THEOREM TypesKept == Spec => []TypeOK
<1>1. SchedulerInv => TypeOK
  BY DEF SchedulerInv
<1> QED BY <1>1, Invariance, PTL

\* claim_run, save_run and reclaim_expired_runs keep runners out of each other's
\* tickets.  Once a runner has outlived its lease they do not, until everybody has
\* left that ticket.
THEOREM RunnersApart == Spec => []OneRunnerPerTicket
<1>1. SchedulerInv => OneRunnerPerTicket
  BY Together DEF OneRunnerPerTicket
<1> QED BY <1>1, Invariance, PTL

\* A ticket that is shown as ended and is claimed, looked up, resumed or released
\* again in time stays so, whatever late save_runs, deaths and reclaims there are:
\* only a late save_run shows it as open again.
THEOREM OnlyLateSavesReopen == Spec => HoldersKeepEnded
<1> DEFINE Kept ==
      \A t \in Tickets :
        row[t].status = "closed" /\ row'[t].status # "closed"
          => LateSave(t) \/ t \in branched'
<1>1. SchedulerInv /\ [Next]_vars => [Kept]_vars
  <2> SUFFICES ASSUME SchedulerInv, Next, NEW t \in Tickets,
                      row[t].status = "closed", ~LateSave(t), t \notin branched'
               PROVE  row'[t].status = "closed"
    BY DEF Kept
  <2>1. row \in [Tickets -> Row]
    BY DEF SchedulerInv, TypeOK
  <2>2. ASSUME NEW r \in Runners, Save(r) PROVE row'[t].status = "closed"
    <3>1. r \in Busy /\ proc[r].pc = "saving" /\ branched' = branched
      BY <2>2 DEF Save, Busy
    <3>2. CASE proc[r].ticket = t
      <4>1. row[t].lease = r
        BY <3>1, <3>2 DEF LateSave
      <4>2. proc[r].status = "closed"
        BY <3>1, <3>2, <4>1, InTicket DEF Remembers
      <4> QED BY <2>1, <2>2, <3>2, <4>2 DEF Save
    <3>3. CASE proc[r].ticket # t
      BY <2>1, <2>2, <3>3 DEF Save
    <3> QED BY <3>2, <3>3
  <2>3. ASSUME NEW r \in Runners,
               Claim(r) \/ Look(r) \/ Invoke(r) \/ Raise(r) \/ Crash(r)
        PROVE  row'[t].status = "closed"
    <3>1. \/ row' = row
          \/ \E u \in Tickets : row' = [row EXCEPT ![u].lease = r]
      BY <2>3 DEF Claim, Look, Invoke, Raise, Crash
    <3> QED BY <2>1, <3>1 DEF Row
  <2>4. CASE Reclaim
    BY <2>1, <2>4 DEF Reclaim, Row
  <2>5. ASSUME NEW u \in Tickets,
               \/ LeaseExpires(u) \/ CreateTicket(u) \/ SubmitApproval(u)
               \/ TimerFires(u)
               \/ \E w \in Waits : Settle(u, w) \/ WakeRun(u, w)
        PROVE  row'[t].status = "closed"
    <3>1. \/ row' = row
          \/ row' = [row EXCEPT ![u].wakeup = "due"]
          \/ row' = [row EXCEPT ![u].lease = Expired]
          \/ row[u] = NoRow /\ \E x : row' = [row EXCEPT ![u] = x]
      BY <2>5 DEF LeaseExpires, CreateTicket, SubmitApproval, TimerFires, Settle,
                  WakeRun
    <3>2. NoRow.status # "closed"
      BY DEF NoRow
    <3> QED BY <2>1, <3>1, <3>2 DEF Row
  <2> QED BY <2>2, <2>3, <2>4, <2>5 DEF Next, Step
<1> QED BY <1>1, Invariance, PTL DEF Spec, HoldersKeepEnded
=============================================================================

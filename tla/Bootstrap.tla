------------------------------ MODULE Bootstrap ------------------------------
(***************************************************************************)
(* db.bootstrap: every process of the system migrates the schema when it   *)
(* starts, in one transaction, several of them at once and not all with    *)
(* the same code (db.py).  A process that fails or dies is started again,  *)
(* perhaps with another version of the code.                               *)
(*                                                                         *)
(* Postgres is modelled by what the statements rely on: transactions are   *)
(* atomic, a statement reads what was committed before it, an advisory     *)
(* lock is held until its transaction ends, and a CREATE TABLE IF NOT      *)
(* EXISTS that has found no table waits for another transaction that is    *)
(* creating it, and fails when that one commits.                           *)
(***************************************************************************)
EXTENDS Naturals, FiniteSets

CONSTANTS Procs,      \* processes that start
          Newest,     \* migrations of the newest code; older code has fewer
          MaxCrashes  \* bound: processes that die

ASSUME BootstrapAssumption == Newest \in Nat \ {0} /\ MaxCrashes \in Nat

VARIABLES table,     \* schema_migrations exists
          markers,   \* its committed rows
          changed,   \* [Migrations -> how often its DDL has been committed]
          pc,        \* [Procs -> the statement a process is at]
          code,      \* [Procs -> how many migrations its code has]
          created,   \* processes whose transaction has created the table
          applied,   \* [Procs -> applied_versions, as read]
          todo,      \* [Procs -> the migration the loop is at]
          done,      \* [Procs -> migrations its transaction has applied]
          crashes    \* how many processes have died

Database == <<table, markers, changed>>
Local == <<code, applied, todo>>
vars == <<Database, pc, Local, created, done, crashes>>

Migrations == 1..Newest
Known(p) == 1..code[p]
Holding == {"reading", "applying"}

Init ==
    /\ table = FALSE
    /\ markers = {}
    /\ changed = [m \in Migrations |-> 0]
    /\ pc = [p \in Procs |-> "down"]
    /\ code \in [Procs -> Migrations]
    /\ created = {}
    /\ applied = [p \in Procs |-> {}]
    /\ todo = [p \in Procs |-> 1]
    /\ done = [p \in Procs |-> {}]
    /\ crashes = 0

At(p, place) == pc' = [pc EXCEPT ![p] = place]

\* The process starts, with this version of the code or another one.
Start(p) ==
    /\ pc[p] = "down"
    /\ \E c \in Migrations : code' = [code EXCEPT ![p] = c]
    /\ At(p, "creating")
    /\ UNCHANGED <<Database, applied, todo, created, done, crashes>>

\* CREATE TABLE IF NOT EXISTS schema_migrations, if the table is there.
TableExists(p) ==
    /\ pc[p] = "creating"
    /\ table
    /\ At(p, "locking")
    /\ UNCHANGED <<Database, Local, created, done, crashes>>

\* It is not there: create it, or wait for whoever is creating it.
CreateTable(p) ==
    /\ \/ pc[p] = "creating"
       \/ pc[p] = "blocked"
    /\ ~table
    /\ IF created = {}
         THEN created' = {p} /\ At(p, "locking")
         ELSE At(p, "blocked") /\ UNCHANGED created
    /\ UNCHANGED <<Database, Local, done, crashes>>

\* The transaction ends without a commit.
Rollback(p) ==
    /\ At(p, "down")
    /\ created' = created \ {p}
    /\ done' = [done EXCEPT ![p] = {}]
    /\ UNCHANGED <<Database, Local>>

\* The other one has committed: a duplicate key in the catalog.
DuplicateTable(p) ==
    /\ pc[p] = "blocked"
    /\ table
    /\ Rollback(p)
    /\ UNCHANGED crashes

\* Mutants: the lock excludes nobody; the lock is the session's and outlives
\* the transaction.
LockIgnored == TRUE
LockOfSession == \A p \in Procs : pc[p] \notin Holding \cup {"up"}

LockFree == \A p \in Procs : pc[p] \notin Holding

\* pg_advisory_xact_lock.
Lock(p) ==
    /\ pc[p] = "locking"
    /\ LockFree
    /\ At(p, "reading")
    /\ UNCHANGED <<Database, Local, created, done, crashes>>

\* Mutant: newer migrations are not noticed.
NothingUnknown(p) == {}

Unknown(p) == markers \ Known(p)

\* Read the markers; code that does not know all of them raises.
Read(p) ==
    /\ pc[p] = "reading"
    /\ Unknown(p) = {}
    /\ applied' = [applied EXCEPT ![p] = markers]
    /\ todo' = [todo EXCEPT ![p] = 1]
    /\ At(p, "applying")
    /\ UNCHANGED <<Database, code, created, done, crashes>>

ReadRaises(p) ==
    /\ pc[p] = "reading"
    /\ Unknown(p) # {}
    /\ Rollback(p)
    /\ UNCHANGED crashes

\* Mutant: the newest marker's own migration is applied again.
MissingFromLast(p, m) == \A a \in applied[p] : a <= m

\* A migration without a marker.
Missing(p, m) == m \notin applied[p]

\* Mutant: one round too many.
OneTooMany(p) == todo[p] <= code[p] + 1

InList(p) == todo[p] <= code[p]

\* One round of the loop: the DDL and the marker, or nothing.
Apply(p) ==
    /\ pc[p] = "applying"
    /\ InList(p)
    /\ done' = IF Missing(p, todo[p])
                 THEN [done EXCEPT ![p] = @ \cup {todo[p]}] ELSE done
    /\ todo' = [todo EXCEPT ![p] = @ + 1]
    /\ UNCHANGED <<Database, pc, code, applied, created, crashes>>

\* Mutant: the last migration is skipped.
LoopNotEnded(p) == todo[p] >= code[p]

LoopEnded(p) == todo[p] > code[p]

\* COMMIT: the table, the DDL and the markers together, and the lock is free.
Commit(p) ==
    /\ pc[p] = "applying"
    /\ LoopEnded(p)
    /\ table' = TRUE
    /\ markers' = markers \cup done[p]
    /\ changed' = [m \in Migrations |-> IF m \in done[p] THEN changed[m] + 1
                                                       ELSE changed[m]]
    /\ created' = created \ {p}
    /\ done' = [done EXCEPT ![p] = {}]
    /\ At(p, "up")
    /\ UNCHANGED <<Local, crashes>>

\* The process dies: before, in or after bootstrap.
Crash(p) ==
    /\ pc[p] # "down"
    /\ crashes < MaxCrashes
    /\ Rollback(p)
    /\ crashes' = crashes + 1

Step(p) ==
    \/ TableExists(p) \/ CreateTable(p) \/ DuplicateTable(p)
    \/ Read(p) \/ ReadRaises(p) \/ Apply(p) \/ Commit(p)

Next == \E p \in Procs : Start(p) \/ Step(p) \/ Lock(p) \/ Crash(p)

Spec == Init /\ [][Next]_vars

\* Processes run and are started again; waiters of a lock get it in turn.
Fairness ==
    \A p \in Procs : /\ WF_vars(Start(p))
                     /\ WF_vars(Step(p))
                     /\ SF_vars(Lock(p))

FairSpec == Spec /\ Fairness

-----------------------------------------------------------------------------
(* Properties *)

\* Types of the state.
TypeOK ==
    /\ table \in BOOLEAN
    /\ markers \subseteq Migrations
    /\ changed \in [Migrations -> Nat]
    /\ pc \in [Procs -> {"down", "creating", "blocked", "locking", "reading",
                         "applying", "up"}]
    /\ code \in [Procs -> Migrations]
    /\ created \subseteq Procs
    /\ applied \in [Procs -> SUBSET Migrations]
    /\ todo \in [Procs -> 1..(Newest + 1)]
    /\ done \in [Procs -> SUBSET Migrations]
    /\ crashes \in 0..MaxCrashes

\* However many processes start at once, and however often one dies on the way,
\* a migration's DDL takes effect once, and exactly when its marker does.
AppliedOnce ==
    \A m \in Migrations : changed[m] = IF m \in markers THEN 1 ELSE 0

\* A process that gets past bootstrap starts on the schema its code was written
\* for, no less and no more, whatever others committed while it waited and read:
\* so migrations take effect in order and without gaps.
SchemaAsWritten ==
    [][\A p \in Procs :
          pc[p] # "up" /\ pc'[p] = "up" => markers' = Known(p)]_vars

\* Whoever loses the race for the empty database, waits for the lock or finds a
\* newer schema: as long as it is started again, no process stays out of service
\* for ever with code that knows every migration of the database.
Starts == \A p \in Procs : []<>(pc[p] = "up" \/ Unknown(p) # {})

=============================================================================

-------------------------- MODULE BootstrapProofs --------------------------
(***************************************************************************)
(* Theorems about Bootstrap, for every set of processes, every number of   *)
(* migrations and any number of deaths.                                    *)
(***************************************************************************)
EXTENDS Bootstrap, TLAPS

\* The advisory lock excludes: at most one process is between it and COMMIT.
Mutex ==
    \A p, q \in Procs : pc[p] \in Holding /\ pc[q] \in Holding => p = q

\* What the transaction under the lock has read is still so, and it has applied
\* what was missing among the migrations its loop has passed.
Transaction(p) ==
    IF pc[p] = "applying"
      THEN /\ markers \subseteq Known(p)
           /\ applied[p] = markers
           /\ todo[p] <= code[p] + 1
           /\ done[p] = (1..(todo[p] - 1)) \ markers
      ELSE done[p] = {}

\* The inductive invariant.
BootstrapInv ==
    /\ TypeOK
    /\ Mutex
    /\ \A p \in Procs : Transaction(p)
    /\ AppliedOnce

-----------------------------------------------------------------------------
(* Types *)

\* Each statement of bootstrap keeps the state typed, given that the loop of a
\* transaction is not past the end of its list (Transaction).
LEMMA TypeStep ==
  ASSUME BootstrapInv, [Next]_vars
  PROVE  TypeOK'
<1> USE BootstrapAssumption DEF BootstrapInv, TypeOK, Migrations, At
<1>1. CASE UNCHANGED vars
  BY <1>1 DEF vars, Database, Local
<1>2. ASSUME NEW p \in Procs, Start(p) PROVE TypeOK'
  BY <1>2 DEF Start, Database
<1>3. ASSUME NEW p \in Procs, TableExists(p) PROVE TypeOK'
  BY <1>3 DEF TableExists, Database, Local
<1>4. ASSUME NEW p \in Procs, CreateTable(p) PROVE TypeOK'
  BY <1>4 DEF CreateTable, Database, Local
<1>5. ASSUME NEW p \in Procs, DuplicateTable(p) PROVE TypeOK'
  BY <1>5 DEF DuplicateTable, Rollback, Database, Local
<1>6. ASSUME NEW p \in Procs, Lock(p) PROVE TypeOK'
  BY <1>6 DEF Lock, Database, Local
<1>7. ASSUME NEW p \in Procs, Read(p) PROVE TypeOK'
  BY <1>7 DEF Read, Database
<1>8. ASSUME NEW p \in Procs, ReadRaises(p) PROVE TypeOK'
  BY <1>8 DEF ReadRaises, Rollback, Database, Local
<1>9. ASSUME NEW p \in Procs, Apply(p) PROVE TypeOK'
  <2>1. todo[p] \in 1..Newest
    BY <1>9 DEF Apply, InList
  <2>2. todo' \in [Procs -> 1..(Newest + 1)]
    BY <1>9, <2>1 DEF Apply
  <2>3. done' \in [Procs -> SUBSET (1..Newest)]
    <3>1. CASE Missing(p, todo[p])
      <4>1. done[p] \cup {todo[p]} \in SUBSET (1..Newest)
        BY <2>1
      <4> QED BY <1>9, <3>1, <4>1 DEF Apply
    <3>2. CASE ~Missing(p, todo[p])
      BY <1>9, <3>2 DEF Apply
    <3> QED BY <3>1, <3>2
  <2> QED BY <1>9, <2>2, <2>3 DEF Apply, Database
<1>10. ASSUME NEW p \in Procs, Commit(p) PROVE TypeOK'
  <2>1. changed' \in [1..Newest -> Nat]
    BY <1>10 DEF Commit
  <2> QED BY <1>10, <2>1 DEF Commit, Local
<1>11. ASSUME NEW p \in Procs, Crash(p) PROVE TypeOK'
  BY <1>11 DEF Crash, Rollback, Database, Local
<1> QED
  BY <1>1, <1>2, <1>3, <1>4, <1>5, <1>6, <1>7, <1>8, <1>9, <1>10, <1>11
     DEF Next, Step

-----------------------------------------------------------------------------
(* The transaction under the lock *)

\* A step that commits nothing and does not touch the process p of a running
\* transaction leaves that transaction as it is.
LEMMA OthersTransaction ==
  ASSUME BootstrapInv, NEW p \in Procs, NEW q \in Procs, p # q,
         pc'[q] = pc[q], code'[q] = code[q], applied'[q] = applied[q],
         todo'[q] = todo[q], done'[q] = done[q],
         markers' = markers \/ pc[p] \in Holding
  PROVE  Transaction(q)'
BY DEF BootstrapInv, Mutex, Holding, Transaction, Known

\* COMMIT completes the schema: the markers are then those of the code.
LEMMA CommitCompletes ==
  ASSUME BootstrapInv, NEW p \in Procs, Commit(p)
  PROVE  /\ markers' = Known(p)
         /\ done[p] \cap markers = {}
<1>1. /\ todo[p] = code[p] + 1
      /\ markers \subseteq Known(p)
      /\ done[p] = (1..(todo[p] - 1)) \ markers
  BY BootstrapAssumption
     DEF BootstrapInv, TypeOK, Transaction, Commit, LoopEnded, Migrations
<1>2. 1..(todo[p] - 1) = Known(p)
  BY <1>1, BootstrapAssumption DEF BootstrapInv, TypeOK, Known, Migrations
<1> QED
  BY <1>1, <1>2 DEF Commit

\* A process that leaves its transaction, or is in none, has applied nothing.
LEMMA NothingDone ==
  ASSUME BootstrapInv, NEW p \in Procs, pc'[p] # "applying",
         done' = [done EXCEPT ![p] = {}] \/ (done' = done /\ pc[p] # "applying")
  PROVE  Transaction(p)'
BY DEF BootstrapInv, TypeOK, Transaction

-----------------------------------------------------------------------------
(* The invariant *)

\* The initial states satisfy the invariant.
LEMMA InvInit == Init => BootstrapInv
<1> SUFFICES ASSUME Init PROVE BootstrapInv
  OBVIOUS
<1>1. TypeOK
  <2>1. 1 \in 1..(Newest + 1) /\ 0 \in 0..MaxCrashes
    BY BootstrapAssumption
  <2> QED BY <2>1 DEF Init, TypeOK, Migrations
<1>2. Mutex /\ \A p \in Procs : Transaction(p)
  BY DEF Init, Mutex, Holding, Transaction
<1>3. AppliedOnce
  BY DEF Init, AppliedOnce
<1> QED BY <1>1, <1>2, <1>3 DEF BootstrapInv

\* Every step keeps it.  Only COMMIT changes the database, and nobody else is
\* under the lock then.
LEMMA InvStep == BootstrapInv /\ [Next]_vars => BootstrapInv'
<1> SUFFICES ASSUME BootstrapInv, [Next]_vars PROVE BootstrapInv'
  OBVIOUS
<1>t. TypeOK'
  BY TypeStep
<1> USE DEF At
<1>1. CASE UNCHANGED vars
  BY <1>t, <1>1 DEF vars, Database, Local, BootstrapInv, Mutex, Transaction,
                    Known, AppliedOnce
<1>2. ASSUME NEW p \in Procs,
             Start(p) \/ TableExists(p) \/ CreateTable(p) \/ DuplicateTable(p)
               \/ ReadRaises(p) \/ Crash(p)
      PROVE  BootstrapInv'
  <2>1. /\ pc'[p] \notin Holding
        /\ \A q \in Procs \ {p} : pc'[q] = pc[q]
        /\ UNCHANGED <<markers, changed, applied, todo>>
        /\ \A q \in Procs \ {p} : code'[q] = code[q] /\ done'[q] = done[q]
    BY <1>2 DEF BootstrapInv, TypeOK, Start, TableExists, CreateTable,
                DuplicateTable, ReadRaises, Crash, Rollback, Database, Local,
                Holding
  <2>2. Transaction(p)'
    <3>1. \/ done' = [done EXCEPT ![p] = {}]
          \/ done' = done /\ pc[p] # "applying"
      BY <1>2 DEF Start, TableExists, CreateTable, DuplicateTable, ReadRaises,
                  Crash, Rollback
    <3> QED BY <2>1, <3>1, NothingDone DEF Holding
  <2>3. \A q \in Procs \ {p} : Transaction(q)'
    BY <2>1, OthersTransaction
  <2>4. Mutex'
    BY <2>1 DEF BootstrapInv, Mutex
  <2>5. AppliedOnce'
    BY <2>1 DEF BootstrapInv, AppliedOnce
  <2> QED BY <1>t, <2>2, <2>3, <2>4, <2>5 DEF BootstrapInv
<1>3. ASSUME NEW p \in Procs, Lock(p) PROVE BootstrapInv'
  <2>1. Mutex'
    BY <1>3 DEF BootstrapInv, TypeOK, Mutex, Lock, LockFree, Holding
  <2>2. Transaction(p)'
    BY <1>3, NothingDone DEF BootstrapInv, TypeOK, Lock
  <2>3. \A q \in Procs \ {p} : Transaction(q)'
    BY <1>3, OthersTransaction DEF BootstrapInv, TypeOK, Lock, Database, Local
  <2>4. AppliedOnce'
    BY <1>3 DEF BootstrapInv, AppliedOnce, Lock, Database
  <2> QED BY <1>t, <2>1, <2>2, <2>3, <2>4 DEF BootstrapInv
<1>4. ASSUME NEW p \in Procs, Read(p) PROVE BootstrapInv'
  <2>1. Mutex'
    BY <1>4 DEF BootstrapInv, TypeOK, Mutex, Read, Holding
  <2>2. Transaction(p)'
    <3>1. /\ pc'[p] = "applying"
          /\ markers' = markers
          /\ markers \subseteq Known(p)
          /\ applied'[p] = markers
          /\ todo'[p] = 1
          /\ code'[p] = code[p]
          /\ done'[p] = {}
      BY <1>4 DEF BootstrapInv, TypeOK, Transaction, Read, Unknown, Database
    <3>2. code[p] \in Nat /\ 1..(1 - 1) = {}
      BY BootstrapAssumption DEF BootstrapInv, TypeOK, Migrations
    <3> QED BY <3>1, <3>2 DEF Transaction, Known
  <2>3. \A q \in Procs \ {p} : Transaction(q)'
    BY <1>4, OthersTransaction DEF BootstrapInv, TypeOK, Read, Database
  <2>4. AppliedOnce'
    BY <1>4 DEF BootstrapInv, AppliedOnce, Read, Database
  <2> QED BY <1>t, <2>1, <2>2, <2>3, <2>4 DEF BootstrapInv
<1>5. ASSUME NEW p \in Procs, Apply(p) PROVE BootstrapInv'
  <2>1. Mutex'
    BY <1>5 DEF BootstrapInv, Mutex, Apply
  <2>2. Transaction(p)'
    <3>1. /\ pc[p] = "applying" /\ pc' = pc
          /\ code' = code /\ applied' = applied /\ markers' = markers
          /\ todo[p] \in 1..code[p] /\ todo'[p] = todo[p] + 1
          /\ code[p] \in Nat
      BY <1>5, BootstrapAssumption
         DEF BootstrapInv, TypeOK, Apply, InList, Database, Migrations
    <3>2. /\ markers \subseteq Known(p)
          /\ applied[p] = markers
          /\ done[p] = (1..(todo[p] - 1)) \ markers
      BY <3>1 DEF BootstrapInv, Transaction
    <3>3. done'[p] = (1..todo[p]) \ markers
      <4>1. 1..todo[p] = (1..(todo[p] - 1)) \cup {todo[p]}
        BY <3>1
      <4>2. CASE todo[p] \notin markers
        BY <1>5, <3>2, <4>1, <4>2 DEF BootstrapInv, TypeOK, Apply, Missing
      <4>3. CASE todo[p] \in markers
        BY <1>5, <3>2, <4>1, <4>3 DEF BootstrapInv, TypeOK, Apply, Missing
      <4> QED BY <4>2, <4>3
    <3> QED BY <3>1, <3>2, <3>3 DEF Transaction, Known
  <2>3. \A q \in Procs \ {p} : Transaction(q)'
    <3>1. \A q \in Procs \ {p} : todo'[q] = todo[q] /\ done'[q] = done[q]
      BY <1>5 DEF BootstrapInv, TypeOK, Apply
    <3> QED BY <1>5, <3>1, OthersTransaction DEF Apply, Database
  <2>4. AppliedOnce'
    BY <1>5 DEF BootstrapInv, AppliedOnce, Apply, Database
  <2> QED BY <1>t, <2>1, <2>2, <2>3, <2>4 DEF BootstrapInv
<1>6. ASSUME NEW p \in Procs, Commit(p) PROVE BootstrapInv'
  <2>1. Mutex'
    BY <1>6 DEF BootstrapInv, TypeOK, Mutex, Commit, Holding
  <2>2. Transaction(p)'
    BY <1>6, NothingDone DEF BootstrapInv, TypeOK, Commit
  <2>3. \A q \in Procs \ {p} : Transaction(q)'
    <3>1. \A q \in Procs \ {p} : pc'[q] = pc[q] /\ done'[q] = done[q]
      BY <1>6 DEF BootstrapInv, TypeOK, Commit
    <3> QED BY <1>6, <3>1, OthersTransaction DEF Commit, Local, Holding
  <2>4. AppliedOnce'
    <3>1. \A m \in Migrations :
            changed'[m] = IF m \in done[p] THEN changed[m] + 1 ELSE changed[m]
      BY <1>6 DEF Commit
    <3>2. markers' = markers \cup done[p] /\ done[p] \cap markers = {}
      BY <1>6, CommitCompletes DEF Commit
    <3> QED BY <3>1, <3>2 DEF BootstrapInv, AppliedOnce
  <2> QED BY <1>t, <2>1, <2>2, <2>3, <2>4 DEF BootstrapInv
<1> QED
  BY <1>1, <1>2, <1>3, <1>4, <1>5, <1>6 DEF Next, Step

\* The invariant holds in every state.
LEMMA Invariance == Spec => []BootstrapInv
<1>1. Init => BootstrapInv
  BY InvInit
<1>2. BootstrapInv /\ [Next]_vars => BootstrapInv'
  BY InvStep
<1> QED BY <1>1, <1>2, PTL DEF Spec

-----------------------------------------------------------------------------
(* The theorems *)

\* Every reachable state is typed: no transaction of bootstrap runs past its
\* list or applies a migration nobody knows.
THEOREM TypesKept == Spec => []TypeOK
<1>1. BootstrapInv => TypeOK
  BY DEF BootstrapInv
<1> QED BY <1>1, Invariance, PTL

\* However many processes call bootstrap at once, with whatever code, and die in
\* it, a migration takes effect once, together with its marker.
THEOREM MigrationsOnce == Spec => []AppliedOnce
<1>1. BootstrapInv => AppliedOnce
  BY DEF BootstrapInv
<1> QED BY <1>1, Invariance, PTL

\* A process that gets past bootstrap starts on exactly its schema.
THEOREM StartsOnItsSchema == Spec => SchemaAsWritten
<1> DEFINE Completes ==
      \A p \in Procs : pc[p] # "up" /\ pc'[p] = "up" => markers' = Known(p)
<1>1. BootstrapInv /\ [Next]_vars => [Completes]_vars
  <2> SUFFICES ASSUME BootstrapInv, Next, NEW q \in Procs,
                      pc[q] # "up", pc'[q] = "up"
               PROVE  markers' = Known(q)
    BY DEF Completes
  <2>1. Commit(q)
    <3>1. PICK p \in Procs : Start(p) \/ Step(p) \/ Lock(p) \/ Crash(p)
      BY DEF Next
    <3>2. p = q
      BY <3>1 DEF BootstrapInv, TypeOK, Step, Start, TableExists, CreateTable,
                  DuplicateTable, Lock, Read, ReadRaises, Apply, Commit, Crash,
                  Rollback, At
    <3> QED
      BY <3>1, <3>2 DEF BootstrapInv, TypeOK, Step, Start, TableExists,
                        CreateTable, DuplicateTable, Lock, Read, ReadRaises,
                        Apply, Crash, Rollback, At
  <2> QED BY <2>1, CommitCompletes
<1> QED BY <1>1, Invariance, PTL DEF Spec, SchemaAsWritten
=============================================================================

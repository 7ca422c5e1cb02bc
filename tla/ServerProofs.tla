----------------------------- MODULE ServerProofs -----------------------------
(***************************************************************************)
(* The safety of the server process, for any number of requests, any size  *)
(* of the pool and any number of starts.  The inductive invariant counts   *)
(* the connections that handlers have, and says what main may rely on at   *)
(* each of its points.                                                     *)
(***************************************************************************)
EXTENDS ServerProcess, FiniteSetTheorems, TLAPS

Holders == {r \in Requests : req[r] \in Holding}

\* Whoever has the advisory lock is between Lock and its end, and the row of the
\* version says how far it is.
LockInv ==
  /\ Told(Main, "up")
  /\ \A m \in Migrators : migrator[m].pc \in Working <=> advisory = m
  /\ \A m \in Migrators : advisory = m => ~Told(m, "version")
  /\ VersionTellsTruth
  /\ \A m \in Migrators : migrator[m].pc \in {"marked", "run"} =>
       /\ schema = [version |-> Target(m), dirty |-> TRUE]
       /\ tables <=> (Told(m, "up") <=> At(m, "run"))

\* From its last change to its report and after it, a migrator has the schema as
\* it was told, unless another one has marked it.
Through(m) == migrator[m].pc \in {"settled", "unlocked", "ok"}
DoneInv ==
  \A m \in Migrators : Through(m) /\ ~Told(m, "version") /\ m \notin undone => AsTold(m)

\* main passes its migration only when that has succeeded.
MainInv ==
  /\ server # "migrating" => migrator[Main].pc \in Done
  /\ server \in {"connecting", "serving", "draining", "closing"} => At(Main, "ok")

SchemaInv == LockInv /\ DoneInv /\ MainInv

\* Connections are free or held, and outside of its service the process has no
\* request to handle and every connection is free.
PoolInv ==
  /\ Up => free + Cardinality(Holders) = MaxConns
  /\ ~Up => free = MaxConns /\ \A r \in Requests : req[r] \notin Active

\* Once Shutdown has reported success no request is left, and none comes.
DrainInv ==
  drained => /\ server \in {"closing"} \cup Ended
             /\ \A r \in Requests : req[r] \notin Active

\* The row lock is that of the one transaction that has come so far.
RowInv == \A r \in Requests : req[r] = "locked" <=> rowLock = r

ServerInv == TypeOK /\ SchemaInv /\ PoolInv /\ DrainInv /\ RowInv

-----------------------------------------------------------------------------

LEMMA HoldersFinite ==
  /\ IsFiniteSet(Holders)
  /\ Cardinality(Holders) \in Nat
BY ServerAssumption, FS_Subset, FS_CardinalityType DEF Holders

\* A request takes a connection, gives its connection back, or does neither.
LEMMA Takes ==
  ASSUME TypeOK, NEW r \in Requests, NEW pc, req[r] \notin Holding, pc \in Holding,
         req' = [req EXCEPT ![r] = pc]
  PROVE  Cardinality(Holders') = Cardinality(Holders) + 1
<1>1. Holders' = Holders \cup {r} /\ r \notin Holders
  BY DEF Holders, TypeOK
<1> QED
  BY <1>1, HoldersFinite, FS_AddElement

LEMMA Gives ==
  ASSUME TypeOK, NEW r \in Requests, NEW pc, req[r] \in Holding, pc \notin Holding,
         req' = [req EXCEPT ![r] = pc]
  PROVE  Cardinality(Holders') = Cardinality(Holders) - 1
<1>1. Holders' = Holders \ {r} /\ r \in Holders
  BY DEF Holders, TypeOK
<1> QED
  BY <1>1, HoldersFinite, FS_RemoveElement

LEMMA Keeps ==
  ASSUME TypeOK, NEW r \in Requests, NEW pc, req[r] \in Holding <=> pc \in Holding,
         req' = [req EXCEPT ![r] = pc]
  PROVE  Holders' = Holders
BY DEF Holders, TypeOK

\* Whoever holds a connection has taken it from the pool.
LEMMA HeldIsNotFree ==
  ASSUME TypeOK, PoolInv, NEW r \in Requests, req[r] \in Holding
  PROVE  Up /\ free + 1 \in 0..MaxConns
<1>1. Up
  BY DEF PoolInv, Active
<1>2. r \in Holders
  BY DEF Holders
<1>3. Cardinality(Holders) # 0
  BY <1>2, HoldersFinite, FS_EmptySet
<1> QED
  BY <1>1, <1>3, HoldersFinite, ServerAssumption DEF PoolInv, TypeOK

LEMMA NobodyHolds ==
  ASSUME \A r \in Requests : req[r] \notin Active
  PROVE  Cardinality(Holders) = 0
<1>1. Holders = {}
  BY DEF Holders, Active
<1> QED
  BY <1>1, FS_EmptySet


-----------------------------------------------------------------------------
(* The migrators. *)

LEMMA SchemaStays ==
  ASSUME SchemaInv, UNCHANGED <<server, migration>>
  PROVE  SchemaInv'
BY DEF SchemaInv, LockInv, DoneInv, MainInv, VersionTellsTruth, Through, AsTold, migration, Told, At, Target

\* Only the one that has the lock writes the row and the tables.
LEMMA MigrateKeeps ==
  ASSUME MigrationTypeOK, LockInv, NEW m \in Migrators, Migrate(m) \/ Break(m)
  PROVE  /\ MigrationTypeOK'
         /\ LockInv'
         /\ \A n \in Migrators : migrator'[n].command = migrator[n].command
         /\ \A n \in Migrators \ {m} : migrator'[n] = migrator[n]
<1>0. None \notin Migrators /\ Main \in Migrators
  BY MigrationAssumption
<1> USE DEF Goes, Fails, At, Told, Target, Done, Commands, Working
<1>1. CASE Open(m) \/ Version(m) \/ LockTimesOut(m) \/ Report(m)
  BY <1>0, <1>1 DEF Open, Version, LockTimesOut, Report, MigrationTypeOK, LockInv, VersionTellsTruth
<1>2. CASE Lock(m)
  BY <1>0, <1>2 DEF Lock, MigrationTypeOK, LockInv, VersionTellsTruth
<1>3. CASE UpToDate(m) \/ Impossible(m)
  BY <1>0, <1>3 DEF UpToDate, NoChange, Impossible, MigrationTypeOK, LockInv, VersionTellsTruth
<1>4. CASE Mark(m)
  BY <1>0, <1>4 DEF Mark, MigrationTypeOK, LockInv, VersionTellsTruth
<1>5. CASE RunFile(m)
  <2>1. tables' \in BOOLEAN /\ (tables' <=> Told(m, "up"))
    BY <1>5, Zenon DEF RunFile, Left
  <2>2. /\ UNCHANGED <<schema, advisory, undone>> /\ Goes(m, "run") /\ At(m, "marked")
        /\ schema.dirty
    BY <1>5 DEF RunFile, LockInv
  <2> HIDE DEF Target
  <2> QED
    BY <1>0, <2>1, <2>2 DEF MigrationTypeOK, LockInv, VersionTellsTruth, Target
<1>6. CASE Record(m)
  BY <1>0, <1>6 DEF Record, MigrationTypeOK, LockInv, VersionTellsTruth
<1>7. CASE Break(m)
  BY <1>0, <1>7 DEF Break, MigrationTypeOK, LockInv, VersionTellsTruth
<1>8. CASE Unlock(m)
  BY <1>0, <1>8 DEF Unlock, MigrationTypeOK, LockInv, VersionTellsTruth
<1> QED
  BY <1>1, <1>2, <1>3, <1>4, <1>5, <1>6, <1>7, <1>8 DEF Migrate

\* The mark is the first change of the schema, and takes note of whom it concerns.
LEMMA DonesKeep ==
  ASSUME MigrationTypeOK, LockInv, DoneInv, NEW m \in Migrators, Migrate(m) \/ Break(m)
  PROVE  DoneInv'
<1>0. /\ \A n \in Migrators : migrator'[n].command = migrator[n].command
      /\ \A n \in Migrators \ {m} : migrator'[n] = migrator[n]
  BY MigrateKeeps
<1> USE DEF Goes, Fails, At, Told, Target, Done, Commands, Working, Through, AsTold
<1>1. CASE Open(m) \/ Version(m) \/ LockTimesOut(m) \/ Lock(m) \/ Impossible(m) \/ Break(m)
           \/ Unlock(m) \/ Report(m)
  BY <1>0, <1>1 DEF Open, Version, LockTimesOut, Lock, Impossible, Break, Unlock, Report, MigrationTypeOK,
    DoneInv
<1>2. CASE UpToDate(m)
  BY <1>0, <1>2 DEF UpToDate, NoChange, MigrationTypeOK, LockInv, VersionTellsTruth, DoneInv
<1>3. CASE Mark(m)
  <2>1. \A n \in Migrators \ {m} : Through(n) => n \in undone'
    BY <1>3 DEF Mark, LockInv
  <2> QED
    BY <1>0, <1>3, <2>1 DEF Mark, MigrationTypeOK, DoneInv
<1>4. CASE RunFile(m) \/ Record(m)
  <2>1. schema.dirty /\ UNCHANGED undone
    BY <1>4 DEF RunFile, Record, LockInv
  <2>2. \A n \in Migrators \ {m} : Through(n)' /\ ~Told(n, "version")' => n \in undone'
    BY <1>0, <2>1 DEF DoneInv
  <2>3. Through(m)' => AsTold(m)'
    BY <1>0, <1>4 DEF RunFile, Record, MigrationTypeOK, LockInv
  <2> QED
    BY <2>2, <2>3 DEF DoneInv
<1> QED
  BY <1>1, <1>2, <1>3, <1>4 DEF Migrate

-----------------------------------------------------------------------------
(* The steps. *)

States == {"none"} \cup Active \cup Over

\* A step of one request, which takes a connection, gives it back, or neither.
LEMMA RequestKeeps ==
  ASSUME ServerInv, NEW r \in Requests, NEW pc \in States,
         Up, UNCHANGED process,
         req[r] \in Active \/ server = "serving",
         req' = [req EXCEPT ![r] = pc],
         rowLock' \in Requests \cup {None},
         pc = "locked" <=> rowLock' = r,
         \A q \in Requests \ {r} : rowLock' = q <=> rowLock = q,
         \/ req[r] \notin Holding /\ pc \in Holding /\ free > 0 /\ free' = free - 1
         \/ req[r] \in Holding /\ pc \notin Holding /\ free' = free + 1
         \/ (req[r] \in Holding <=> pc \in Holding) /\ free' = free
  PROVE  ServerInv'
<1>1. free' \in 0..MaxConns
  BY HeldIsNotFree, ServerAssumption DEF ServerInv, TypeOK
<1>2. req' \in [Requests -> States]
  BY DEF ServerInv, TypeOK, States
<1>3. TypeOK'
  BY <1>1, <1>2 DEF ServerInv, TypeOK, MigrationTypeOK, process, main, migration, States
<1>4. SchemaInv'
  BY SchemaStays DEF ServerInv, process, main
<1>5. Up'
  BY DEF Up, process, main
<1>6. free' + Cardinality(Holders') = MaxConns
  <2>0. /\ free + Cardinality(Holders) = MaxConns
        /\ free \in Nat /\ Cardinality(Holders) \in Nat /\ MaxConns \in Nat
    BY HoldersFinite, ServerAssumption DEF ServerInv, PoolInv, TypeOK
  <2>1. CASE req[r] \notin Holding /\ pc \in Holding /\ free' = free - 1
    <3>1. Cardinality(Holders') = Cardinality(Holders) + 1
      BY <2>1, Takes DEF ServerInv
    <3> QED
      BY <2>0, <2>1, <3>1
  <2>2. CASE req[r] \in Holding /\ pc \notin Holding /\ free' = free + 1
    <3>1. Cardinality(Holders') = Cardinality(Holders) - 1
      BY <2>2, Gives DEF ServerInv
    <3> QED
      BY <2>0, <2>2, <3>1
  <2>3. CASE (req[r] \in Holding <=> pc \in Holding) /\ free' = free
    <3>1. Holders' = Holders
      BY <2>3, Keeps DEF ServerInv
    <3> QED
      BY <2>0, <2>3, <3>1
  <2> QED
    BY <2>1, <2>2, <2>3
<1>7. PoolInv'
  BY <1>5, <1>6 DEF PoolInv
<1>8. ~drained
  BY DEF ServerInv, DrainInv, Ended, Up
<1>9. DrainInv'
  BY <1>8 DEF DrainInv, process, main
<1>10. RowInv'
  BY DEF ServerInv, RowInv, TypeOK
<1> QED
  BY <1>3, <1>4, <1>7, <1>9, <1>10 DEF ServerInv

LEMMA HandlersKeep ==
  ASSUME ServerInv, NEW r \in Requests,
         Accept(r) \/ Handle(r) \/ StatementEndsIt(r) \/ Cancel(r)
  PROVE  ServerInv'
<1> USE DEF Waiting, Holding, Over, Active, States
<1>0. /\ rowLock \in Requests \cup {None} /\ free \in Nat /\ None \notin Requests
      /\ req[r] = "locked" <=> rowLock = r
  BY ServerAssumption DEF ServerInv, TypeOK, RowInv
<1>1. CASE Accept(r)
  BY <1>0, <1>1, RequestKeeps DEF Accept, Up
<1>2. CASE Acquire(r)
  <2>1. CASE req[r] = "read"
    BY <1>0, <1>2, <2>1, RequestKeeps DEF Acquire, Up
  <2>2. CASE req[r] = "conn"
    BY <1>0, <1>2, <2>2, RequestKeeps DEF Acquire, Up
  <2> QED
    BY <1>2, <2>1, <2>2 DEF Acquire
<1>3. CASE AcquireFails(r)
  BY <1>0, <1>3, RequestKeeps DEF AcquireFails
<1>4. CASE LockRow(r)
  BY <1>0, <1>4, RequestKeeps DEF LockRow
<1>5. CASE Commit(r)
  BY <1>0, <1>5, RequestKeeps DEF Commit, OnTransaction
<1>6. CASE Query(r)
  BY <1>0, <1>6, RequestKeeps DEF Query
<1>7. CASE Insert(r)
  BY <1>0, <1>7, RequestKeeps DEF Insert
<1>8. CASE Respond(r)
  BY <1>0, <1>8, RequestKeeps DEF Respond
<1>9. CASE StatementEndsIt(r)
  BY <1>0, <1>9, RequestKeeps DEF StatementEndsIt
<1>10. CASE Cancel(r)
  <2>1. /\ rowLock' \in Requests \cup {None} /\ rowLock' # r
        /\ \A q \in Requests \ {r} : rowLock' = q <=> rowLock = q
    BY <1>0, <1>10 DEF Cancel
  <2>2. CASE req[r] \in Holding
    <3>1. free' = free + 1
      BY <1>10, <2>2 DEF Cancel, GiveBack
    <3> QED
      BY <1>10, <2>1, <2>2, <3>1, RequestKeeps DEF Cancel
  <2>3. CASE req[r] \notin Holding
    <3>1. free' = free
      BY <1>0, <1>10, <2>3 DEF Cancel, GiveBack
    <3> QED
      BY <1>10, <2>1, <2>3, <3>1, RequestKeeps DEF Cancel
  <2> QED
    BY <2>2, <2>3
<1>11. CASE NoTable(r)
  BY <1>9, <1>11 DEF NoTable
<1> QED
  BY <1>1, <1>2, <1>3, <1>4, <1>5, <1>6, <1>7, <1>8, <1>9, <1>10, <1>11 DEF Handle

\* A migrator leaves the requests alone, and the schema under a server whose
\* migration nobody takes back.
LEMMA MigratorsKeep ==
  ASSUME ServerInv, NEW m \in Migrators, MigratorSteps(m) \/ MigratorBreaks(m) \/ CommandStarts(m)
  PROVE  ServerInv'
<1> USE DEF ServerInv
<1>0. MigrationTypeOK /\ LockInv /\ DoneInv /\ MainInv
  BY DEF TypeOK, SchemaInv
<1>1. CASE CommandStarts(m)
  <2>1. PICK command \in Commands : RunCommand(m, command)
    BY <1>1 DEF CommandStarts
  <2>2. MigrationTypeOK' /\ LockInv' /\ DoneInv'
    BY <1>0, <2>1 DEF RunCommand, At, Told, Target, MigrationTypeOK, LockInv, DoneInv, Through, AsTold,
      VersionTellsTruth, Working
  <2>3. MainInv'
    BY <1>0, <1>1, <2>1, MigrationAssumption DEF CommandStarts, RunCommand, main, MainInv, MigrationTypeOK, At
  <2>4. TypeOK'
    BY <1>1, <2>2 DEF CommandStarts, main, Requested, TypeOK
  <2>5. PoolInv' /\ DrainInv' /\ RowInv'
    BY <1>1 DEF CommandStarts, main, Requested, PoolInv, DrainInv, RowInv, Up, Holders
  <2> QED
    BY <2>2, <2>3, <2>4, <2>5 DEF SchemaInv
<1>2. CASE MigratorSteps(m) \/ MigratorBreaks(m)
  <2>1. (Migrate(m) \/ Break(m)) /\ MainFollows(m) /\ (m = Main => server = "migrating")
        /\ UNCHANGED <<drained, starts, Requested>>
    BY <1>2 DEF MigratorSteps, MigratorBreaks
  <2>2. /\ MigrationTypeOK' /\ LockInv' /\ DoneInv'
        /\ \A n \in Migrators : migrator'[n].command = migrator[n].command
        /\ \A n \in Migrators \ {m} : migrator'[n] = migrator[n]
    BY <1>0, <2>1, MigrateKeeps, DonesKeep
  <2>3. server' = server \/ (server = "migrating" /\ server' \in {"connecting", "failed"})
    BY <2>1 DEF MainFollows
  <2>4. TypeOK'
    BY <2>1, <2>2, <2>3 DEF TypeOK, Requested, Running, Ended
  <2>5. PoolInv' /\ DrainInv' /\ RowInv'
    BY <2>1, <2>3 DEF Requested, PoolInv, DrainInv, RowInv, Up, Holders, Ended
  <2>6. MainInv'
    BY <1>0, <2>1, <2>2, MigrationAssumption DEF MainFollows, MainInv, At
  <2> QED
    BY <2>2, <2>4, <2>5, <2>6 DEF SchemaInv
<1> QED
  BY <1>1, <1>2

\* While it does not serve, the process has no request and no free connection
\* is missing, so only the points of main are to be looked at.
LEMMA StartKeeps ==
  ASSUME ServerInv, Start
  PROVE  ServerInv'
<1> USE DEF ServerInv, Running, Ended, Requested
<1>0. UNCHANGED migration
  BY DEF Start, StartServing, StartFails
<1>1. MigrationTypeOK' /\ SchemaInv'
  <2>1. MigrationTypeOK' /\ LockInv' /\ DoneInv'
    BY <1>0 DEF migration, TypeOK, MigrationTypeOK, SchemaInv, LockInv, DoneInv, Through, AsTold,
      VersionTellsTruth, Told, At, Target
  <2>2. MainInv'
    BY <1>0 DEF migration, SchemaInv, MainInv, At, Start, StartServing, StartFails
  <2> QED
    BY <2>1, <2>2 DEF SchemaInv
<1>2. CASE StartServing
  <2>1. /\ ~Up /\ Up'
        /\ free' = MaxConns
        /\ \A r \in Requests : req'[r] \notin Active
    BY <1>2 DEF StartServing, Up, PoolInv
  <2>2. Cardinality(Holders') = 0
    <3>1. Holders' = {}
      BY <2>1 DEF Holders, Active
    <3> QED
      BY <3>1, FS_EmptySet
  <2>3. PoolInv'
    BY <2>1, <2>2, ServerAssumption DEF PoolInv
  <2>4. TypeOK' /\ DrainInv' /\ RowInv'
    BY <1>1, <1>2, ServerAssumption DEF StartServing, TypeOK, DrainInv, RowInv
  <2> QED
    BY <1>1, <2>3, <2>4
<1>3. CASE StartFails
  <2>1. ~Up /\ ~Up' /\ UNCHANGED Requested
    BY <1>3 DEF StartFails, Up
  <2>2. TypeOK' /\ DrainInv'
    BY <1>1, <1>3 DEF StartFails, TypeOK, DrainInv
  <2>3. PoolInv' /\ RowInv'
    BY <2>1 DEF PoolInv, RowInv
  <2> QED
    BY <1>1, <2>2, <2>3
<1> QED
  BY <1>2, <1>3 DEF Start

\* From SIGTERM to the exit the pool is as the handlers left it, and a start
\* after any end finds it whole.
LEMMA StopKeeps ==
  ASSUME ServerInv, Signal \/ Stop \/ Crash
  PROVE  ServerInv'
<1> USE DEF ServerInv, Ended
<1>0. UNCHANGED migration /\ server # "migrating"
  BY DEF Signal, Stop, DrainEnds, DrainTimesOut, Exit, Crash, Up
<1>1. MigrationTypeOK' /\ SchemaInv'
  <2>1. MigrationTypeOK' /\ LockInv' /\ DoneInv'
    BY <1>0 DEF migration, TypeOK, MigrationTypeOK, SchemaInv, LockInv, DoneInv, Through, AsTold,
      VersionTellsTruth, Told, At, Target
  <2>2. MainInv'
    BY <1>0 DEF migration, SchemaInv, MainInv, At, Signal, Stop, DrainEnds, DrainTimesOut, Exit, Crash
  <2> QED
    BY <2>1, <2>2 DEF SchemaInv
<1>2. CASE Signal \/ DrainEnds \/ DrainTimesOut
  <2> USE DEF Signal, DrainEnds, DrainTimesOut, Requested
  <2>1. Up /\ Up' /\ UNCHANGED Requested
    BY <1>2 DEF Up
  <2>2. PoolInv' /\ RowInv'
    BY <2>1 DEF PoolInv, RowInv, Holders
  <2>3. TypeOK'
    BY <1>0, <1>1, <1>2 DEF TypeOK, Running
  <2>4. DrainInv'
    BY <1>2 DEF DrainInv, NoRequestActive
  <2> QED
    BY <1>1, <2>2, <2>3, <2>4
<1>3. CASE Exit
  <2>1. \A r \in Requests : req'[r] \in States \ Active
    BY <1>3 DEF Exit, Killed, TypeOK, States, Active, Waiting, Holding, Over
  <2>2. TypeOK'
    BY <1>0, <1>1, <1>3 DEF Exit, Killed, TypeOK, Over
  <2>3. PoolInv'
    BY <1>3, <2>1 DEF Exit, PoolIdle, PoolInv, Up
  <2>4. DrainInv'
    BY <1>3, <2>1 DEF Exit, DrainInv
  <2>5. \A r \in Requests : req[r] \notin Holding
    BY <1>3, HeldIsNotFree, ServerAssumption DEF Exit, PoolIdle
  <2>6. RowInv'
    BY <1>3, <2>1, <2>5 DEF Exit, RowInv, Active, Holding
  <2> QED
    BY <1>1, <2>2, <2>3, <2>4, <2>6
<1>4. CASE Crash
  <2>1. \A r \in Requests : req'[r] \in States \ Active
    BY <1>4 DEF Crash, Killed, TypeOK, States, Active, Waiting, Holding, Over
  <2>2. TypeOK'
    BY <1>0, <1>1, <1>4, ServerAssumption DEF Crash, Killed, TypeOK, Over
  <2>3. PoolInv'
    BY <1>4, <2>1 DEF Crash, PoolInv, Up
  <2>4. DrainInv'
    BY <1>4, <2>1 DEF Crash, DrainInv
  <2>5. RowInv'
    BY <1>4, <2>1, ServerAssumption DEF Crash, RowInv, Active, Holding
  <2> QED
    BY <1>1, <2>2, <2>3, <2>4, <2>5
<1> QED
  BY <1>2, <1>3, <1>4 DEF Stop

\* A start after any end finds no migrator of main under way.
LEMMA RestartKeeps ==
  ASSUME ServerInv, Restart
  PROVE  ServerInv'
<1> USE DEF ServerInv, Restart, Ended
<1>1. ~Up /\ ~Up'
  BY DEF Up
<1>2. migrator[Main].pc \in Done /\ Main \in Migrators
  BY MigrationAssumption DEF SchemaInv, MainInv
<1>3. MigrationTypeOK' /\ LockInv' /\ DoneInv'
  BY <1>2 DEF TypeOK, MigrationTypeOK, SchemaInv, LockInv, DoneInv, Through, AsTold, VersionTellsTruth,
              Told, At, Target, Done, Commands, Working
<1>4. MainInv'
  BY DEF MainInv
<1>5. TypeOK'
  <2>1. drained' \in BOOLEAN
    BY Zenon
  <2>2. starts' \in Nat
    BY SMT DEF TypeOK
  <2> QED
    BY <1>3, <2>1, <2>2 DEF Requested, TypeOK, Running
<1>6. PoolInv' /\ DrainInv' /\ RowInv'
  BY <1>1 DEF Requested, PoolInv, DrainInv, RowInv
<1> QED
  BY <1>3, <1>4, <1>5, <1>6 DEF SchemaInv

LEMMA ServerInit == Init => ServerInv
<1> SUFFICES ASSUME Init
             PROVE  ServerInv
  OBVIOUS
<1>1. TypeOK
  <2>1. drained \in BOOLEAN
    BY Zenon DEF Init
  <2>2. starts \in Nat /\ free \in 0..MaxConns
    BY ServerAssumption, SMT DEF Init
  <2>3. MigrationTypeOK
    <3>1. tables \in BOOLEAN
      BY Zenon DEF Init, MigrationInit
    <3> QED
      BY <3>1 DEF Init, MigrationInit, MigrationTypeOK, Commands
  <2> QED
    BY <2>1, <2>2, <2>3, Zenon DEF Init, TypeOK, Running
<1>2. PoolInv
  BY DEF Init, PoolInv, Up, Active, Waiting, Holding
<1>3. LockInv
  BY MigrationAssumption DEF Init, MigrationInit, LockInv, VersionTellsTruth, Told, At, Working
<1>4. DoneInv
  BY DEF Init, MigrationInit, DoneInv, Through
<1>5. MainInv /\ DrainInv /\ RowInv
  BY ServerAssumption DEF Init, MainInv, DrainInv, RowInv
<1> QED
  BY <1>1, <1>2, <1>3, <1>4, <1>5 DEF ServerInv, SchemaInv

LEMMA ServerInductive == ServerInv /\ [Next]_vars => ServerInv'
<1>1. ServerInv /\ UNCHANGED vars => ServerInv'
  <2>1. UNCHANGED vars /\ SchemaInv => SchemaInv'
    BY SchemaStays DEF vars
  <2> QED
    BY <2>1 DEF vars, ServerInv, TypeOK, migration, MigrationTypeOK, PoolInv, Up, Holders, DrainInv, RowInv
<1> QED
  BY <1>1, MigratorsKeep, StartKeeps, StopKeeps, RestartKeeps, HandlersKeep DEF Next, Stopped

\* main ends normally in no other way.
LEMMA ExitIsTheExit ==
  ASSUME [Next]_vars, server = "closing", server' = "exited"
  PROVE  Exit
BY DEF Next, vars, process, main, Requested, Start, MigratorSteps, MigratorBreaks, MainFollows,
  CommandStarts, StartServing, StartFails, Accept, Handle, Acquire, AcquireFails, LockRow, Commit, Query, Insert,
  NoTable, Respond, StatementEndsIt, Cancel, Signal, Stop, DrainEnds, DrainTimesOut, Crash, Restart, Stopped

-----------------------------------------------------------------------------

\* The inductive invariant of the server process.
THEOREM ServerInvariant == Spec => []ServerInv
BY ServerInit, ServerInductive, PTL DEF Spec

\* The types of the process, of the migrators and of the requests.
THEOREM ServerTypeCorrect == Spec => []TypeOK
<1>1. ServerInv => TypeOK
  BY DEF ServerInv
<1> QED
  BY <1>1, ServerInvariant, PTL

\* A clean version row tells whether the tables are there, after any number of
\* migrators that ran beside each other and broke off anywhere.
THEOREM VersionTellsTruthHolds == Spec => []VersionTellsTruth
<1>1. ServerInv => VersionTellsTruth
  BY DEF ServerInv, SchemaInv, LockInv
<1> QED
  BY <1>1, ServerInvariant, PTL

\* main reaches ListenAndServe only with a complete schema, and it stays so
\* until a rollback.
THEOREM ServesOnlyMigratedHolds == Spec => []ServesOnlyMigrated
<1>1. ServerInv => ServesOnlyMigrated
  BY MigrationAssumption DEF ServerInv, SchemaInv, LockInv, DoneInv, MainInv, Through, AsTold, Target, At,
    Told, ServesOnlyMigrated, Up
<1> QED
  BY <1>1, ServerInvariant, PTL

\* Who reports that the schema was migrated, or taken back, has it so until
\* another one marks it.
THEOREM SuccessIsTrueHolds == Spec => []SuccessIsTrue
<1>1. ServerInv => SuccessIsTrue
  BY DEF ServerInv, SchemaInv, DoneInv, Through, SuccessIsTrue, At
<1> QED
  BY <1>1, ServerInvariant, PTL

\* Every connection of the pool is free or has one holder.
THEOREM PoolConservedHolds == Spec => []PoolConserved
<1>1. ServerInv => PoolConserved
  <2>1. SUFFICES ASSUME ServerInv
                 PROVE  free + Cardinality(Holders) = MaxConns
    BY DEF PoolConserved, Holders
  <2>2. CASE ~Up
    BY <2>1, <2>2, NobodyHolds, ServerAssumption DEF ServerInv, PoolInv
  <2> QED
    BY <2>1, <2>2 DEF ServerInv, PoolInv
<1> QED
  BY <1>1, ServerInvariant, PTL

\* A Shutdown without an error leaves no request for the exit to cut off.
THEOREM CleanExitCutsNobodyHolds == Spec => CleanExitCutsNobody
<1>1. ServerInv /\ [Next]_vars =>
        (server = "closing" /\ server' = "exited" /\ drained => UNCHANGED req)
  <2> SUFFICES ASSUME ServerInv, [Next]_vars, server = "closing", server' = "exited", drained
               PROVE  UNCHANGED req
    OBVIOUS
  <2>1. Exit
    BY ExitIsTheExit
  <2>2. \A r \in Requests : req[r] \notin Active
    BY DEF ServerInv, DrainInv
  <2> QED
    BY <2>1, <2>2 DEF Exit, Killed, ServerInv, TypeOK
<1> QED
  BY <1>1, ServerInvariant, PTL DEF Spec, CleanExitCutsNobody

\* pool.Close makes the exit wait for every transaction, those of a Shutdown that
\* timed out included.
THEOREM ExitCutsNoTransactionHolds == Spec => ExitCutsNoTransaction
<1>1. ServerInv /\ [Next]_vars =>
        (server = "closing" /\ server' = "exited" =>
           \A r \in Requests : req[r] \in Holding => req'[r] # "killed")
  <2> SUFFICES ASSUME ServerInv, [Next]_vars, server = "closing", server' = "exited",
                      NEW r \in Requests, req[r] \in Holding
               PROVE  FALSE
    OBVIOUS
  <2>1. free = MaxConns
    BY ExitIsTheExit DEF Exit, PoolIdle
  <2>2. free + 1 \in 0..MaxConns
    BY HeldIsNotFree DEF ServerInv
  <2> QED
    BY <2>1, <2>2, ServerAssumption
<1> QED
  BY <1>1, ServerInvariant, PTL DEF Spec, ExitCutsNoTransaction

\* Requests do not wait for each other in a circle, for any number of requests
\* and any size of the pool.
THEOREM SomebodyGoesOnHolds == Spec => []SomebodyGoesOn
<1>1. ServerInv => SomebodyGoesOn
  <2> SUFFICES ASSUME ServerInv, Up, free = 0 \/ rowLock # None
               PROVE  \E r \in Requests : IF rowLock = None THEN req[r] \in Holding
                                                            ELSE rowLock = r /\ OnTransaction(r)
    BY DEF SomebodyGoesOn
  <2>1. CASE rowLock # None
    BY <2>1 DEF ServerInv, TypeOK, RowInv, OnTransaction
  <2>2. CASE rowLock = None
    <3>1. Cardinality(Holders) # 0
      BY <2>2, HoldersFinite, ServerAssumption DEF ServerInv, PoolInv
    <3>2. PICK r \in Holders : TRUE
      BY <3>1, FS_EmptySet
    <3> QED
      BY <2>2, <3>2 DEF Holders
  <2> QED
    BY <2>1, <2>2
<1> QED
  BY <1>1, ServerInvariant, PTL

-----------------------------------------------------------------------------
(* The migrators implement AtomicMigration. *)

ToldSeen == [m \in Migrators |-> migrator[m].command]
StageSeen == [m \in Migrators |-> Stage(m)]

\* What is seen of the schema while somebody migrates it, and while nobody does.
SeenBusy ==
  MigrationTypeOK /\ LockInv =>
    \A m \in Migrators : UnderWay(m) => SchemaSeen = IF Told(m, "up") THEN "down" ELSE "up"
SeenIdle ==
  MigrationTypeOK /\ LockInv /\ (\A m \in Migrators : ~UnderWay(m)) =>
    SchemaSeen = IF schema.dirty THEN "broken" ELSE IF schema.version = 1 THEN "up" ELSE "down"

LEMMA SchemaIsSeen == SeenBusy /\ SeenIdle
<1>1. SeenBusy
  <2> SUFFICES ASSUME MigrationTypeOK, LockInv, NEW m \in Migrators, UnderWay(m)
               PROVE  SchemaSeen = IF Told(m, "up") THEN "down" ELSE "up"
    BY DEF SeenBusy
  <2>1. \A n \in Migrators : UnderWay(n) => n = m
    BY DEF UnderWay, LockInv, Working
  <2>2. Told(m, "up") \/ Told(m, "down")
    BY DEF UnderWay, LockInv, Working, Told, MigrationTypeOK, Commands
  <2>3. schema # [version |-> 0, dirty |-> FALSE] /\ schema # [version |-> 1, dirty |-> FALSE]
    BY DEF UnderWay, LockInv
  <2>4. (\E n \in Migrators : UnderWay(n) /\ Told(n, "up")) <=> Told(m, "up")
    BY <2>1
  <2>5. (\E n \in Migrators : UnderWay(n) /\ Told(n, "down")) <=> Told(m, "down")
    BY <2>1
  <2>6. ~(Told(m, "up") /\ Told(m, "down"))
    BY DEF Told
  <2> HIDE DEF UnderWay, Told
  <2> QED
    BY <2>2, <2>3, <2>4, <2>5, <2>6 DEF SchemaSeen
<1>2. SeenIdle
  BY DEF SeenIdle, SchemaSeen, LockInv, VersionTellsTruth, MigrationTypeOK
<1> QED
  BY <1>1, <1>2

LEMMA SchemaIsSeenAfter == SeenBusy' /\ SeenIdle'
BY SchemaIsSeen, PTL

\* A step of a migrator moves its own stage at most.
LEMMA StageMoves ==
  ASSUME MigrationTypeOK, LockInv, NEW m \in Migrators, Migrate(m) \/ Break(m)
  PROVE  /\ ToldSeen' = ToldSeen
         /\ Stage(m)' = Stage(m) => StageSeen' = StageSeen
         /\ Atomic!Moves(m, Stage(m), Stage(m)')
<1>1. /\ \A n \in Migrators : migrator'[n].command = migrator[n].command
      /\ \A n \in Migrators \ {m} : migrator'[n] = migrator[n]
  BY MigrateKeeps
<1>2. \A n \in Migrators \ {m} : Stage(n)' = Stage(n)
  BY <1>1 DEF Stage
<1>3. ToldSeen' = ToldSeen
  BY <1>1 DEF ToldSeen
<1>4. StageSeen' = [StageSeen EXCEPT ![m] = Stage(m)']
  BY <1>2 DEF StageSeen
<1>5. StageSeen[m] = Stage(m)
  BY DEF StageSeen
<1>6. Stage(m)' = Stage(m) => StageSeen' = StageSeen
  BY <1>2 DEF StageSeen
<1> QED
  BY <1>3, <1>4, <1>5, <1>6 DEF ToldSeen, StageSeen, Atomic!Moves

\* What is seen of the schema does not change with a migrator that was not under
\* way and is not after its step, while the row and the tables stay.
LEMMA SeenStays ==
  ASSUME NEW m \in Migrators, UNCHANGED <<schema, tables>>, ~UnderWay(m), ~UnderWay(m)',
         \A n \in Migrators : migrator'[n].command = migrator[n].command,
         \A n \in Migrators \ {m} : migrator'[n] = migrator[n]
  PROVE  SchemaSeen' = SchemaSeen
<1>1. \A n \in Migrators : (UnderWay(n)' <=> UnderWay(n))
  BY DEF UnderWay
<1> QED
  BY <1>1 DEF SchemaSeen, Told

\* Up to its mark a migrator shows nothing, and so do the file that it runs and
\* its unlock.
LEMMA QuietSteps ==
  ASSUME MigrationTypeOK, LockInv, NEW m \in Migrators,
         Open(m) \/ Lock(m) \/ Mark(m) \/ RunFile(m) \/ Unlock(m)
  PROVE  SchemaSeen' = SchemaSeen /\ Stage(m)' = Stage(m)
<1>0. /\ MigrationTypeOK' /\ LockInv'
      /\ \A n \in Migrators \ {m} : migrator'[n] = migrator[n]
      /\ \A n \in Migrators : migrator'[n].command = migrator[n].command
  BY MigrateKeeps DEF Migrate
<1>1. CASE Open(m) \/ Lock(m) \/ Unlock(m)
  <2>1. UNCHANGED <<schema, tables>> /\ ~UnderWay(m) /\ ~UnderWay(m)'
    BY <1>1 DEF Open, Lock, Unlock, At, Goes, UnderWay, MigrationTypeOK
  <2>2. Stage(m)' = Stage(m)
    BY <1>1 DEF Open, Lock, Unlock, At, Goes, Stage, Done, MigrationTypeOK
  <2> QED
    BY <1>0, <2>1, <2>2, SeenStays
<1>2. CASE Mark(m)
  <2>1. /\ UnderWay(m)' /\ migrator'[m].pc = "marked" /\ migrator[m].pc = "locked"
        /\ ~schema.dirty /\ schema.version # Target(m)
    BY <1>2 DEF Mark, At, Goes, UnderWay, MigrationTypeOK
  <2>2. \A n \in Migrators : ~UnderWay(n)
    BY <2>1 DEF LockInv, UnderWay
  <2>3. SchemaSeen = IF schema.version = 1 THEN "up" ELSE "down"
    BY <2>1, <2>2, SchemaIsSeen DEF SeenIdle
  <2>4. SchemaSeen' = IF Told(m, "up")' THEN "down" ELSE "up"
    BY <1>0, <2>1, SchemaIsSeenAfter DEF SeenBusy
  <2>5. SchemaSeen' = SchemaSeen
    BY <1>0, <2>1, <2>3, <2>4 DEF Target, Told, MigrationTypeOK
  <2> QED
    BY <2>1, <2>5 DEF Stage, Done
<1>3. CASE RunFile(m)
  <2>1. UnderWay(m) /\ UnderWay(m)' /\ migrator'[m].pc = "run" /\ migrator[m].pc = "marked"
    BY <1>3 DEF RunFile, At, Goes, UnderWay, MigrationTypeOK
  <2>2. SchemaSeen = IF Told(m, "up") THEN "down" ELSE "up"
    BY <2>1, SchemaIsSeen DEF SeenBusy
  <2>3. SchemaSeen' = IF Told(m, "up")' THEN "down" ELSE "up"
    BY <1>0, <2>1, SchemaIsSeenAfter DEF SeenBusy
  <2> QED
    BY <1>0, <2>1, <2>2, <2>3 DEF Told, Stage, Done
<1> QED
  BY <1>1, <1>2, <1>3

\* Whose change is recorded has made, at that moment, the one it was told to make.
LEMMA EffectSteps ==
  ASSUME MigrationTypeOK, LockInv, NEW m \in Migrators, UpToDate(m) \/ Record(m)
  PROVE  Atomic!TakesEffect(m)
<1>0. /\ MigrationTypeOK' /\ LockInv'
      /\ \A n \in Migrators \ {m} : migrator'[n] = migrator[n]
      /\ ~UnderWay(m)'
      /\ Atomic!Moves(m, "told", "changed")
  <2>1. migrator[m].pc \in {"locked", "run"} /\ migrator'[m].pc = "settled"
    BY DEF UpToDate, Record, At, Goes, MigrationTypeOK
  <2>2. Stage(m) = "told" /\ Stage(m)' = "changed"
    BY <2>1 DEF Stage, Done
  <2> QED
    BY <2>1, <2>2, MigrateKeeps, StageMoves DEF Migrate, UnderWay
<1>1. CASE UpToDate(m)
  <2>1. /\ Told(m, "up") /\ ~schema.dirty /\ schema.version = 1 /\ UNCHANGED schema
        /\ advisory = m /\ At(m, "locked")
    BY <1>1 DEF UpToDate, NoChange, At, LockInv, Working
  <2>2. \A n \in Migrators : ~UnderWay(n) /\ ~UnderWay(n)'
    BY <1>0, <2>1 DEF LockInv, UnderWay, At, Working
  <2>3. SchemaSeen = "up" /\ SchemaSeen' = "up"
    BY <1>0, <2>1, <2>2, SchemaIsSeen, SchemaIsSeenAfter DEF SeenIdle
  <2> QED
    BY <1>0, <2>1, <2>3 DEF Told, Atomic!TakesEffect
<1>2. CASE Record(m)
  <2>1. UnderWay(m) /\ schema' = [version |-> Target(m), dirty |-> FALSE] /\ advisory = m
    BY <1>2 DEF Record, At, UnderWay, LockInv, Working
  <2>2. \A n \in Migrators : ~UnderWay(n)'
    BY <1>0, <2>1 DEF LockInv, UnderWay, Working
  <2>3. SchemaSeen = IF Told(m, "up") THEN "down" ELSE "up"
    BY <2>1, SchemaIsSeen DEF SeenBusy
  <2>4. SchemaSeen' = IF Told(m, "up") THEN "up" ELSE "down"
    BY <1>0, <2>1, <2>2, SchemaIsSeenAfter DEF SeenIdle, Target
  <2>5. Told(m, "up") \/ Told(m, "down")
    BY <2>1 DEF LockInv, Told, MigrationTypeOK, Commands
  <2> QED
    BY <1>0, <2>3, <2>4, <2>5 DEF Told, Atomic!TakesEffect, Atomic!Changes
<1> QED
  BY <1>1, <1>2

\* Who reports success had its effect before.
LEMMA SuccessfulSteps ==
  ASSUME MigrationTypeOK, LockInv, NEW m \in Migrators, Version(m) \/ Report(m)
  PROVE  Atomic!Succeeds(m)
<1>1. /\ UNCHANGED <<schema, tables>> /\ ~UnderWay(m) /\ ~UnderWay(m)'
      /\ Stage(m)' = "ok"
      /\ Stage(m) = "changed" \/ (Stage(m) = "told" /\ migrator[m].command = "version")
  BY DEF Version, Report, At, Told, Goes, UnderWay, Stage, Done, MigrationTypeOK
<1>2. SchemaSeen' = SchemaSeen
  BY <1>1, MigrateKeeps, SeenStays DEF Migrate
<1>3. Atomic!Moves(m, Stage(m), "ok")
  BY <1>1, StageMoves DEF Migrate
<1> QED
  BY <1>1, <1>2, <1>3 DEF Atomic!Succeeds

\* Who fails has changed nothing, or all, or is the one that was changing the schema.
LEMMA FailingSteps ==
  ASSUME MigrationTypeOK, LockInv, NEW m \in Migrators,
         LockTimesOut(m) \/ Impossible(m) \/ Break(m)
  PROVE  Atomic!GivesUp(m) \/ Atomic!Breaks(m)
<1>0. /\ MigrationTypeOK' /\ LockInv'
      /\ \A n \in Migrators \ {m} : migrator'[n] = migrator[n]
      /\ \A n \in Migrators : migrator'[n].command = migrator[n].command
      /\ ~UnderWay(m)' /\ UNCHANGED <<schema, tables>>
      /\ Atomic!Moves(m, Stage(m), "failed")
      /\ Stage(m) \in {"told", "changed"}
  <2>1. /\ migrator'[m].pc = "failed" /\ migrator[m].pc \notin Done
        /\ UNCHANGED <<schema, tables>>
    BY DEF LockTimesOut, Impossible, Break, Fails, Goes, At, Done, MigrationTypeOK
  <2>2. Stage(m)' = "failed" /\ Stage(m) \in {"told", "changed"}
    BY <2>1 DEF Stage, Done
  <2> QED
    BY <2>1, <2>2, MigrateKeeps, StageMoves DEF Migrate, UnderWay
<1>1. CASE ~UnderWay(m)
  <2>1. SchemaSeen' = SchemaSeen
    BY <1>0, <1>1, SeenStays
  <2> QED
    BY <1>0, <2>1 DEF Atomic!GivesUp
<1>2. CASE UnderWay(m)
  <2>1. schema.dirty /\ advisory = m /\ Stage(m) = "told"
    BY <1>2 DEF UnderWay, LockInv, Working, Stage, Done
  <2>2. \A n \in Migrators : ~UnderWay(n)'
    BY <1>0, <2>1 DEF LockInv, UnderWay, Working
  <2>3. SchemaSeen' = "broken"
    BY <1>0, <2>1, <2>2, SchemaIsSeenAfter DEF SeenIdle
  <2>4. Told(m, "up") \/ Told(m, "down")
    BY <1>2 DEF UnderWay, LockInv, Working, Told, MigrationTypeOK, Commands
  <2>5. \E to \in {"up", "down"} : Atomic!Changes(m, SchemaSeen, to)
    BY <1>2, <2>4, SchemaIsSeen DEF SeenBusy, Told, Atomic!Changes
  <2> QED
    BY <1>0, <2>1, <2>3, <2>5 DEF Atomic!Breaks
<1> QED
  BY <1>1, <1>2

LEMMA MigrationImplements ==
  ServerInv /\ [Next]_vars => [Atomic!AtomicNext]_Atomic!atomicVars
<1> SUFFICES ASSUME ServerInv, [Next]_vars
             PROVE  Atomic!AtomicNext \/ UNCHANGED <<SchemaSeen, ToldSeen, StageSeen>>
  BY DEF Atomic!atomicVars, ToldSeen, StageSeen
<1>0. MigrationTypeOK /\ LockInv
  BY DEF ServerInv, TypeOK, SchemaInv
<1>1. ASSUME NEW m \in Migrators, MigratorSteps(m) \/ MigratorBreaks(m)
      PROVE  Atomic!AtomicNext \/ UNCHANGED <<SchemaSeen, ToldSeen, StageSeen>>
  <2>1. Migrate(m) \/ Break(m)
    BY <1>1 DEF MigratorSteps, MigratorBreaks
  <2>2. CASE Open(m) \/ Lock(m) \/ Mark(m) \/ RunFile(m) \/ Unlock(m)
    BY <1>0, <2>1, <2>2, QuietSteps, StageMoves
  <2> QED
    BY <1>0, <2>1, <2>2, EffectSteps, SuccessfulSteps, FailingSteps DEF Migrate, Atomic!AtomicNext
<1>2. ASSUME NEW m \in Migrators, CommandStarts(m)
      PROVE  Atomic!AtomicNext
  <2>1. PICK command \in Commands : RunCommand(m, command)
    BY <1>2 DEF CommandStarts
  <2>2. /\ m # Main /\ UNCHANGED <<schema, tables>>
        /\ migrator[m].pc = "idle" /\ migrator'[m] = [command |-> command, pc |-> "open"]
        /\ \A n \in Migrators \ {m} : migrator'[n] = migrator[n]
    BY <1>0, <2>1 DEF RunCommand, At, MigrationTypeOK
  <2>3. \A n \in Migrators : (UnderWay(n)' <=> UnderWay(n)) /\ (UnderWay(n) => n # m)
    BY <2>2 DEF UnderWay
  <2>4. SchemaSeen' = SchemaSeen
    BY <2>2, <2>3 DEF SchemaSeen, Told
  <2>5. Stage(m) = "told" /\ \A n \in Migrators : Stage(n)' = Stage(n)
    BY <2>2 DEF Stage, Done
  <2>6. \A n \in Migrators :
          migrator'[n].command = IF n = m THEN command ELSE migrator[n].command
    BY <2>2
  <2>7. StageSeen' = StageSeen /\ StageSeen[m] = "told"
    BY <2>5 DEF StageSeen
  <2>8. ToldSeen' = [ToldSeen EXCEPT ![m] = command]
    BY <2>6 DEF ToldSeen
  <2>9. Atomic!Tell(m, command)
    BY <2>2, <2>4, <2>7, <2>8 DEF Atomic!Tell, ToldSeen, StageSeen
  <2> QED
    BY <2>9 DEF Atomic!AtomicNext, Commands
<1>3. CASE Restart
  <2>1. /\ Main \in Migrators /\ migrator[Main].pc \in Done /\ migrator[Main].command = "up"
        /\ UNCHANGED <<schema, tables>>
        /\ migrator'[Main] = [command |-> "up", pc |-> "open"]
        /\ \A n \in Migrators \ {Main} : migrator'[n] = migrator[n]
    BY <1>0, <1>3, MigrationAssumption DEF Restart, ServerInv, SchemaInv, MainInv, LockInv, Told,
      Ended, MigrationTypeOK
  <2>2. \A n \in Migrators : (UnderWay(n)' <=> UnderWay(n)) /\ migrator'[n].command = migrator[n].command
    BY <2>1 DEF UnderWay, Done
  <2>3. SchemaSeen' = SchemaSeen
    BY <2>1, <2>2 DEF SchemaSeen, Told
  <2>4. /\ Stage(Main) \in {"ok", "failed"} /\ Stage(Main)' = "told"
        /\ \A n \in Migrators \ {Main} : Stage(n)' = Stage(n)
    BY <2>1 DEF Stage, Done
  <2>5. /\ ToldSeen' = ToldSeen
        /\ StageSeen' = [StageSeen EXCEPT ![Main] = "told"]
        /\ StageSeen[Main] \in {"ok", "failed"}
    BY <2>1, <2>2, <2>4 DEF StageSeen, ToldSeen
  <2>6. Atomic!Again
    BY <2>3, <2>5 DEF Atomic!Again, ToldSeen, StageSeen
  <2> QED
    BY <2>6 DEF Atomic!AtomicNext
<1>4. CASE UNCHANGED migration
  BY <1>4 DEF migration, SchemaSeen, UnderWay, Told, ToldSeen, StageSeen, Stage
<1> QED
  BY <1>1, <1>2, <1>3, <1>4 DEF Next, vars, process, Start, StartServing, StartFails, Accept,
    Handle, Acquire, AcquireFails, LockRow, Commit, Query, Insert, NoTable, Respond,
    StatementEndsIt, Cancel, Signal, Stop, DrainEnds, DrainTimesOut, Exit, Crash, Stopped

\* The migrators are atomic: nobody sees half a migration succeed, and one that
\* fails leaves the schema as it was, changed in full, or marked broken.
THEOREM ImplementsAtomicMigrationHolds == Spec => ImplementsAtomicMigration
<1>1. Init => Atomic!AtomicInit
  <2> SUFFICES ASSUME Init
               PROVE  SchemaSeen = "down" /\ Atomic!AtomicInit
    OBVIOUS
  <2>1. MigrationTypeOK /\ LockInv
    BY ServerInit DEF ServerInv, TypeOK, SchemaInv
  <2>2. \A m \in Migrators : ~UnderWay(m) /\ migrator[m].command = "up"
    BY DEF Init, MigrationInit, UnderWay
  <2>3. SchemaSeen = "down"
    BY <2>1, <2>2, SchemaIsSeen DEF SeenIdle, Init, MigrationInit
  <2>4. \A m \in Migrators : Stage(m) = "told"
    BY DEF Init, MigrationInit, Stage, Done
  <2> QED
    BY <2>2, <2>3, <2>4 DEF Atomic!AtomicInit
<1> QED
  BY <1>1, MigrationImplements, ServerInvariant, PTL
  DEF Spec, ImplementsAtomicMigration, Atomic!AtomicSpec
=============================================================================

------------------------------ MODULE Migrations ------------------------------
(***************************************************************************)
(* The migration of the schema, by golang-migrate's row of a version and a *)
(* dirty flag: main brings the schema up when it starts, and the migrate   *)
(* command brings it up or down or asks for the version at any time, also  *)
(* while a server starts or serves.  There is one migration.               *)
(*                                                                         *)
(* Every connection of golang-migrate first waits for the advisory lock of *)
(* the database, to see whether its table is there; Up and Steps take the  *)
(* lock again, for fifteen seconds at most, and keep it while they work.   *)
(* The session that dies gives it back.  A command reports after the lock  *)
(* is given back, so another one may have begun by then.                   *)
(***************************************************************************)
EXTENDS Naturals

CONSTANTS
  Migrators, \* main and the runs of the migrate command
  Main,      \* the migrator that main is
  None       \* no holder of a lock

ASSUME MigrationAssumption ==
  /\ Main \in Migrators
  /\ None \notin Migrators

VARIABLES
  schema,   \* the row of golang-migrate, version 0 when there is none
  tables,   \* the tables of the migration are there
  migrator, \* what each migrator was told and where it is
  advisory, \* the migrator that has the advisory lock
  undone    \* history: who was done when another one marked the schema

migration == <<schema, tables, migrator, advisory, undone>>

Commands == {"up", "down", "version"}
Done == {"ok", "failed"}

\* "settled": the schema is as it was told, and the lock is still there;
\* "unlocked": m.Up or m.Steps has given it back, and is to return.
Working == {"locked", "marked", "run", "settled"}

MigrationTypeOK ==
  /\ schema \in [version : {0, 1}, dirty : BOOLEAN]
  /\ tables \in BOOLEAN
  /\ migrator \in [Migrators -> [command : Commands,
                                 pc : {"idle", "open", "ready", "unlocked"} \cup Working \cup Done]]
  /\ advisory \in Migrators \cup {None}
  /\ undone \subseteq Migrators

MigrationInit ==
  /\ schema = [version |-> 0, dirty |-> FALSE]
  /\ tables = FALSE
  /\ migrator = [m \in Migrators |->
       [command |-> "up", pc |-> IF m = Main THEN "open" ELSE "idle"]]
  /\ advisory = None
  /\ undone = {}

At(m, pc) == migrator[m].pc = pc
Told(m, command) == migrator[m].command = command

\* The version that a migrator leads to.
Target(m) == IF Told(m, "up") THEN 1 ELSE 0

Goes(m, pc) == migrator' = [migrator EXCEPT ![m] = [command |-> migrator[m].command, pc |-> pc]]

\* The command fails, and ends the session that may have the lock.
Fails(m) ==
  /\ Goes(m, "failed")
  /\ advisory' = IF advisory = m THEN None ELSE advisory
  /\ UNCHANGED <<schema, tables, undone>>

-----------------------------------------------------------------------------

\* Somebody runs the command, once.
RunCommand(m, command) ==
  /\ m # Main /\ At(m, "idle")
  /\ migrator' = [migrator EXCEPT ![m] = [command |-> command, pc |-> "open"]]
  /\ UNCHANGED <<schema, tables, advisory, undone>>

\* NewWithSourceInstance has had the lock.
Open(m) ==
  /\ At(m, "open")
  /\ advisory = None
  /\ Goes(m, "ready")
  /\ UNCHANGED <<schema, tables, advisory, undone>>

\* Version takes no lock, and a version that is not there is no error.
Version(m) ==
  /\ At(m, "ready") /\ Told(m, "version")
  /\ Goes(m, "ok")
  /\ UNCHANGED <<schema, tables, advisory, undone>>

Lock(m) ==
  /\ At(m, "ready") /\ ~Told(m, "version")
  /\ advisory = None
  /\ Goes(m, "locked")
  /\ advisory' = m
  /\ UNCHANGED <<schema, tables, undone>>

\* Another migrator has the lock for fifteen seconds.
LockTimesOut(m) ==
  /\ At(m, "ready") /\ ~Told(m, "version")
  /\ advisory # None
  /\ Fails(m)

\* ErrNoChange is no error of RunMigrations; below the first version there is no
\* migration to take back, which is one.  The variant takes a dirty version for
\* an applied one.
AnyVersion(m) == Told(m, "up") /\ schema.version = 1
NoChange(m) == Told(m, "up") /\ ~schema.dirty /\ schema.version = 1

UpToDate(m) ==
  /\ At(m, "locked")
  /\ NoChange(m)
  /\ Goes(m, "settled")
  /\ UNCHANGED <<schema, tables, advisory, undone>>

Impossible(m) ==
  /\ At(m, "locked")
  /\ \/ schema.dirty
     \/ Told(m, "down") /\ schema.version = 0
  /\ Fails(m)

\* SetVersion(target, dirty) before the file runs.
Mark(m) ==
  /\ At(m, "locked")
  /\ ~schema.dirty /\ schema.version # Target(m)
  /\ schema' = [version |-> Target(m), dirty |-> TRUE]
  /\ Goes(m, "marked")
  /\ undone' = undone \cup {n \in Migrators : migrator[n].pc \in {"unlocked", "ok"}}
  /\ UNCHANGED <<tables, advisory>>

\* The files of the two directions create the tables and drop them.  The variant
\* forgets a DROP TABLE.
Kept(m) == TRUE
Left(m) == Told(m, "up")

\* The file is one request to PostgreSQL and so one transaction.  CREATE TABLE
\* needs the tables not to be there; DROP TABLE IF EXISTS needs nothing.
RunFile(m) ==
  /\ At(m, "marked")
  /\ Told(m, "up") => ~tables
  /\ tables' = Left(m)
  /\ Goes(m, "run")
  /\ UNCHANGED <<schema, advisory, undone>>

\* SetVersion(target, clean).
Record(m) ==
  /\ At(m, "run")
  /\ schema' = [version |-> Target(m), dirty |-> FALSE]
  /\ Goes(m, "settled")
  /\ UNCHANGED <<tables, advisory, undone>>

Unlock(m) ==
  /\ At(m, "settled")
  /\ Goes(m, "unlocked")
  /\ advisory' = None
  /\ UNCHANGED <<schema, tables, undone>>

\* The call returns, and the command says that it has succeeded.
Report(m) ==
  /\ At(m, "unlocked")
  /\ Goes(m, "ok")
  /\ UNCHANGED <<schema, tables, advisory, undone>>

\* A call fails, the unlock among them, or the process is killed: what has taken
\* effect stays so.  A call whose answer alone was lost is its step and then this.
Break(m) ==
  /\ migrator[m].pc \notin {"idle"} \cup Done
  /\ Fails(m)

\* The steps that a migrator takes by itself.
Migrate(m) ==
  \/ Open(m) \/ Version(m) \/ Lock(m) \/ LockTimesOut(m)
  \/ UpToDate(m) \/ Impossible(m) \/ Mark(m) \/ RunFile(m) \/ Record(m)
  \/ Unlock(m) \/ Report(m)

-----------------------------------------------------------------------------

\* A version that is not dirty tells the truth about the tables, whatever broke
\* off or ran side by side before.
VersionTellsTruth == ~schema.dirty => (schema.version = 1 <=> tables)

\* The schema is what a migrator was told to make of it.
AsTold(m) ==
  /\ schema = [version |-> Target(m), dirty |-> FALSE]
  /\ tables <=> Target(m) = 1

\* What a command has reported as done is so, and stays so until another one
\* begins to change the schema, which it may do before the report: "Migrations
\* applied successfully" is never printed over half of one.
SuccessIsTrue ==
  \A m \in Migrators : At(m, "ok") /\ ~Told(m, "version") /\ m \notin undone => AsTold(m)

=============================================================================

---------------------------- MODULE ServerProcess ----------------------------
(***************************************************************************)
(* The life of a server process, as main runs it: migrate the schema, open *)
(* the connection pool, serve, and on SIGTERM drain the HTTP server, close *)
(* the pool and exit.  Requests share the pool's connections, and          *)
(* those about one stream key share the lock of its row.                   *)
(*                                                                         *)
(* The requests are the ones of three handlers that use the pool           *)
(* differently: an authentication holds a connection for a transaction     *)
(* that may wait for the row lock; a ready hook takes one for each of its  *)
(* two statements, of which the second may wait; a health check pings, and *)
(* waits two seconds for a connection.  One process runs at a time; the    *)
(* migrate command of module Migrations runs beside it.                    *)
(***************************************************************************)
EXTENDS Migrations, FiniteSets

CONSTANTS
  Requests,  \* requests, each served once
  Kind,      \* the handler of each request
  MaxConns,  \* the size of the pool
  MaxStarts  \* how often the process may be started

ASSUME ServerAssumption ==
  /\ None \notin Requests /\ IsFiniteSet(Requests)
  /\ Kind \in [Requests -> {"auth", "hook", "health"}]
  /\ MaxConns \in Nat \ {0}
  /\ MaxStarts \in Nat

VARIABLES
  server,  \* where main is, or how it ended
  drained, \* Shutdown returned without an error
  starts,  \* how often the process was started
  req,     \* where the handler of each request is
  free,    \* connections of the pool that nobody has acquired
  rowLock  \* the request whose transaction has locked the key row

vars == <<server, drained, starts, req, free, rowLock, migration>>
main == <<server, drained, starts>>
process == <<main, migration>>

\* "conn": waits for a connection; "exec": has one; "read": a ready hook has
\* looked its key up and waits for the second; "write": has the second;
\* "locked": its transaction holds the row lock; "respond": needs none any more.
Waiting == {"conn", "read"}
Holding == {"exec", "write", "locked"}
Over == {"answered", "cancelled", "killed"}
Active == Waiting \cup Holding \cup {"respond"}

Running == {"migrating", "connecting", "serving", "draining", "closing"}
Ended == {"exited", "failed", "crashed"}

TypeOK ==
  /\ MigrationTypeOK
  /\ server \in Running \cup Ended
  /\ drained \in BOOLEAN
  /\ starts \in Nat
  /\ req \in [Requests -> {"none"} \cup Active \cup Over]
  /\ free \in 0..MaxConns
  /\ rowLock \in Requests \cup {None}

Init ==
  /\ server = "migrating"
  /\ drained = FALSE
  /\ starts = 1
  /\ MigrationInit
  /\ req = [r \in Requests |-> "none"]
  /\ free = MaxConns
  /\ rowLock = None

-----------------------------------------------------------------------------
(* main, up to ListenAndServe. *)

Requested == <<req, free, rowLock>>

\* main goes on when its m.Up has returned, or stops with os.Exit(1).
MainFollows(m) ==
  server' = IF m # Main \/ migrator'[m].pc \notin Done THEN server
            ELSE IF migrator'[m].pc = "ok" THEN "connecting" ELSE "failed"

\* DROP TABLE waits for the transactions that have used the table.
Undisturbed(m) == At(m, "marked") => rowLock = None

\* What main's m.Up, or the migrate command, does next.
MigratorSteps(m) ==
  /\ m = Main => server = "migrating"
  /\ Undisturbed(m)
  /\ Migrate(m)
  /\ MainFollows(m)
  /\ UNCHANGED <<drained, starts, Requested>>

MigratorBreaks(m) ==
  /\ m = Main => server = "migrating"
  /\ Break(m)
  /\ MainFollows(m)
  /\ UNCHANGED <<drained, starts, Requested>>

CommandStarts(m) ==
  /\ \E command \in Commands : RunCommand(m, command)
  /\ UNCHANGED <<main, Requested>>

\* NewPool connects and pings, and the server begins to listen.
StartServing ==
  /\ server = "connecting"
  /\ server' = "serving"
  /\ free' = MaxConns
  /\ UNCHANGED <<drained, starts, migration, req, rowLock>>

\* The database cannot be reached, or the port is taken: os.Exit(1).
StartFails ==
  /\ server = "connecting"
  /\ server' = "failed"
  /\ UNCHANGED <<drained, starts, migration, Requested>>

-----------------------------------------------------------------------------
(* The handlers. *)

Up == server \in {"serving", "draining", "closing"}

Accept(r) ==
  /\ server = "serving"
  /\ req[r] = "none"
  /\ req' = [req EXCEPT ![r] = "conn"]
  /\ UNCHANGED <<process, free, rowLock>>

\* A closed pool gives no connection.
Acquire(r) ==
  /\ server \in {"serving", "draining"}
  /\ req[r] \in Waiting
  /\ free > 0
  /\ req' = [req EXCEPT ![r] = IF @ = "read" THEN "write" ELSE "exec"]
  /\ free' = free - 1
  /\ UNCHANGED <<process, rowLock>>

\* The pool is closed, or the ping of a health check has waited two seconds.
AcquireFails(r) ==
  /\ Up
  /\ \/ server = "closing" /\ req[r] \in Waiting
     \/ Kind[r] = "health" /\ req[r] = "conn"
  /\ req' = [req EXCEPT ![r] = "respond"]
  /\ UNCHANGED <<process, free, rowLock>>

LockRow(r) ==
  /\ Up
  /\ Kind[r] = "auth" /\ req[r] = "exec"
  /\ tables /\ rowLock = None
  /\ rowLock' = r
  /\ req' = [req EXCEPT ![r] = "locked"]
  /\ UNCHANGED <<process, free>>

\* The rest of the transaction runs on the connection that it has.  The variant
\* runs a query on the pool, which needs another one for a moment.
OnPool(r) == req[r] = "locked" /\ free > 0
OnTransaction(r) == req[r] = "locked"

Commit(r) ==
  /\ Up
  /\ OnTransaction(r)
  /\ req' = [req EXCEPT ![r] = "respond"]
  /\ rowLock' = None
  /\ free' = free + 1
  /\ UNCHANGED process

\* The ping of a health check, and the lookup of a ready hook, wait for nobody.
\* A hook whose key is not there has no second statement.
Query(r) ==
  /\ Up
  /\ Kind[r] \in {"hook", "health"} /\ req[r] = "exec"
  /\ Kind[r] = "hook" => tables
  /\ \/ Kind[r] = "hook" /\ req' = [req EXCEPT ![r] = "read"]
     \/ req' = [req EXCEPT ![r] = "respond"]
  /\ free' = free + 1
  /\ UNCHANGED <<process, rowLock>>

\* The INSERT waits for the transaction that has locked the key row.
Insert(r) ==
  /\ Up
  /\ req[r] = "write"
  /\ tables /\ rowLock = None
  /\ req' = [req EXCEPT ![r] = "respond"]
  /\ free' = free + 1
  /\ UNCHANGED <<process, rowLock>>

\* A statement fails, or finds no key to lock: a transaction is over.
StatementEndsIt(r) ==
  /\ Up
  /\ req[r] \in Holding
  /\ req' = [req EXCEPT ![r] = "respond"]
  /\ free' = free + 1
  /\ rowLock' = IF rowLock = r THEN None ELSE rowLock
  /\ UNCHANGED process

\* A rollback has dropped the tables under the running server.
NoTable(r) ==
  /\ ~tables
  /\ Kind[r] # "health" /\ req[r] \in {"exec", "write"}
  /\ StatementEndsIt(r)

Respond(r) ==
  /\ Up
  /\ req[r] = "respond"
  /\ req' = [req EXCEPT ![r] = "answered"]
  /\ UNCHANGED <<process, free, rowLock>>

\* The connections that a request gives back.  The variants forget to give one
\* back, and give one back that was never acquired.
Leak(r) == 0
GiveOne(r) == 1
GiveBack(r) == IF req[r] \in Holding THEN 1 ELSE 0

\* The client closes its connection: the request's context is cancelled, and a
\* transaction is rolled back.
Cancel(r) ==
  /\ Up
  /\ req[r] \in Active
  /\ req' = [req EXCEPT ![r] = "cancelled"]
  /\ free' = free + GiveBack(r)
  /\ rowLock' = IF rowLock = r THEN None ELSE rowLock
  /\ UNCHANGED process

-----------------------------------------------------------------------------
(* The end of main. *)

\* SIGINT or SIGTERM: the listener is closed.
Signal ==
  /\ server = "serving"
  /\ server' = "draining"
  /\ UNCHANGED <<drained, starts, migration, Requested>>

\* Shutdown waits until no connection has a request.  The variant does not.
AtOnce == TRUE
NoRequestActive == \A r \in Requests : req[r] \notin Active

DrainEnds ==
  /\ server = "draining"
  /\ NoRequestActive
  /\ server' = "closing"
  /\ drained' = TRUE
  /\ UNCHANGED <<starts, migration, Requested>>

\* Thirty seconds are over: the error is logged, and the handlers run on.
DrainTimesOut ==
  /\ server = "draining"
  /\ ~NoRequestActive
  /\ server' = "closing"
  /\ UNCHANGED <<drained, starts, migration, Requested>>

Killed == [r \in Requests |-> IF req[r] \in Active THEN "killed" ELSE req[r]]

\* pool.Close returns once every connection was given back, and main ends.
\* The variant has no pool.Close.
NoClose == TRUE
PoolIdle == free = MaxConns

Exit ==
  /\ server = "closing"
  /\ PoolIdle
  /\ server' = "exited"
  /\ req' = Killed
  /\ UNCHANGED <<drained, starts, migration, free, rowLock>>

\* The process is killed at any later point, or dies; PostgreSQL rolls back.
Crash ==
  /\ server \in Running \ {"migrating"}
  /\ server' = "crashed"
  /\ req' = Killed
  /\ free' = MaxConns
  /\ rowLock' = None
  /\ UNCHANGED <<drained, starts, migration>>

Restart ==
  /\ server \in Ended
  /\ starts < MaxStarts
  /\ server' = "migrating"
  /\ starts' = starts + 1
  /\ drained' = FALSE
  /\ migrator' = [migrator EXCEPT ![Main] = [command |-> "up", pc |-> "open"]]
  /\ undone' = undone \ {Main}
  /\ UNCHANGED <<schema, tables, advisory, Requested>>

-----------------------------------------------------------------------------

Start == StartServing \/ StartFails

Handle(r) ==
  \/ Acquire(r) \/ AcquireFails(r) \/ LockRow(r) \/ Commit(r) \/ Query(r) \/ Insert(r)
  \/ NoTable(r) \/ Respond(r)

Stop == DrainEnds \/ DrainTimesOut \/ Exit

Stopped == server \in Ended /\ starts >= MaxStarts /\ UNCHANGED vars

Next ==
  \/ \E m \in Migrators : MigratorSteps(m) \/ MigratorBreaks(m) \/ CommandStarts(m)
  \/ Start
  \/ \E r \in Requests : Accept(r) \/ Handle(r) \/ StatementEndsIt(r) \/ Cancel(r)
  \/ Signal
  \/ Stop
  \/ Crash
  \/ Restart
  \/ Stopped

Spec == Init /\ [][Next]_vars

\* Goroutines are scheduled, the pool's queue is served, and main and the
\* commands go on.
FairSpec ==
  /\ Spec
  /\ \A m \in Migrators : WF_vars(MigratorSteps(m))
  /\ WF_vars(Start) /\ WF_vars(Stop)
  /\ \A r \in Requests : WF_vars(Handle(r))

-----------------------------------------------------------------------------

\* The process serves only on a schema whose migration ran and was recorded,
\* whatever crashed or ran beside it, until somebody takes the migration back,
\* which may be as soon as main's own has given up the lock.
ServesOnlyMigrated ==
  Up => \/ Main \in undone
        \/ tables /\ schema = [version |-> 1, dirty |-> FALSE]

\* No connection of the pool is lost or given back twice.
PoolConserved ==
  server \in Running => free + Cardinality({r \in Requests : req[r] \in Holding}) = MaxConns

\* Whenever a request may have to wait, for a connection or for the row lock, one
\* request has all that its next statement needs: nobody who has the row lock
\* waits for a connection that somebody has who waits for the row lock.
SomebodyGoesOn ==
  Up /\ (free = 0 \/ rowLock # None) =>
    \E r \in Requests : IF rowLock = None THEN req[r] \in Holding
                                         ELSE rowLock = r /\ OnTransaction(r)

\* When Shutdown reports no error, the exit cuts no request off.
CleanExitCutsNobody ==
  [][server = "closing" /\ server' = "exited" /\ drained => UNCHANGED req]_vars

\* Even after a Shutdown that timed out, main does not end under a statement or
\* a transaction: a request it cuts off holds no connection.
ExitCutsNoTransaction ==
  [][server = "closing" /\ server' = "exited" =>
       \A r \in Requests : req[r] \in Holding => req'[r] # "killed"]_vars

\* The migrators change the schema one after the other, each at one moment between
\* its start and its report.  While one is between its mark and its record the
\* schema counts as the old one, and if nobody is there as broken.
Stage(m) == CASE migrator[m].pc \in Done -> migrator[m].pc
              [] migrator[m].pc \in {"settled", "unlocked"} -> "changed"
              [] OTHER -> "told"
UnderWay(m) == migrator[m].pc \in {"marked", "run"}
SchemaSeen ==
  CASE \E m \in Migrators : UnderWay(m) /\ Told(m, "up") -> "down"
    [] \E m \in Migrators : UnderWay(m) /\ Told(m, "down") -> "up"
    [] schema = [version |-> 1, dirty |-> FALSE] /\ tables -> "up"
    [] schema = [version |-> 0, dirty |-> FALSE] /\ ~tables -> "down"
    [] OTHER -> "broken"

Atomic == INSTANCE AtomicMigration WITH
  schema <- SchemaSeen,
  told <- [m \in Migrators |-> migrator[m].command],
  stage <- [m \in Migrators |-> Stage(m)]

ImplementsAtomicMigration == Atomic!AtomicSpec

\* Requests that wait for connections and for the row lock all end, however few
\* connections there are: whoever has the row lock needs nothing more.
EveryRequestEnds ==
  \A r \in Requests : req[r] = "conn" ~> req[r] \in Over

\* Every migrator comes to its end: those that wait for the advisory lock, and a
\* rollback that waits for the transactions of a running server.
EveryCommandEnds == \A m \in Migrators : At(m, "open") ~> migrator[m].pc \in Done

\* A signal ends the process, unless it crashes first.
ShutdownEnds == server = "draining" ~> server \in Ended

=============================================================================

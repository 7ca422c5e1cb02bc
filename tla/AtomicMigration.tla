--------------------------- MODULE AtomicMigration ---------------------------
(***************************************************************************)
(* What the migration promises to whoever runs it, with no version row, no *)
(* files and no locks: the schema is there or it is not, and a command     *)
(* changes it at one moment between its start and its report.  One that    *)
(* reports success has done so; one that fails has changed nothing, has    *)
(* changed all, or has broken what it was about to change.  A broken       *)
(* schema stays so: only a person repairs it.                              *)
(***************************************************************************)
CONSTANTS
  Migrators,
  Main  \* the one that only migrates up, and may be run again

VARIABLES
  schema, \* "down", "up" or "broken"
  told,   \* the command of each migrator
  stage   \* "told"; "changed", and to report; "ok" or "failed"

atomicVars == <<schema, told, stage>>

AtomicInit ==
  /\ schema = "down"
  /\ told = [m \in Migrators |-> "up"]
  /\ stage = [m \in Migrators |-> "told"]

Moves(m, from, to) == stage[m] = from /\ stage' = [stage EXCEPT ![m] = to] /\ UNCHANGED told

\* A command has something to change, from one schema to another.
Changes(m, from, to) ==
  \/ told[m] = "up" /\ from = "down" /\ to = "up"
  \/ told[m] = "down" /\ from = "up" /\ to = "down"

Tell(m, command) ==
  /\ m # Main /\ stage[m] = "told"
  /\ told' = [told EXCEPT ![m] = command]
  /\ UNCHANGED <<schema, stage>>

TakesEffect(m) ==
  /\ Moves(m, "told", "changed")
  /\ \/ Changes(m, schema, schema')
     \/ told[m] = "up" /\ schema = "up" /\ UNCHANGED schema

Succeeds(m) ==
  /\ \/ Moves(m, "changed", "ok")
     \/ told[m] = "version" /\ Moves(m, "told", "ok")
  /\ UNCHANGED schema

GivesUp(m) ==
  /\ Moves(m, "told", "failed") \/ Moves(m, "changed", "failed")
  /\ UNCHANGED schema

Breaks(m) ==
  /\ Moves(m, "told", "failed")
  /\ \E to \in {"up", "down"} : Changes(m, schema, to)
  /\ schema' = "broken"

Again ==
  /\ stage[Main] \in {"ok", "failed"}
  /\ stage' = [stage EXCEPT ![Main] = "told"]
  /\ UNCHANGED <<schema, told>>

AtomicNext ==
  \/ \E m \in Migrators : \/ \E command \in {"up", "down", "version"} : Tell(m, command)
                          \/ TakesEffect(m) \/ Succeeds(m) \/ GivesUp(m) \/ Breaks(m)
  \/ Again

AtomicSpec == AtomicInit /\ [][AtomicNext]_atomicVars

=============================================================================

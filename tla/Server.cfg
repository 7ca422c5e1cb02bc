\* Three requests on a pool of two, one restart and one migrate command.
CONSTANTS
  a1 = a1
  h1 = h1
  p1 = p1
  boot = boot
  cli = cli
  Requests = {a1, h1, p1}
  Kind <- Handlers
  MaxConns = 2
  MaxStarts = 2
  Migrators = {boot, cli}
  Main = boot
  None = None
SPECIFICATION FairSpec
INVARIANTS
  TypeOK
  VersionTellsTruth
  SuccessIsTrue
  ServesOnlyMigrated
  PoolConserved
  SomebodyGoesOn
PROPERTIES
  ImplementsAtomicMigration
  CleanExitCutsNobody
  ExitCutsNoTransaction
  EveryRequestEnds
  EveryCommandEnds
  ShutdownEnds

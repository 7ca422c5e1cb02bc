\* One client that tries twice.  A word has eight bits, a second four ticks, the
\* window is two seconds; the client starts at every tick of three seconds.
CONSTANTS
  secret = secret
  other = other
  key = key
  json = json
  edited = edited
  Requests = {r1}
  Messages <- Arriving
  Secret = secret
  EmptyBody = empty
  HalfRange = 128
  Second = 4
  UnixToInternal = 8
  MaxDrift = 8
  ReadTimeout = 3
  WriteTimeout = 3
  MaxTries = 2
  Horizon = 6
  MaxTime = 13
  None = None
SPECIFICATION FairSpec
INVARIANTS
  TypeOK
  WindowIsExact
  HandledAsSigned
  HandledWhileFresh
  DoubledOnlyInDoubt
  RoutedIsServed
PROPERTIES
  EveryRequestEnds

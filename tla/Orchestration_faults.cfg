\* two concurrent revocations, and every call may fail
SPECIFICATION Spec
CONSTANTS
  Broadcasters = {b1}
  Keys = {k1}
  OtherPaths = {}
  Conns = {c1, c2}
  None = None
  Operators = {o1, o2}
  Logins <- PathLogins
  Protocol <- Mixed
  HooksLost = TRUE
  HooksReordered = TRUE
  KicksLost = TRUE
  LongLists = TRUE
  Faults = TRUE
INVARIANT RevokeDelivers
PROPERTY RevokedIsFinal
PROPERTY ImplementsRegistry

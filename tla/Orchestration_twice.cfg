\* two publishers with one key, and nothing fails
SPECIFICATION Spec
CONSTANTS
  Broadcasters = {b1}
  Keys = {k1}
  OtherPaths = {}
  Conns = {c1, c2}
  None = None
  Operators = {}
  Logins <- PathLogins
  Protocol <- AllRtmp
  HooksLost = FALSE
  HooksReordered = FALSE
  KicksLost = FALSE
  LongLists = FALSE
  Faults = FALSE
INVARIANT OneActivationPerKey

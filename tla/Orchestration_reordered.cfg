\* one publisher whose hooks overtake each other
SPECIFICATION Spec
CONSTANTS
  Broadcasters = {b1}
  Keys = {k1}
  OtherPaths = {}
  Conns = {c1}
  None = None
  Operators = {}
  Logins <- PathLogins
  Protocol <- AllRtmp
  HooksLost = FALSE
  HooksReordered = TRUE
  KicksLost = FALSE
  LongLists = FALSE
  Faults = FALSE
INVARIANT NoStreamAfterLeaving

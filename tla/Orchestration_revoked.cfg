\* one publisher and one revocation, and nothing fails
SPECIFICATION Spec
CONSTANTS
  Broadcasters = {b1}
  Keys = {k1}
  OtherPaths = {}
  Conns = {c1}
  None = None
  Operators = {o1}
  Logins <- PathLogins
  Protocol <- AllRtmp
  HooksLost = FALSE
  HooksReordered = FALSE
  KicksLost = FALSE
  LongLists = FALSE
  Faults = FALSE
INVARIANT NoStreamOnRevokedKey

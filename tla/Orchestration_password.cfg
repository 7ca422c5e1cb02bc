\* one publisher whose key is the path or the password, and nothing fails
SPECIFICATION Spec
CONSTANTS
  Broadcasters = {b1}
  Keys = {k1}
  OtherPaths = {live}
  Conns = {c1}
  None = None
  Operators = {}
  Logins <- AllLogins
  Protocol <- AllRtmp
  HooksLost = FALSE
  HooksReordered = FALSE
  KicksLost = FALSE
  LongLists = FALSE
  Faults = FALSE
INVARIANT PublisherHasStream

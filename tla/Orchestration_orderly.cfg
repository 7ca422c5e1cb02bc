\* hooks arrive, in order, and handlers are fair
SPECIFICATION FairSpec
CONSTANTS
  Broadcasters = {b1}
  Keys = {k1}
  OtherPaths = {live}
  Conns = {c1, c2}
  None = None
  Operators = {o1}
  Logins <- AllLogins
  Protocol <- Mixed
  HooksLost = FALSE
  HooksReordered = FALSE
  KicksLost = TRUE
  LongLists = TRUE
  Faults = FALSE
INVARIANT RecordsFollowPublishers
PROPERTY LeftStreamsEnd
PROPERTY AuthEnds
PROPERTY RevokeEnds

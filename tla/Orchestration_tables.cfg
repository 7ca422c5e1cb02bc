\* two keys of a broadcaster that may be deleted
SPECIFICATION Spec
CONSTANTS
  Broadcasters = {b1}
  Keys = {k1, k2}
  OtherPaths = {live}
  Conns = {c1, c2}
  None = None
  Operators = {o1}
  Logins <- AllLogins
  Protocol <- Mixed
  HooksLost = TRUE
  HooksReordered = TRUE
  KicksLost = FALSE
  LongLists = FALSE
  Faults = TRUE
SYMMETRY KeySymmetry
INVARIANT TypeOK
INVARIANT OneActivePerKey
INVARIANT AllowStaysTrue
INVARIANT NoOrphans
INVARIANT ListedPathsDiffer
INVARIANT AdmittedWasRecorded
INVARIANT EndedOnItsPath
INVARIANT KickedPublisherIsGone
PROPERTY EndsOneStream

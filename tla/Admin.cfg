\* Two broadcasters and four concurrent requests of any kind.
CONSTANTS
  Ids = {b1, b2}
  Requests = {r1, r2, r3, r4}
  None = None
SPECIFICATION Spec
SYMMETRY AdminSymmetry
INVARIANTS
  TypeOK
  NotFoundIsFinal
  OneDeleteSucceeds
  PatchAnswerIsFresh
PROPERTIES
  LostOnlyByOverlap

\* Two writers, one of them long-lived, two keys and none, batches of two,
\* two crashes, no edit.
CONSTANTS
  w1 = w1
  w2 = w2
  k1 = k1
  k2 = k2
  e1 = e1
  e2 = e2
  Writers = {w1, w2}
  LongLived = {w1}
  Keys = {k1, k2}
  NoKey = NoKey
  Events = {e1}
  None = None
  MaxCalls = 3
  MaxBatch = 2
  MaxCrashes = 2
  MaxEdits = 0
SPECIFICATION Spec
SYMMETRY KeySymmetry
INVARIANTS
  TypeOK
  ChainHolds
  LossIsSingleAndSeen
  BatchContiguous
PROPERTIES
  TamperMeansEdited
  ImplementsEvidenceLog
CHECK_DEADLOCK FALSE

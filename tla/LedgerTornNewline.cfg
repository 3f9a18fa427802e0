\* A crash that loses only the newline of a line, and the record after it.
CONSTANTS
  w1 = w1
  w2 = w2
  k1 = k1
  k2 = k2
  e1 = e1
  e2 = e2
  Writers = {w1, w2}
  LongLived = {}
  Keys = {k1}
  NoKey = NoKey
  Events = {e1}
  None = None
  MaxCalls = 3
  MaxBatch = 1
  MaxCrashes = 1
  MaxEdits = 0
SPECIFICATION Spec
INVARIANT ReturnedStaysReadable
CHECK_DEADLOCK FALSE

\* One-shot writers (hook processes) and one edit of the file at any moment.
CONSTANTS
  w1 = w1
  w2 = w2
  k1 = k1
  k2 = k2
  e1 = e1
  e2 = e2
  Writers = {w1, w2}
  LongLived = {}
  Keys = {k1}
  NoKey = NoKey
  Events = {e1, e2}
  None = None
  MaxCalls = 3
  MaxBatch = 1
  MaxCrashes = 1
  MaxEdits = 1
SPECIFICATION FairSpec
PROPERTIES
  NeverBuriesAnEdit
  CallsEnd
CHECK_DEADLOCK FALSE

\* A seal between a writer's load() and its os.open().
CONSTANTS
  w1 = w1
  w2 = w2
  Writers = {w1, w2}
  Sealer = sealer
  None = None
  Diligent = TRUE
  MaxRecords = 2
  MaxSeals = 1
  MaxCrashes = 0
SPECIFICATION Spec
SYMMETRY WriterSymmetry
CHECK_DEADLOCK FALSE
INVARIANT LiveChainHolds

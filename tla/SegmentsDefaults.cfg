\* Two seals with the default --index.
CONSTANTS
  w1 = w1
  w2 = w2
  Writers = {w1, w2}
  Sealer = sealer
  None = None
  Diligent = FALSE
  MaxRecords = 2
  MaxSeals = 2
  MaxCrashes = 0
SPECIFICATION Spec
SYMMETRY WriterSymmetry
CHECK_DEADLOCK FALSE
INVARIANT EvidenceKept

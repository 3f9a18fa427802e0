\* Two writers and an operator who passes the index and the seal before it.
CONSTANTS
  w1 = w1
  w2 = w2
  Writers = {w1, w2}
  Sealer = sealer
  None = None
  Diligent = TRUE
  MaxRecords = 4
  MaxSeals = 2
  MaxCrashes = 2
SPECIFICATION Spec
SYMMETRY WriterSymmetry
CHECK_DEADLOCK FALSE
INVARIANTS
  TypeOK
  EvidenceKept
  SeriesHolds
  LiveFollowsSeal

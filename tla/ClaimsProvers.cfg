SPECIFICATION MCSpec
CONSTANTS
  Order <- OneClaim
  Provers = {p1, p2}
  Hooks = {h}
  Clis = {}
  Live = {}
  Controls = {}
  Texts = {"t1", "t2"}
  Procedures = {"q1"}
  Versions = {"v1", "v2"}
  MustTouch = {"t2"}
  OtherKind = {}
  Subprocess = {}
  Reaches = {"raised", "part"}
  Absent = Absent
  Deleted = Deleted
  NoText = NoText
  MaxRuns = 2
  MaxActs = 2
INVARIANTS TypeOK CitedIsProof ProvenMeansRan NarrowedOnlyByRetraction
PROPERTIES UndisturbedProofIsLive ImplementsProofStore
CHECK_DEADLOCK FALSE

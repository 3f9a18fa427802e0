\* Two overlapping calls, and one mishap: a killed hook, a recorder daemon or a seal.
CONSTANTS
  csa = csa
  evidence = evidence
  readme = readme
  t1 = t1
  t2 = t2
  Calls = {t1, t2}
  Artifacts = {csa, evidence, readme}
  Labelling <- MCLabelling
  Flags = {"credential", "csa-material"}
  Handled = {csa}
  Protected = {evidence}
  ChildTouched = {csa}
  Requests <- MCRequests
  Settings <- MCSettings
  Unnamed = Unnamed
  None = None
  MaxMishaps = 1
SPECIFICATION Spec
SYMMETRY CallSymmetry
INVARIANTS
  TypeOK
  AskedOnce
PROPERTIES
  NoEgressAfterRead
  AccumulationStops
  ResultsAreSeen
CHECK_DEADLOCK FALSE

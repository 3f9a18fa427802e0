\* A recorder daemon beside the hooks, and decisions that must be recorded.
CONSTANTS
  csa = csa
  evidence = evidence
  readme = readme
  t1 = t1
  t2 = t2
  Calls = {t1, t2}
  Artifacts = {csa, evidence, readme}
  Labelling <- MCLabelling
  Flags = {"credential", "csa-material"}
  Handled = {csa}
  Protected = {evidence}
  ChildTouched = {csa}
  Requests <- MCRequests
  Settings <- MCSettings
  Unnamed = Unnamed
  None = None
  MaxMishaps = 1
SPECIFICATION Spec
SYMMETRY CallSymmetry
PROPERTY DecisionsRecorded
CHECK_DEADLOCK FALSE

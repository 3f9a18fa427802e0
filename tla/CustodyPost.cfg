\* The installed hook_post, whose results must be recorded.
CONSTANTS
  csa = csa
  evidence = evidence
  readme = readme
  t1 = t1
  t2 = t2
  Calls = {t1, t2}
  Artifacts = {csa, evidence, readme}
  Labelling <- MCLabelling
  Flags = {"credential", "csa-material"}
  Handled = {csa}
  Protected = {evidence}
  ChildTouched = {csa}
  Requests <- MCRequests
  Settings <- MCSettings
  Unnamed = Unnamed
  None = None
  MaxMishaps = 0
SPECIFICATION Spec
SYMMETRY CallSymmetry
PROPERTY ResultsRecorded
CHECK_DEADLOCK FALSE

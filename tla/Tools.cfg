SPECIFICATION MCSpec
CONSTANTS
  Scenes = {"caiq", "delegation", "turns", "profile", "release", "tracker", "guard"}
  Claims = {"CLAIM-01", "CLAIM-21"}
  Controls = {"LOG-10", "LOG-12", "LOG-AG-01"}
  Evidences <- ClaimEvidences
  Release = "CLAIM-21"
  Negative = {"LOG-12"}
  Proposed = {"LOG-AG-01"}
  Provers = {p}
  Clerks = {k}
  Missing = Missing
  MaxSaves = 4
  MaxPasses = 2
  NoFile = NoFile
  Runners = {r}
  Scripts = {"stub", "s1"}
  Stub = "stub"
  Tests = {"t1", "t2"}
  Passing <- TestPasses
  MaxJobs = 2
  MaxEdits = 4
  Calls = {"c1", "c2", "c3"}
  Named = {"c1", "c2"}
  Own = {"c1", "c2"}
  Tool <- ToolOf
  MaxStops = 1
  Hooks = {"PreToolUse", "Stop"}
  KeychainKey = 101
  EnvKey = 102
  MaxInstalls = 4
  Files = {"cli.py", "claims.yaml"}
  Contents = {1, 2}
  Gone = 0
  AuditFindings = {"SG-HARD-018", "SG-HARD-019"}
  Filers = {f1, f2}
  Other = Other
  ListLimit = 2
  MaxIssues = 4
  MaxMoves = 2
  MaxGuards = 2
INVARIANTS
  ToolsTypeOK HandEditsStayOut ReleaseRunSuffices RanWasTested RanWasVetted
  UnclosedIsNamed RegisteredRuns LedgerStaysVerifiable BundleIsAttested TrackerKeepsUp
  GuardIsRight
CHECK_DEADLOCK FALSE

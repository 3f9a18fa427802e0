------------------------------ MODULE MCTools ------------------------------
(***************************************************************************)
(* The tools around the recorder, each in a scene of its own: they share   *)
(* no state but files that one module each describes, so a run sets one    *)
(* scene, lets its module's Next play it and leaves the others as they     *)
(* began.                                                                  *)
(*   caiq        Questionnaire   the AI-CAIQ and `attest --self`           *)
(*   delegation  Delegation      scripts that a test has to pass on first  *)
(*   turns       Turns           the reconciliation at the end of a turn   *)
(*   profile     Profile         installs, uninstalls and the chain key    *)
(*   release     Release         the release bundle                        *)
(*   tracker     Tracker         audit findings on the issue tracker       *)
(*   guard       Guard           attestations compared around a command    *)
(***************************************************************************)
EXTENDS Questionnaire, Delegation

CONSTANTS
  Scenes,                                  \* the scenes of the run
  Calls, Named, Own, Tool, MaxStops,       \* Turns
  Hooks, KeychainKey, EnvKey, MaxInstalls, \* Profile
  Files, Contents, Gone,                   \* Release
  AuditFindings, Other, ListLimit, Filers, MaxIssues,  \* Tracker
  MaxMoves, MaxGuards                      \* Guard

ASSUME TrackerAssumption == Other \notin AuditFindings /\ ListLimit \in Nat

VARIABLES
  scene,
  imported, segment, call, stop, stops, notice,
  runtime, rollback, scripts, registered, parses, keyfile, others, chained,
  served, installer, left, installs, cut,
  tree, build, bundle, verdict, edits,
  status, issues, filer, overlapped,
  facts, guard, saved, outcome, moves, guards

Turning == INSTANCE Turns
Installing == INSTANCE Profile
Bundling == INSTANCE Release
Tracking == INSTANCE Tracker
Guarding == INSTANCE Guard

ClaimEvidences ==
  [c \in Claims |-> IF c = Release THEN {"LOG-10"} ELSE {"LOG-10", "LOG-12", "LOG-AG-01"}]
TestPasses == {<<"t1", "s1">>, <<"t2", "s1">>}
ToolOf == [c \in Calls |-> IF c = "c3" THEN "Bash" ELSE "Read"]

MCInit ==
  /\ scene \in Scenes
  /\ Init /\ DelegationInit /\ Turning!Init /\ Installing!Init /\ Bundling!Init /\ Tracking!Init
  /\ Guarding!Init
  /\ scene # "release" => \A f \in Files : tree[f] = 1
  /\ scene # "tracker" => \A f \in AuditFindings : status[f] = "PRESENT"
  /\ scene # "turns" => imported
  /\ facts.bound /\ facts.resolves /\ (scene # "guard" => facts.holds = Claims)

caiq == vars
delegation == delegationvars
turns == <<imported, segment, call, stop, stops, notice>>
profile == <<runtime, rollback, scripts, registered, parses, keyfile, others, chained,
             served, installer, left, installs, cut>>
release == <<tree, build, bundle, verdict, edits>>
tracker == <<status, issues, filer, overlapped>>
guarding == <<facts, guard, saved, outcome, moves, guards>>

Rest(playing) ==
  /\ playing = scene /\ UNCHANGED scene
  /\ playing # "caiq" => UNCHANGED caiq
  /\ playing # "delegation" => UNCHANGED delegation
  /\ playing # "turns" => UNCHANGED turns
  /\ playing # "profile" => UNCHANGED profile
  /\ playing # "release" => UNCHANGED release
  /\ playing # "tracker" => UNCHANGED tracker
  /\ playing # "guard" => UNCHANGED guarding

MCNext ==
  \/ Rest("caiq") /\ Next
  \/ Rest("delegation") /\ DelegationNext
  \/ Rest("turns") /\ ~notice.under /\ Turning!Next  \* up to the one Stop's notice
  \/ Rest("profile") /\ Installing!Next
  \/ Rest("release") /\ Bundling!Next
  \/ Rest("tracker") /\ Tracking!Next
  \/ Rest("guard") /\ Guarding!Next

MCSpec ==
  MCInit /\ [][MCNext]_<<scene, caiq, delegation, turns, profile, release, tracker, guarding>>

----------------------------------------------------------------------------
(* The properties of the modules, as invariants of the scenes *)

\* Questionnaire, Delegation: every file has its type, and so has what is held of it
ToolsTypeOK == TypeOK /\ DelegationTypeOK

\* Turns: what a Stop names unclosed is what was opened and never closed, and wakes a
\* human
UnclosedIsNamed == Turning!UnclosedIsNamed

\* Profile: a registered hook finds its script whole and a runtime to import,
\* unless an installer is, or was killed, replacing them
RegisteredRuns == Installing!RegisteredRuns

\* Profile: a key that records are under is never lost
LedgerStaysVerifiable == Installing!LedgerStaysVerifiable

\* Release: a tree that matches the bundle is the one that was attested
BundleIsAttested == Bundling!BundleIsAttested

\* Tracker: one issue for each finding among those listed, and no closed one for
\* what is unsettled
TrackerKeepsUp == Tracking!TrackerKeepsUp

\* Guard: an intact verdict is that every claim, control and the goal still hold
GuardIsRight == Guarding!GuardIsRight
=============================================================================

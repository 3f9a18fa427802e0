----------------------------- MODULE ToolsProofs -----------------------------
(***************************************************************************)
(* The tools around the recorder, one after the other: what MCTools checks *)
(* of each in its own scene, proved of every scene and for every value of  *)
(* the constants.  A step of another scene leaves a tool as it was.        *)
(***************************************************************************)
EXTENDS MCTools, Sequences, FiniteSetTheorems, TLAPS

----------------------------------------------------------------------------
(* Scenes *)

toolvars == <<scene, caiq, delegation, turns, profile, release, tracker, guarding>>

\* Every tool begins as its module says.
LEMMA ToolsBegin ==
  ASSUME MCInit
  PROVE  /\ Init /\ DelegationInit /\ Turning!Init /\ Installing!Init
         /\ Bundling!Init /\ Tracking!Init /\ Guarding!Init
BY DEF MCInit

\* A step is one of each tool's own, or leaves that tool alone.
LEMMA ToolsStep ==
  ASSUME [MCNext]_toolvars
  PROVE  /\ Next \/ UNCHANGED caiq
         /\ DelegationNext \/ UNCHANGED delegation
         /\ Turning!Next \/ UNCHANGED turns
         /\ Installing!Next \/ UNCHANGED profile
         /\ Bundling!Next \/ UNCHANGED release
         /\ Tracking!Next \/ UNCHANGED tracker
         /\ Guarding!Next \/ UNCHANGED guarding
<1>1. CASE UNCHANGED toolvars
  BY <1>1 DEF toolvars
<1>2. CASE Rest("caiq") /\ Next
  BY <1>2 DEF Rest
<1>3. CASE Rest("delegation") /\ DelegationNext
  BY <1>3 DEF Rest
<1>4. CASE Rest("turns") /\ ~notice.under /\ Turning!Next
  BY <1>4 DEF Rest
<1>5. CASE Rest("profile") /\ Installing!Next
  BY <1>5 DEF Rest
<1>6. CASE Rest("release") /\ Bundling!Next
  BY <1>6 DEF Rest
<1>7. CASE Rest("tracker") /\ Tracking!Next
  BY <1>7 DEF Rest
<1>8. CASE Rest("guard") /\ Guarding!Next
  BY <1>8 DEF Rest
<1> QED BY <1>1, <1>2, <1>3, <1>4, <1>5, <1>6, <1>7, <1>8 DEF MCNext

----------------------------------------------------------------------------
(* The release bundle *)

\* What the globs may match, with its digests
Subjects == UNION {[S -> Contents \cup {Gone}] : S \in SUBSET Files}

Auditing  == [pc : {"audit"}, attested : Subjects, quiet : BOOLEAN]
Digesting == [pc : {"digest"}, attested : Subjects, audited : Subjects, quiet : BOOLEAN]
Written   == [there : {TRUE}, subject : Subjects, attested : Subjects,
              audited : Subjects, quiet : BOOLEAN]

\* What build() took while nothing was edited is the tree as it is; a bundle written so
\* has one subject; and what --verify called the bundle's is the tree.
ReleaseTypes ==
  /\ tree \in [Files -> Contents \cup {Gone}]
  /\ build \in {[pc |-> "idle"]} \cup Auditing \cup Digesting
  /\ bundle \in {[there |-> FALSE]} \cup Written
ReleaseInv ==
  /\ ReleaseTypes
  /\ build.pc # "idle" /\ build.quiet =>
       /\ build.attested = Bundling!Subject
       /\ build.pc = "digest" => build.audited = Bundling!Subject
  /\ bundle.there /\ bundle.quiet =>
       bundle.subject = bundle.attested /\ bundle.subject = bundle.audited
  /\ verdict = "matches" => bundle.there /\ bundle.subject = Bundling!Subject

\* The subject of a tree is one.
LEMMA SubjectType ==
  ASSUME ReleaseTypes
  PROVE  Bundling!Subject \in Subjects
<1> DEFINE S == {g \in Files : tree[g] # Gone}
<1>1. Bundling!Subject \in [S -> Contents \cup {Gone}] /\ S \in SUBSET Files
  BY DEF ReleaseTypes, Bundling!Subject
<1> HIDE DEF S
<1> QED BY <1>1 DEF Subjects

\* Nothing changed, nothing missing and nothing added is that the subjects are equal.
LEMMA MatchesIsEqual ==
  ASSUME ReleaseTypes, bundle.there, Bundling!Matches
  PROVE  bundle.subject = Bundling!Subject
<1>1. bundle.subject \in Subjects /\ Bundling!Subject \in Subjects
  <2>1. bundle # [there |-> FALSE]
    OBVIOUS
  <2>2. bundle \in Written
    BY <2>1 DEF ReleaseTypes
  <2> QED BY <2>2, SubjectType DEF Written
<1>2. PICK S \in SUBSET Files : bundle.subject \in [S -> Contents \cup {Gone}]
  BY <1>1 DEF Subjects
<1>3. PICK T \in SUBSET Files : Bundling!Subject \in [T -> Contents \cup {Gone}]
  BY <1>1 DEF Subjects
<1> DEFINE s == bundle.subject
           t == Bundling!Subject
<1>4. DOMAIN s = S /\ DOMAIN t = T
  BY <1>2, <1>3
<1>5. S = T /\ \A f \in S : s[f] = t[f]
  BY <1>4 DEF Bundling!Matches
<1> HIDE DEF s, t
<1>6. s = t
  BY <1>2, <1>3, <1>5 DEF s, t
<1> QED BY <1>6 DEF s, t

\* build() and --verify keep it, and an edit is noticed.
LEMMA ReleaseStep ==
  ASSUME ReleaseInv, Bundling!Next \/ UNCHANGED release
  PROVE  ReleaseInv'
<1> DEFINE subject == Bundling!Subject
<1>0. ReleaseTypes /\ subject \in Subjects
  BY SubjectType DEF ReleaseInv
<1>1. ASSUME tree' = tree PROVE Bundling!Subject' = Bundling!Subject
  BY <1>1 DEF Bundling!Subject
<1> HIDE DEF subject
<1>2. CASE Bundling!Attest
  <2>1. build' = [pc |-> "audit", attested |-> subject, quiet |-> TRUE]
        /\ UNCHANGED <<tree, bundle, verdict>>
    BY <1>2 DEF Bundling!Attest, subject
  <2>2. build' \in Auditing
    BY <1>0, <2>1 DEF Auditing
  <2>3. ReleaseTypes'
    BY <1>0, <2>1, <2>2 DEF ReleaseTypes
  <2>4. build'.attested = subject /\ build'.pc = "audit" /\ Bundling!Subject' = subject
    BY <1>1, <2>1 DEF subject
  <2> QED BY <2>1, <2>3, <2>4 DEF ReleaseInv, subject
<1>3. CASE Bundling!Audit
  <2>1. /\ build' = [pc |-> "digest", attested |-> build.attested, audited |-> subject,
                     quiet |-> build.quiet]
        /\ build.pc = "audit" /\ UNCHANGED <<tree, bundle, verdict>>
    BY <1>3 DEF Bundling!Audit, subject
  <2>2. build \in Auditing
    BY <1>0, <2>1 DEF ReleaseTypes, Digesting
  <2>3. build.attested \in Subjects /\ build.quiet \in BOOLEAN
    BY <2>2 DEF Auditing
  <2>4. build' \in Digesting
    BY <1>0, <2>1, <2>3 DEF Digesting
  <2>5. ReleaseTypes'
    BY <1>0, <2>1, <2>4 DEF ReleaseTypes
  <2>6. /\ build'.attested = build.attested /\ build'.audited = subject
        /\ build'.quiet = build.quiet /\ Bundling!Subject' = subject
    BY <1>1, <2>1 DEF subject
  <2>7. build.quiet => build.attested = subject
    BY <2>1 DEF ReleaseInv, subject
  <2> QED BY <2>1, <2>5, <2>6, <2>7 DEF ReleaseInv, subject
<1>4. CASE Bundling!WriteBundle
  <2>1. /\ build' = [pc |-> "idle"] /\ build.pc = "digest" /\ verdict' = "none" /\ tree' = tree
        /\ bundle' = [there |-> TRUE, subject |-> subject, attested |-> build.attested,
                      audited |-> build.audited, quiet |-> build.quiet]
    BY <1>4 DEF Bundling!WriteBundle, Bundling!NotBuilding, subject
  <2>2. build \in Digesting
    BY <1>0, <2>1 DEF ReleaseTypes, Auditing
  <2>3. build.attested \in Subjects /\ build.audited \in Subjects /\ build.quiet \in BOOLEAN
    BY <2>2 DEF Digesting
  <2>4. bundle' \in Written
    BY <1>0, <2>1, <2>3 DEF Written
  <2>5. ReleaseTypes'
    BY <1>0, <2>1, <2>4 DEF ReleaseTypes
  <2>6. build.quiet => build.attested = subject /\ build.audited = subject
    BY <2>1 DEF ReleaseInv, subject
  <2>7. /\ bundle'.subject = subject /\ bundle'.attested = build.attested
        /\ bundle'.audited = build.audited /\ bundle'.quiet = build.quiet /\ build'.pc = "idle"
    BY <2>1
  <2> QED BY <2>1, <2>5, <2>6, <2>7 DEF ReleaseInv
<1>5. CASE Bundling!Abandon
  <2>1. build' = [pc |-> "idle"] /\ UNCHANGED <<tree, bundle, verdict>>
    BY <1>5 DEF Bundling!Abandon, Bundling!NotBuilding
  <2>2. build'.pc = "idle" /\ ReleaseTypes'
    BY <1>0, <2>1 DEF ReleaseTypes
  <2> QED BY <1>1, <2>1, <2>2 DEF ReleaseInv
<1>6. CASE Bundling!Verify
  <2>1. /\ bundle.there /\ verdict' = IF Bundling!Matches THEN "matches" ELSE "differs"
        /\ UNCHANGED <<tree, build, bundle>>
    BY <1>6 DEF Bundling!Verify
  <2>2. verdict' = "matches" => bundle.subject = Bundling!Subject
    BY <1>0, <2>1, MatchesIsEqual
  <2> QED BY <1>1, <2>1, <2>2 DEF ReleaseInv, ReleaseTypes
<1>7. ASSUME NEW f \in Files, NEW v \in Contents \cup {Gone}, Bundling!Edit(f, v)
      PROVE  ReleaseInv'
  <2>1. /\ tree' = [tree EXCEPT ![f] = v] /\ verdict' = "none" /\ bundle' = bundle
        /\ build' = IF build = [pc |-> "idle"] THEN build ELSE [build EXCEPT !.quiet = FALSE]
    BY <1>7 DEF Bundling!Edit, Bundling!NotBuilding
  <2>2. tree' \in [Files -> Contents \cup {Gone}]
    BY <1>0, <2>1 DEF ReleaseTypes
  <2>3. CASE build = [pc |-> "idle"]
    <3>1. build' = [pc |-> "idle"] /\ build'.pc = "idle"
      BY <2>1, <2>3
    <3> QED BY <1>0, <2>1, <2>2, <3>1 DEF ReleaseInv, ReleaseTypes
  <2>4. CASE build \in Auditing
    <3>1. build # [pc |-> "idle"]
      BY <2>4 DEF Auditing
    <3>2. build' = [build EXCEPT !.quiet = FALSE]
      BY <2>1, <3>1
    <3>3. build' \in Auditing
      BY <2>4, <3>2 DEF Auditing
    <3>4. ~ build'.quiet
      BY <2>4, <3>2 DEF Auditing
    <3> QED BY <1>0, <2>1, <2>2, <3>3, <3>4 DEF ReleaseInv, ReleaseTypes
  <2>5. CASE build \in Digesting
    <3>1. build # [pc |-> "idle"]
      BY <2>5 DEF Digesting
    <3>2. build' = [build EXCEPT !.quiet = FALSE]
      BY <2>1, <3>1
    <3>3. build' \in Digesting
      BY <2>5, <3>2 DEF Digesting
    <3>4. ~ build'.quiet
      BY <2>5, <3>2 DEF Digesting
    <3> QED BY <1>0, <2>1, <2>2, <3>3, <3>4 DEF ReleaseInv, ReleaseTypes
  <2> QED BY <1>0, <2>3, <2>4, <2>5 DEF ReleaseTypes
<1>8. CASE UNCHANGED release
  BY <1>8 DEF release, ReleaseInv, ReleaseTypes, Bundling!Subject
<1> QED BY <1>2, <1>3, <1>4, <1>5, <1>6, <1>7, <1>8 DEF Bundling!Next

\* A tree that --verify calls the bundle's is, file for file, the one the attestation and
\* the audit in the bundle were made of, unless it was edited while they were taken
\* (release_bundle.py:159-164).
THEOREM BundleAlwaysAttested == MCSpec => []BundleIsAttested
<1>1. MCInit => ReleaseInv
  <2> SUFFICES ASSUME Bundling!Init PROVE ReleaseInv
    BY ToolsBegin
  <2>1. /\ build = [pc |-> "idle"] /\ bundle = [there |-> FALSE] /\ verdict = "none"
        /\ tree \in [Files -> Contents]
    BY DEF Bundling!Init, Bundling!NotBuilding, Bundling!NoBundle
  <2> QED BY <2>1 DEF ReleaseInv, ReleaseTypes
<1>2. ReleaseInv /\ [MCNext]_toolvars => ReleaseInv'
  BY ToolsStep, ReleaseStep
<1>3. ReleaseInv => BundleIsAttested
  BY DEF ReleaseInv, BundleIsAttested, Bundling!BundleIsAttested
<1> QED BY <1>1, <1>2, <1>3, PTL DEF MCSpec, toolvars

----------------------------------------------------------------------------
(* The issue tracker *)

Issue == [finding : AuditFindings \cup {Other}, state : {"OPEN", "CLOSED"}]

Resting   == {[pc |-> "idle"]}
Reading   == [pc : {"plan", "absent"}, rows : SUBSET AuditFindings]
Filing    == [pc : {"file"}, todo : SUBSET AuditFindings]
Closing   == [pc : {"close"}, todo : SUBSET Nat]

\* No predicate settles f.
Unsettled(f) == status[f] = "DYNAMIC"

TrackerTypes ==
  /\ status \in [AuditFindings -> Tracking!Statuses]
  /\ issues \in Seq(Issue)
  /\ filer \in [Filers -> Resting \cup Reading \cup Filing \cup Closing]

\* As many issues as gh lists, or more, hide those of f.
Hidden(f) ==
  \A i \in DOMAIN issues : issues[i].finding = f => i + ListLimit <= Len(issues)

\* Nothing that a run is to file has an issue that gh lists, unless runs overlapped, and
\* what it is to close, or has read as absent, is a finding, and not unsettled.
RunRight(q) ==
  /\ filer[q].pc = "file" /\ ~ overlapped => \A f \in filer[q].todo : Hidden(f)
  /\ filer[q].pc = "absent" => \A f \in filer[q].rows : ~ Unsettled(f)
  /\ filer[q].pc = "close" => \A i \in filer[q].todo :
       i \in DOMAIN issues /\ issues[i].finding # Other /\ ~ Unsettled(issues[i].finding)
OneFiles == \A p, q \in Filers : filer[p].pc = "file" /\ filer[q].pc = "file" => p = q
FarApart ==
  \A i, j \in DOMAIN issues :
    i < j /\ issues[i].finding = issues[j].finding /\ issues[i].finding # Other
      => j - i > ListLimit
ClosedSettled ==
  \A i \in DOMAIN issues : issues[i].state = "CLOSED" =>
    issues[i].finding # Other /\ ~ Unsettled(issues[i].finding)

TrackerInv ==
  /\ TrackerTypes /\ ClosedSettled
  /\ \A q \in Filers : RunRight(q)
  /\ ~ overlapped => OneFiles /\ FarApart

\* What a filer holds has the fields of its place.
LEMMA FilerFields ==
  ASSUME TrackerTypes, NEW q \in Filers
  PROVE  /\ filer[q].pc = "file" => filer[q] \in Filing
         /\ filer[q].pc \in {"plan", "absent"} => filer[q] \in Reading
         /\ filer[q].pc = "close" => filer[q] \in Closing
<1>1. filer[q] \in Resting \cup Reading \cup Filing \cup Closing
  BY DEF TrackerTypes
<1>2. CASE filer[q] \in Resting
  BY <1>2 DEF Resting
<1>3. CASE filer[q] \in Reading
  BY <1>3 DEF Reading
<1>4. CASE filer[q] \in Filing
  BY <1>4 DEF Filing
<1>5. CASE filer[q] \in Closing
  BY <1>5 DEF Closing
<1> QED BY <1>1, <1>2, <1>3, <1>4, <1>5

\* What gh does not list has no issue among the newest.
LEMMA NotListed ==
  ASSUME TrackerTypes, NEW f, f \notin Tracking!Titles
  PROVE  Hidden(f)
<1>1. Len(issues) \in Nat /\ DOMAIN issues = 1 .. Len(issues)
  BY DEF TrackerTypes
<1> QED BY <1>1, TrackerAssumption DEF Hidden, Tracking!Titles, Tracking!Listed

\* A step of q that neither files nor closes, nor changes a finding.
LEMMA HoldStep ==
  ASSUME TrackerInv, NEW q \in Filers, NEW new \in Resting \cup Reading \cup Filing \cup Closing,
         filer' = [filer EXCEPT ![q] = new], status' = status, issues' = issues,
         ~ overlapped' => ~ overlapped,
         RunRight(q)',
         new.pc = "file" /\ ~ overlapped' => \A p \in Filers \ {q} : filer[p].pc # "file"
  PROVE  TrackerInv'
<1>1. TrackerTypes'
  BY DEF TrackerInv, TrackerTypes
<1>2. ClosedSettled' /\ (~ overlapped' => FarApart')
  BY DEF TrackerInv, ClosedSettled, Unsettled, FarApart
<1>3. ASSUME NEW p \in Filers \ {q} PROVE filer'[p] = filer[p] /\ RunRight(p)'
  <2>1. filer'[p] = filer[p]
    BY DEF TrackerInv, TrackerTypes
  <2>2. RunRight(p)
    BY DEF TrackerInv
  <2> QED BY <2>1, <2>2 DEF RunRight, Unsettled, Hidden
<1>4. filer'[q] = new
  BY DEF TrackerInv, TrackerTypes
<1>5. ~ overlapped' => OneFiles'
  BY <1>3, <1>4 DEF TrackerInv, OneFiles
<1> QED BY <1>1, <1>2, <1>3, <1>5 DEF TrackerInv

\* A run that files: one new issue, for what had none that gh lists.
LEMMA CreateStep ==
  ASSUME TrackerInv, NEW q \in Filers, NEW f \in AuditFindings, Tracking!Create(q, f)
  PROVE  TrackerInv'
<1> DEFINE e == [finding |-> f, state |-> "OPEN"]
           ahead == [pc |-> "file", todo |-> filer[q].todo \ {f}]
<1>1. /\ filer[q] \in Filing /\ filer[q].pc = "file" /\ filer[q].todo \in SUBSET AuditFindings
      /\ f \in filer[q].todo
  BY FilerFields DEF Tracking!Create, TrackerInv, Filing
<1>2. /\ issues' = Append(issues, e) /\ status' = status /\ overlapped' = overlapped
      /\ \/ filer' = [filer EXCEPT ![q] = ahead]
         \/ filer' = [filer EXCEPT ![q] = [pc |-> "idle"]]
  <2>1. [filer[q] EXCEPT !.todo = @ \ {f}] = ahead
    BY <1>1 DEF Filing
  <2> QED BY <2>1 DEF Tracking!Create, Tracking!Hold, Tracking!Idle
<1>3. e \in Issue /\ e.finding = f /\ e.state = "OPEN"
  BY DEF Issue
<1>4. ahead \in Filing /\ ahead.pc = "file" /\ ahead.todo = filer[q].todo \ {f}
  BY <1>1 DEF Filing
<1>5. issues \in Seq(Issue) /\ Len(issues) \in Nat /\ DOMAIN issues = 1 .. Len(issues)
  BY DEF TrackerInv, TrackerTypes
<1> HIDE DEF e, ahead
<1> DEFINE n == Len(issues) + 1
<1>6. /\ issues' \in Seq(Issue) /\ DOMAIN issues' = DOMAIN issues \cup {n} /\ issues'[n] = e
      /\ n \notin DOMAIN issues /\ \A i \in DOMAIN issues : issues'[i] = issues[i]
  BY <1>2, <1>3, <1>5
<1>7. \A g \in AuditFindings \ {f} : Hidden(g) => Hidden(g)'
  BY <1>2, <1>3, <1>5, <1>6, TrackerAssumption DEF Hidden
<1>16. n = Len(issues) + 1
  OBVIOUS
<1> HIDE DEF n
<1>8. filer'[q] = ahead \/ filer'[q] = [pc |-> "idle"]
  BY <1>2 DEF TrackerInv, TrackerTypes
<1>9. \A p \in Filers \ {q} : filer'[p] = filer[p]
  BY <1>2 DEF TrackerInv, TrackerTypes
<1>10. TrackerTypes'
  <2>1. ahead \in Resting \cup Reading \cup Filing \cup Closing
        /\ [pc |-> "idle"] \in Resting \cup Reading \cup Filing \cup Closing
    BY <1>4 DEF Resting
  <2> QED BY <1>2, <1>6, <2>1 DEF TrackerInv, TrackerTypes
<1>11. ClosedSettled'
  BY <1>2, <1>3, <1>6 DEF TrackerInv, ClosedSettled, Unsettled
<1>12. RunRight(q)'
  <2>1. CASE filer'[q] = ahead
    <3>1. ~ overlapped => \A g \in filer[q].todo : Hidden(g)
      BY <1>1 DEF TrackerInv, RunRight
    <3> QED BY <1>1, <1>2, <1>4, <1>7, <2>1, <3>1 DEF RunRight
  <2>2. CASE filer'[q] = [pc |-> "idle"]
    <3>1. filer'[q].pc = "idle"
      BY <2>2
    <3> QED BY <3>1 DEF RunRight
  <2> QED BY <1>8, <2>1, <2>2
<1>13. ASSUME NEW p \in Filers \ {q} PROVE RunRight(p)'
  <2>1. RunRight(p)
    BY DEF TrackerInv
  <2>2. ~ overlapped => filer[p].pc # "file"
    BY <1>1 DEF TrackerInv, OneFiles
  <2> QED BY <1>2, <1>6, <1>9, <2>1, <2>2 DEF RunRight, Unsettled
<1>14. ~ overlapped' => OneFiles'
  BY <1>1, <1>2, <1>9 DEF TrackerInv, OneFiles
<1>15. ~ overlapped' => FarApart'
  <2> SUFFICES ASSUME ~ overlapped PROVE FarApart'
    BY <1>2
  <2>1. \A i \in DOMAIN issues : issues[i].finding = f => i + ListLimit <= Len(issues)
    BY <1>1 DEF TrackerInv, RunRight, Hidden
  <2>2. \A i \in DOMAIN issues : i \in Nat /\ i < n
    BY <1>5, <1>16
  <2>3. \A i \in DOMAIN issues : issues[i].finding = f => n - i > ListLimit
    BY <1>5, <1>16, <2>1, <2>2, TrackerAssumption
  <2>4. n \in Nat
    BY <1>5, <1>16
  <2> SUFFICES ASSUME NEW i \in DOMAIN issues', NEW j \in DOMAIN issues', i < j,
                      issues'[i].finding = issues'[j].finding, issues'[i].finding # Other
               PROVE  j - i > ListLimit
    BY DEF FarApart
  <2>5. i \in DOMAIN issues /\ issues'[i] = issues[i]
    BY <1>6, <2>2, <2>4
  <2>6. CASE j = n
    BY <1>3, <1>6, <2>3, <2>5, <2>6
  <2>7. CASE j \in DOMAIN issues
    BY <1>6, <2>5, <2>7 DEF TrackerInv, FarApart
  <2> QED BY <1>6, <2>6, <2>7
<1> QED BY <1>10, <1>11, <1>12, <1>13, <1>14, <1>15 DEF TrackerInv

\* A run that closes what its predicate settled.
LEMMA CloseStep ==
  ASSUME TrackerInv, NEW q \in Filers, NEW i \in DOMAIN issues, Tracking!Close(q, i)
  PROVE  TrackerInv'
<1> DEFINE ahead == [pc |-> "close", todo |-> filer[q].todo \ {i}]
<1>1. /\ filer[q] \in Closing /\ filer[q].pc = "close" /\ filer[q].todo \in SUBSET Nat
      /\ i \in filer[q].todo
  BY FilerFields DEF Tracking!Close, TrackerInv, Closing
<1>2. filer' = [filer EXCEPT ![q] = ahead] /\ status' = status /\ overlapped' = overlapped
  <2>1. [filer[q] EXCEPT !.todo = @ \ {i}] = ahead
    BY <1>1 DEF Closing
  <2> QED BY <2>1 DEF Tracking!Close, Tracking!Hold
<1>3. ahead \in Closing /\ ahead.pc = "close" /\ ahead.todo = filer[q].todo \ {i}
  BY <1>1 DEF Closing
<1> HIDE DEF ahead
<1>4. issues' \in Seq(Issue) /\ DOMAIN issues' = DOMAIN issues
      /\ \A j \in DOMAIN issues : /\ issues'[j].finding = issues[j].finding
                                  /\ j # i => issues'[j] = issues[j]
  <2>1. issues \in Seq(Issue)
    BY DEF TrackerInv, TrackerTypes
  <2>2. issues[i] \in Issue
    BY <2>1
  <2> DEFINE c == [finding |-> issues[i].finding, state |-> "CLOSED"]
  <2>3. c \in Issue /\ c.finding = issues[i].finding /\ [issues[i] EXCEPT !.state = "CLOSED"] = c
    BY <2>2 DEF Issue
  <2>4. issues' = issues \/ issues' = [issues EXCEPT ![i] = c]
    BY <2>3 DEF Tracking!Close
  <2> HIDE DEF c
  <2> QED BY <2>1, <2>2, <2>3, <2>4
<1>5. \A f \in AuditFindings : Hidden(f) => Hidden(f)'
  <2>1. issues \in Seq(Issue) /\ Len(issues) \in Nat /\ Len(issues') \in Nat
    BY <1>4 DEF TrackerInv, TrackerTypes
  <2>2. Len(issues') = Len(issues)
    BY <1>4, <2>1
  <2> QED BY <1>4, <2>2 DEF Hidden
<1>6. TrackerTypes'
  BY <1>2, <1>3, <1>4 DEF TrackerInv, TrackerTypes
<1>7. ~ Unsettled(issues[i].finding) /\ issues[i].finding # Other
  BY <1>1 DEF TrackerInv, RunRight
<1>8. ClosedSettled'
  BY <1>2, <1>4, <1>7 DEF TrackerInv, ClosedSettled, Unsettled
<1>9. filer'[q] = ahead /\ \A p \in Filers \ {q} : filer'[p] = filer[p]
  BY <1>2 DEF TrackerInv, TrackerTypes
<1>10. RunRight(q)'
  BY <1>1, <1>2, <1>3, <1>4, <1>9 DEF TrackerInv, RunRight, Unsettled
<1>11. ASSUME NEW p \in Filers \ {q} PROVE RunRight(p)'
  <2>1. filer[p].pc = "file" => filer[p].todo \subseteq AuditFindings
    BY FilerFields DEF TrackerInv, Filing
  <2> QED BY <1>2, <1>4, <1>5, <1>9, <2>1 DEF TrackerInv, RunRight, Unsettled
<1>12. ~ overlapped' => OneFiles' /\ FarApart'
  BY <1>2, <1>3, <1>4, <1>9 DEF TrackerInv, OneFiles, FarApart
<1> QED BY <1>6, <1>8, <1>10, <1>11, <1>12 DEF TrackerInv

\* Another's issue hides what was hidden, and has no finding.
LEMMA OpenOtherStep ==
  ASSUME TrackerInv, Tracking!OpenOther
  PROVE  TrackerInv'
<1> DEFINE e == [finding |-> Other, state |-> "OPEN"]
           n == Len(issues) + 1
<1>1. issues' = Append(issues, e) /\ UNCHANGED <<status, filer, overlapped>>
  BY DEF Tracking!OpenOther
<1>2. e \in Issue /\ e.finding = Other /\ e.state = "OPEN"
  BY DEF Issue
<1>3. issues \in Seq(Issue) /\ Len(issues) \in Nat /\ DOMAIN issues = 1 .. Len(issues)
  BY DEF TrackerInv, TrackerTypes
<1> HIDE DEF e
<1>4. /\ issues' \in Seq(Issue) /\ DOMAIN issues' = DOMAIN issues \cup {n} /\ issues'[n] = e
      /\ n \notin DOMAIN issues /\ \A i \in DOMAIN issues : issues'[i] = issues[i]
      /\ Len(issues') = n
  BY <1>1, <1>2, <1>3
<1>5. \A f \in AuditFindings : Hidden(f) => Hidden(f)'
  BY <1>2, <1>3, <1>4, TrackerAssumption DEF Hidden
<1> HIDE DEF n
<1>6. TrackerTypes'
  BY <1>1, <1>4 DEF TrackerInv, TrackerTypes
<1>7. ClosedSettled'
  BY <1>1, <1>2, <1>4 DEF TrackerInv, ClosedSettled, Unsettled
<1>8. ASSUME NEW q \in Filers PROVE RunRight(q)'
  <2>1. filer[q].pc = "file" => filer[q].todo \subseteq AuditFindings
    BY FilerFields DEF TrackerInv, Filing
  <2> QED BY <1>1, <1>4, <1>5, <2>1 DEF TrackerInv, RunRight, Unsettled
<1>9. ~ overlapped' => OneFiles' /\ FarApart'
  BY <1>1, <1>2, <1>4 DEF TrackerInv, OneFiles, FarApart
<1> QED BY <1>6, <1>7, <1>8, <1>9 DEF TrackerInv

\* A fix, or its loss, settles what was settled and nothing else.
LEMMA ChangeStep ==
  ASSUME TrackerInv, NEW f \in AuditFindings, Tracking!Change(f)
  PROVE  TrackerInv'
<1>1. /\ UNCHANGED <<issues, filer, overlapped>>
      /\ status' = [status EXCEPT ![f] = IF @ = "ABSENT" THEN "PRESENT" ELSE "ABSENT"]
      /\ status[f] # "DYNAMIC"
  BY DEF Tracking!Change
<1>2. TrackerTypes'
  BY <1>1 DEF TrackerInv, TrackerTypes, Tracking!Statuses
<1>3. \A g \in AuditFindings : Unsettled(g)' <=> Unsettled(g)
  BY <1>1 DEF TrackerInv, TrackerTypes, Unsettled
<1>4. \A i \in DOMAIN issues : issues[i].finding \in AuditFindings \cup {Other}
  <2>1. \A i \in DOMAIN issues : issues[i] \in Issue
    BY DEF TrackerInv, TrackerTypes
  <2> QED BY <2>1 DEF Issue
<1>5. ClosedSettled'
  BY <1>1, <1>3, <1>4 DEF TrackerInv, ClosedSettled
<1>6. ASSUME NEW q \in Filers PROVE RunRight(q)'
  <2>2. filer[q].pc = "absent" => filer[q].rows \subseteq AuditFindings
    BY FilerFields DEF TrackerInv, Reading
  <2>3. RunRight(q)
    BY DEF TrackerInv
  <2> QED BY <1>1, <1>3, <1>4, <2>2, <2>3 DEF RunRight, Hidden
<1>7. ~ overlapped' => OneFiles' /\ FarApart'
  BY <1>1 DEF TrackerInv, OneFiles, FarApart
<1> QED BY <1>2, <1>5, <1>6, <1>7 DEF TrackerInv

\* Each step of a run of the script, and each fix or regression, keeps it.
LEMMA TrackerStep ==
  ASSUME TrackerInv, Tracking!Next \/ UNCHANGED tracker
  PROVE  TrackerInv'
<1> DEFINE Held == Resting \cup Reading \cup Filing \cup Closing
<1>1. ASSUME NEW q \in Filers, Tracking!Plan(q) \/ Tracking!Absent(q) PROVE TrackerInv'
  <2>1. PICK new : /\ filer' = [filer EXCEPT ![q] = new]
                   /\ new \in Reading /\ (new.pc = "absent" => \A f \in new.rows : ~ Unsettled(f))
                   /\ UNCHANGED <<status, issues, overlapped>>
    <3>1. CASE Tracking!Plan(q)
      <4> DEFINE rows == {f \in AuditFindings : status[f] # "ABSENT"}
                 new == [pc |-> "plan", rows |-> rows]
      <4>1. new \in Reading /\ new.pc = "plan"
        BY DEF Reading
      <4>2. filer' = [filer EXCEPT ![q] = new] /\ UNCHANGED <<status, issues, overlapped>>
        BY <3>1 DEF Tracking!Plan, Tracking!Hold
      <4> HIDE DEF new
      <4> QED BY <4>1, <4>2
    <3>2. CASE Tracking!Absent(q)
      <4> DEFINE rows == {f \in AuditFindings : status[f] = "ABSENT"}
                 new == [pc |-> "absent", rows |-> rows]
      <4>1. new \in Reading /\ new.pc = "absent" /\ \A f \in new.rows : ~ Unsettled(f)
        BY DEF Reading, Unsettled
      <4>2. filer' = [filer EXCEPT ![q] = new] /\ UNCHANGED <<status, issues, overlapped>>
        BY <3>2 DEF Tracking!Absent, Tracking!Hold
      <4> HIDE DEF new
      <4> QED BY <4>1, <4>2
    <3> QED BY <1>1, <3>1, <3>2
  <2>2. new.pc \in {"plan", "absent"}
    BY <2>1 DEF Reading
  <2>3. filer'[q] = new
    BY <2>1 DEF TrackerInv, TrackerTypes
  <2>4. RunRight(q)'
    BY <2>1, <2>2, <2>3 DEF RunRight, Unsettled
  <2> QED BY <2>1, <2>2, <2>4, HoldStep
<1>2. ASSUME NEW q \in Filers, Tracking!List(q) PROVE TrackerInv'
  <2> DEFINE new == [pc |-> "file", todo |-> filer[q].rows \ Tracking!Titles]
  <2>1. /\ filer' = [filer EXCEPT ![q] = new] /\ UNCHANGED <<status, issues>>
        /\ overlapped' = (overlapped \/ \E p \in Filers : filer[p].pc = "file")
    BY <1>2 DEF Tracking!List, Tracking!Hold
  <2>2. filer[q].rows \subseteq AuditFindings
    BY <1>2, FilerFields DEF Tracking!List, TrackerInv, Reading
  <2>3. new \in Filing /\ new.pc = "file" /\ \A f \in new.todo : Hidden(f)
    BY <2>2, NotListed DEF Filing, TrackerInv
  <2>4. \A f : Hidden(f)' <=> Hidden(f)
    BY <2>1 DEF Hidden
  <2> HIDE DEF new
  <2>5. filer'[q] = new
    BY <2>1 DEF TrackerInv, TrackerTypes
  <2>6. RunRight(q)'
    BY <2>3, <2>4, <2>5 DEF RunRight
  <2>7. ~ overlapped' => ~ overlapped /\ \A p \in Filers : filer[p].pc # "file"
    BY <2>1
  <2>8. PICK n : n = new
    OBVIOUS
  <2> QED BY <2>1, <2>3, <2>6, <2>7, <2>8, HoldStep
<1>3. ASSUME NEW q \in Filers, Tracking!ListNumbers(q) PROVE TrackerInv'
  <2> DEFINE new == [pc |-> "close",
                     todo |-> {i \in Tracking!Numbers : /\ issues[i].finding \in filer[q].rows
                                                        /\ issues[i].state = "OPEN"}]
  <2>1. filer' = [filer EXCEPT ![q] = new] /\ UNCHANGED <<status, issues, overlapped>>
    BY <1>3 DEF Tracking!ListNumbers, Tracking!Hold
  <2>2. Tracking!Numbers \subseteq DOMAIN issues /\ DOMAIN issues \subseteq Nat
    BY DEF Tracking!Numbers, Tracking!Listed, TrackerInv, TrackerTypes
  <2>3. \A f \in filer[q].rows : f # Other /\ ~ Unsettled(f)
    BY <1>3, FilerFields, TrackerAssumption
    DEF TrackerInv, RunRight, Tracking!ListNumbers, Reading
  <2>4. /\ new \in Closing /\ new.pc = "close"
        /\ \A i \in new.todo :
             i \in DOMAIN issues /\ issues[i].finding # Other /\ ~ Unsettled(issues[i].finding)
    BY <2>2, <2>3 DEF Closing
  <2> HIDE DEF new
  <2>5. filer'[q] = new
    BY <2>1 DEF TrackerInv, TrackerTypes
  <2>6. RunRight(q)'
    BY <2>1, <2>4, <2>5 DEF RunRight, Unsettled
  <2>7. PICK n : n = new
    OBVIOUS
  <2> QED BY <2>1, <2>4, <2>6, <2>7, HoldStep
<1>4. ASSUME NEW q \in Filers, Tracking!Leave(q) PROVE TrackerInv'
  <2>1. filer' = [filer EXCEPT ![q] = [pc |-> "idle"]] /\ UNCHANGED <<status, issues, overlapped>>
    BY <1>4 DEF Tracking!Leave, Tracking!Hold, Tracking!Idle
  <2> DEFINE new == [pc |-> "idle"]
  <2>2. new \in Resting /\ new.pc = "idle" /\ filer'[q] = new
    BY <2>1 DEF Resting, TrackerInv, TrackerTypes
  <2> HIDE DEF new
  <2>3. RunRight(q)'
    BY <2>2 DEF RunRight
  <2> QED BY <2>1, <2>2, <2>3, HoldStep DEF new
<1>5. ASSUME NEW q \in Filers, NEW f \in AuditFindings, Tracking!CreateFails(q, f) PROVE TrackerInv'
  <2> DEFINE new == [pc |-> "file", todo |-> filer[q].todo \ {f}]
  <2>1. filer[q] \in Filing /\ filer[q].pc = "file" /\ filer[q].todo \subseteq AuditFindings
    BY <1>5, FilerFields DEF Tracking!CreateFails, TrackerInv, Filing
  <2>2. [filer[q] EXCEPT !.todo = @ \ {f}] = new
    BY <2>1 DEF Filing
  <2>3. filer' = [filer EXCEPT ![q] = new] /\ UNCHANGED <<status, issues, overlapped>>
    BY <1>5, <2>2 DEF Tracking!CreateFails, Tracking!Hold
  <2>4. new \in Filing /\ new.pc = "file" /\ new.todo \subseteq filer[q].todo
    BY <2>1 DEF Filing
  <2> HIDE DEF new
  <2>5. filer'[q] = new
    BY <2>3 DEF TrackerInv, TrackerTypes
  <2>6. ~ overlapped => \A g \in filer[q].todo : Hidden(g)
    BY <2>1 DEF TrackerInv, RunRight
  <2>7. RunRight(q)'
    BY <2>3, <2>4, <2>5, <2>6 DEF RunRight, Hidden
  <2>8. ~ overlapped => \A p \in Filers \ {q} : filer[p].pc # "file"
    BY <2>1 DEF TrackerInv, OneFiles
  <2>9. PICK n : n = new
    OBVIOUS
  <2> QED BY <2>3, <2>4, <2>7, <2>8, <2>9, HoldStep
<1>6. CASE UNCHANGED tracker
  BY <1>6 DEF tracker, TrackerInv, TrackerTypes, ClosedSettled, Unsettled, RunRight, OneFiles,
     FarApart, Hidden
<1> QED BY <1>1, <1>2, <1>3, <1>4, <1>5, <1>6, CreateStep, CloseStep, ChangeStep,
  OpenOtherStep DEF Tracking!Next

\* However often the script is run, killed, timed out or interleaved with fixes,
\* regressions and other people's issues, and unless two runs file at once, a finding gets
\* another issue only when more issues than gh lists have hidden the one it has, and only a
\* finding that a predicate settles has its issue closed (file_audit_issues.py).
THEOREM TrackerAlwaysKeepsUp == MCSpec => []TrackerKeepsUp
<1>1. MCInit => TrackerInv
  <2> SUFFICES ASSUME Tracking!Init PROVE TrackerInv
    BY ToolsBegin
  <2>1. /\ status \in [AuditFindings -> Tracking!Statuses] /\ issues = << >>
        /\ filer = [q \in Filers |-> [pc |-> "idle"]]
    BY DEF Tracking!Init, Tracking!Statuses, Tracking!Idle
  <2>2. \A q \in Filers : filer[q].pc = "idle" /\ filer[q] \in Resting
    BY <2>1 DEF Resting
  <2>3. TrackerTypes
    BY <2>1, <2>2 DEF TrackerTypes
  <2> QED BY <2>1, <2>2, <2>3 DEF TrackerInv, ClosedSettled, RunRight, OneFiles, FarApart
<1>2. TrackerInv /\ [MCNext]_toolvars => TrackerInv'
  BY ToolsStep, TrackerStep
<1>3. TrackerInv => TrackerKeepsUp
  BY DEF TrackerInv, ClosedSettled, FarApart, Unsettled, TrackerKeepsUp, Tracking!TrackerKeepsUp
<1> QED BY <1>1, <1>2, <1>3, PTL DEF MCSpec, toolvars

----------------------------------------------------------------------------
(* The guard *)

\* An attestation, as the facts that were read first and last
Attestation == [first : Guarding!Facts, last : Guarding!Facts]
Before      == Attestation \cup {Missing}
Modes       == {"save", "against", "run"}

Unguarded == {[pc |-> "idle"]}
Waiting   == [pc : {"command", "first"}, mode : Modes, before : Before]
Halfway   == [pc : {"last"}, mode : Modes, before : Before, read : Guarding!Facts]
Verdict   == [intact : BOOLEAN, before : Attestation, after : Attestation]

\* What the verdict compared is two attestations.
GuardInv ==
  /\ facts \in Guarding!Facts
  /\ guard \in Unguarded \cup Waiting \cup Halfway
  /\ saved \in Before
  /\ outcome # Missing =>
       /\ outcome \in Verdict
       /\ outcome.intact <=> Guarding!Compare(Guarding!Snapshot(outcome.before),
                                              Guarding!Snapshot(outcome.after))

\* The fields of what attest_self() found
LEMMA FactFields ==
  ASSUME NEW f \in Guarding!Facts
  PROVE  /\ f.listed \subseteq Claims /\ f.holds \subseteq Claims
         /\ f.untested \subseteq Claims /\ f.objected \subseteq Claims
         /\ f.intact \in BOOLEAN /\ f.keyed \in BOOLEAN
         /\ f.bound \in BOOLEAN /\ f.resolves \in BOOLEAN
BY DEF Guarding!Facts

\* snapshot_of() says what was proven, for which controls, and what else held.
LEMMA SnapshotFields ==
  ASSUME NEW a
  PROVE  /\ Guarding!Snapshot(a).proven = Guarding!ProvenRows(a.first)
         /\ Guarding!Snapshot(a).controls = Guarding!ControlsOf(a)
         /\ Guarding!Snapshot(a).holding =
              {x \in {"intact", "keyed", "bound", "filled", "goal"} :
                 \/ x = "intact" /\ a.first.intact
                 \/ x = "keyed" /\ a.first.keyed
                 \/ x = "bound" /\ a.last.bound
                 \/ x = "filled" /\ Guarding!Filled(a)
                 \/ x = "goal" /\ Guarding!GoalMet(a)}
BY DEF Guarding!Snapshot

\* Claims that hold go on holding where nothing is worse.
LEMMA ProvenMonotone ==
  ASSUME NEW f \in Guarding!Facts, NEW g \in Guarding!Facts, Guarding!NoWorse(f, g)
  PROVE  Guarding!ProvenRows(f) \subseteq Guarding!ProvenRows(g)
BY DEF Guarding!NoWorse, Guarding!ProvenRows

\* compare() passes nothing that was lost.
LEMMA IntactLosesNothing ==
  ASSUME NEW b \in Attestation, NEW a \in Attestation,
         Guarding!Compare(Guarding!Snapshot(b), Guarding!Snapshot(a))
  PROVE  /\ \A c \in Claims : c \in Guarding!ProvenRows(b.first) => c \in Guarding!ProvenRows(a.first)
         /\ \A x \in Controls :
              (\E c \in b.last.listed \cap Guarding!ProvenRows(b.first) : x \in Evidences[c])
                => (\E c \in a.last.listed \cap Guarding!ProvenRows(a.first) : x \in Evidences[c])
         /\ Guarding!GoalMet(b) => Guarding!GoalMet(a)
<1>1. /\ Guarding!ProvenRows(b.first) \subseteq Guarding!ProvenRows(a.first)
      /\ Guarding!ControlsOf(b) \subseteq Guarding!ControlsOf(a)
      /\ Guarding!Snapshot(b).holding \subseteq Guarding!Snapshot(a).holding
  BY SnapshotFields DEF Guarding!Compare
<1>2. Guarding!GoalMet(b) => Guarding!GoalMet(a)
  <2>1. Guarding!GoalMet(b) => "goal" \in Guarding!Snapshot(b).holding
    BY SnapshotFields
  <2>2. "goal" \in Guarding!Snapshot(a).holding => Guarding!GoalMet(a)
    BY SnapshotFields
  <2> QED BY <1>1, <2>1, <2>2
<1>3. ASSUME NEW x \in Controls,
             \E c \in b.last.listed \cap Guarding!ProvenRows(b.first) : x \in Evidences[c]
      PROVE  \E c \in a.last.listed \cap Guarding!ProvenRows(a.first) : x \in Evidences[c]
  <2>1. x \in Guarding!ControlsOf(b)
    BY <1>3 DEF Guarding!ControlsOf
  <2>2. x \in Guarding!ControlsOf(a)
    BY <1>1, <2>1
  <2> QED BY <2>2 DEF Guarding!ControlsOf
<1> QED BY <1>1, <1>2, <1>3

\* compare() objects to nothing where no fact is worse.
LEMMA NoWorseIsIntact ==
  ASSUME NEW b \in Attestation, NEW a \in Attestation,
         Guarding!NoWorse(b.first, a.first), Guarding!NoWorse(b.last, a.last)
  PROVE  Guarding!Compare(Guarding!Snapshot(b), Guarding!Snapshot(a))
<1>1. b.first \in Guarding!Facts /\ b.last \in Guarding!Facts
      /\ a.first \in Guarding!Facts /\ a.last \in Guarding!Facts
  BY DEF Attestation
<1>2. Guarding!ProvenRows(b.first) \subseteq Guarding!ProvenRows(a.first)
  BY <1>1, ProvenMonotone
<1>3. Guarding!ControlsOf(b) \subseteq Guarding!ControlsOf(a)
  BY <1>2 DEF Guarding!ControlsOf, Guarding!NoWorse
<1>4. /\ b.first.intact => a.first.intact
      /\ b.first.keyed => a.first.keyed
      /\ b.last.bound => a.last.bound
  BY DEF Guarding!NoWorse
<1>5. Guarding!Filled(b) => Guarding!Filled(a)
  BY DEF Guarding!NoWorse, Guarding!Filled
<1>6. Guarding!GoalMet(b) => Guarding!GoalMet(a)
  <2>1. Guarding!ProvenRows(a.first) \subseteq a.first.listed
    BY DEF Guarding!ProvenRows
  <2>2. /\ a.first.listed = b.first.listed /\ a.first.untested \subseteq b.first.untested
        /\ a.last.objected \subseteq b.last.objected
    BY DEF Guarding!NoWorse
  <2> QED BY <1>2, <1>4, <1>5, <2>1, <2>2 DEF Guarding!GoalMet, Guarding!ControlBacked
<1>7. Guarding!Snapshot(b).holding \subseteq Guarding!Snapshot(a).holding
  BY <1>4, <1>5, <1>6, SnapshotFields
<1> QED BY <1>2, <1>3, <1>7, SnapshotFields DEF Guarding!Compare

\* Whatever changes, the facts are facts.
LEMMA FactsStayTyped ==
  ASSUME facts \in Guarding!Facts, Guarding!Change
  PROVE  facts' \in Guarding!Facts
<1>1. ASSUME NEW c \in Claims, NEW x \in {"listed", "holds", "untested", "objected"},
             facts' = [facts EXCEPT ![x] = Guarding!Toggle(@, c)]
      PROVE  facts' \in Guarding!Facts
  <2> DEFINE set == Guarding!Toggle(facts[x], c)
  <2>1. set \in SUBSET Claims
    BY <1>1, FactFields DEF Guarding!Toggle
  <2>2. facts' = [facts EXCEPT ![x] = set]
    BY <1>1
  <2> HIDE DEF set
  <2>3. CASE x = "listed"
    BY <2>1, <2>2, <2>3 DEF Guarding!Facts
  <2>4. CASE x = "holds"
    BY <2>1, <2>2, <2>4 DEF Guarding!Facts
  <2>5. CASE x = "untested"
    BY <2>1, <2>2, <2>5 DEF Guarding!Facts
  <2>6. CASE x = "objected"
    BY <2>1, <2>2, <2>6 DEF Guarding!Facts
  <2> QED BY <2>3, <2>4, <2>5, <2>6
<1>2. ASSUME NEW x \in {"intact", "keyed", "bound", "resolves"}, facts' = [facts EXCEPT ![x] = ~@]
      PROVE  facts' \in Guarding!Facts
  <2> DEFINE flag == ~ facts[x]
  <2>1. flag \in BOOLEAN
    OBVIOUS
  <2>2. facts' = [facts EXCEPT ![x] = flag]
    BY <1>2
  <2> HIDE DEF flag
  <2>3. CASE x = "bound"
    BY <2>1, <2>2, <2>3 DEF Guarding!Facts
  <2>4. CASE x = "resolves"
    BY <2>1, <2>2, <2>4 DEF Guarding!Facts
  <2>5. CASE x = "intact"
    BY <2>1, <2>2, <2>5 DEF Guarding!Facts
  <2>6. CASE x = "keyed"
    BY <2>1, <2>2, <2>6 DEF Guarding!Facts
  <2> QED BY <2>3, <2>4, <2>5, <2>6
<1> QED BY <1>1, <1>2 DEF Guarding!Change

\* The script compares the two snapshots of what was read.
LEMMA GuardStep ==
  ASSUME GuardInv, Guarding!Next \/ UNCHANGED guarding
  PROVE  GuardInv'
<1>1. ASSUME NEW mode \in Modes, Guarding!Begin(mode) PROVE GuardInv'
  <2> DEFINE place == IF mode = "against" THEN "command" ELSE "first"
             before == IF mode = "against" THEN saved ELSE Missing
             new == [pc |-> place, mode |-> mode, before |-> before]
  <2>1. place \in {"command", "first"} /\ before \in Before
    BY DEF GuardInv, Before
  <2>2. guard' = new /\ UNCHANGED <<facts, saved, outcome>>
    BY <1>1 DEF Guarding!Begin
  <2> HIDE DEF place, before
  <2>3. new \in Waiting
    BY <2>1 DEF Waiting
  <2> QED BY <2>2, <2>3 DEF GuardInv
<1>2. CASE Guarding!Command
  <2>1. guard.pc = "command" /\ guard' = [guard EXCEPT !.pc = "first"]
        /\ UNCHANGED <<facts, saved, outcome>>
    BY <1>2 DEF Guarding!Command
  <2>2. guard \in Waiting
    BY <2>1 DEF GuardInv, Unguarded, Halfway
  <2>3. guard' \in Waiting
    BY <2>1, <2>2 DEF Waiting
  <2> QED BY <2>1, <2>3 DEF GuardInv
<1>3. CASE Guarding!TakeFirst
  <2>1. /\ guard.pc = "first" /\ UNCHANGED <<facts, saved, outcome>>
        /\ guard' = [pc |-> "last", mode |-> guard.mode, before |-> guard.before, read |-> facts]
    BY <1>3 DEF Guarding!TakeFirst
  <2>2. guard \in Waiting
    BY <2>1 DEF GuardInv, Unguarded, Halfway
  <2>3. guard.mode \in Modes /\ guard.before \in Before /\ facts \in Guarding!Facts
    BY <2>2 DEF Waiting, GuardInv
  <2>4. guard' \in Halfway
    BY <2>1, <2>3 DEF Halfway
  <2> QED BY <2>1, <2>4 DEF GuardInv
<1>4. CASE Guarding!TakeLast
  <2> DEFINE a == [first |-> guard.read, last |-> facts]
             v == Guarding!Compare(Guarding!Snapshot(guard.before), Guarding!Snapshot(a))
  <2>1. /\ guard.pc = "last" /\ facts' = facts
        /\ saved' = IF guard.mode = "save" THEN a ELSE saved
        /\ guard' = IF guard.mode = "run" /\ guard.before = Missing
                      THEN [pc |-> "command", mode |-> "run", before |-> a] ELSE [pc |-> "idle"]
        /\ outcome' = IF guard.before = Missing THEN outcome
                      ELSE [intact |-> v, before |-> guard.before, after |-> a]
    BY <1>4 DEF Guarding!TakeLast, Guarding!Idle
  <2>2. guard \in Halfway
    BY <2>1 DEF GuardInv, Unguarded, Waiting
  <2>3. guard.read \in Guarding!Facts /\ guard.before \in Before /\ facts \in Guarding!Facts
    BY <2>2 DEF Halfway, GuardInv
  <2>4. a \in Attestation
    BY <2>3 DEF Attestation
  <2>5. v \in BOOLEAN /\ (v <=> Guarding!Compare(Guarding!Snapshot(guard.before), Guarding!Snapshot(a)))
    BY DEF Guarding!Compare
  <2> HIDE DEF a, v
  <2>6. saved' \in Before
    BY <2>1, <2>4 DEF Before, GuardInv
  <2>7. guard' \in Unguarded \cup Waiting
    BY <2>1, <2>4 DEF Unguarded, Waiting, Before, Modes
  <2>8. outcome' # Missing =>
          /\ outcome' \in Verdict
          /\ outcome'.intact <=> Guarding!Compare(Guarding!Snapshot(outcome'.before),
                                                  Guarding!Snapshot(outcome'.after))
    <3>1. CASE guard.before = Missing
      <4>1. outcome' = outcome
        BY <2>1, <3>1
      <4> QED BY <4>1 DEF GuardInv
    <3>2. CASE guard.before # Missing
      <4>1. outcome' = [intact |-> v, before |-> guard.before, after |-> a]
            /\ guard.before \in Attestation
        BY <2>1, <2>3, <3>2 DEF Before
      <4>2. outcome' \in Verdict
        BY <2>4, <2>5, <4>1 DEF Verdict
      <4>3. outcome'.intact = v /\ outcome'.before = guard.before /\ outcome'.after = a
        BY <4>1
      <4> QED BY <2>5, <4>2, <4>3
    <3> QED BY <3>1, <3>2
  <2> QED BY <2>1, <2>3, <2>6, <2>7, <2>8 DEF GuardInv
<1>5. CASE Guarding!Abort
  <2>1. guard' = [pc |-> "idle"] /\ UNCHANGED <<facts, saved, outcome>>
    BY <1>5 DEF Guarding!Abort, Guarding!Idle
  <2> QED BY <2>1 DEF GuardInv, Unguarded
<1>6. CASE Guarding!Change
  <2>1. UNCHANGED <<guard, saved, outcome>>
    BY <1>6 DEF Guarding!Change
  <2>2. facts' \in Guarding!Facts
    BY <1>6, FactsStayTyped DEF GuardInv
  <2> QED BY <2>1, <2>2 DEF GuardInv
<1>7. CASE UNCHANGED guarding
  BY <1>7 DEF guarding, GuardInv
<1> QED BY <1>1, <1>2, <1>3, <1>4, <1>5, <1>6, <1>7 DEF Guarding!Next, Modes

\* "INTACT" means that every single claim, control and the goal of the first attestation
\* still hold in the second, whatever changed between and during the readings, and facts
\* that are nowhere worse are never reported as a regression (attest_guard.py:24-32).
THEOREM GuardAlwaysRight == MCSpec => []GuardIsRight
<1>1. MCInit => GuardInv
  <2> SUFFICES ASSUME Guarding!Init PROVE GuardInv
    BY ToolsBegin
  <2> QED BY DEF Guarding!Init, Guarding!Idle, GuardInv, Unguarded, Before
<1>2. GuardInv /\ [MCNext]_toolvars => GuardInv'
  BY ToolsStep, GuardStep
<1>3. ASSUME GuardInv PROVE GuardIsRight
  <2> SUFFICES ASSUME outcome # Missing PROVE GuardIsRight
    BY DEF GuardIsRight, Guarding!GuardIsRight
  <2>1. outcome.before \in Attestation /\ outcome.after \in Attestation
    BY <1>3 DEF GuardInv, Verdict
  <2>2. outcome.intact <=> Guarding!Compare(Guarding!Snapshot(outcome.before),
                                            Guarding!Snapshot(outcome.after))
    BY <1>3 DEF GuardInv
  <2>3. Guarding!NoWorse(outcome.before.first, outcome.after.first)
        /\ Guarding!NoWorse(outcome.before.last, outcome.after.last) => outcome.intact
    BY <2>1, <2>2, NoWorseIsIntact
  <2> QED BY <2>1, <2>2, <2>3, IntactLosesNothing DEF GuardIsRight, Guarding!GuardIsRight
<1>4. GuardInv => GuardIsRight
  BY <1>3
<1> QED BY <1>1, <1>2, <1>4, PTL DEF MCSpec, toolvars

----------------------------------------------------------------------------
(* The AI-CAIQ *)

Writers == Provers \cup Clerks

Drafts == [pc : {"derived", "fill"}, doc : Answers, quiet : BOOLEAN]
Filling == [pc : {"filled"}, quiet : BOOLEAN]
Atrest == {[pc |-> "idle"]}

\* What the proof store and the desks hold
StoreTypes ==
  /\ IsFiniteSet(DOMAIN passes) /\ DOMAIN passes \subseteq Nat \ {0}
  /\ live \in [Claims -> Nat] /\ proven \subseteq Claims
StoreSound == \A c \in Claims : Sound(c, live[c]) /\ (c \in proven => live[c] # 0)
FileTypes ==
  /\ answers \in Answers \cup {Missing}
  /\ workbook \in Workbook \cup {Missing}
  /\ workbook # Missing => workbook.number \in 1..saves
  /\ usable \in BOOLEAN /\ saves \in 0..MaxSaves
RunsDigested == DOMAIN digests = ReleaseRuns /\ \A r \in ReleaseRuns : digests[r] \in 1..saves
DeskTypes ==
  /\ desk \in [Writers -> Atrest \cup Drafts \cup Filling]
  /\ \A q \in Writers : desk[q].pc = "filled" => workbook # Missing

\* An answer is No for a control of Negative, and Yes exactly when it cites a proof.
FollowsRefs(content) ==
  \A a \in Published :
    content[a].answer =
      IF a \in Negative THEN "No" ELSE IF content[a].refs = {} THEN "none" ELSE "Yes"

\* Everything it cites is the live proof of some claim but the release claim.
Backed(doc) ==
  \A a \in Published : \A ref \in doc[a].refs : \E c \in Claims \ {Release} : live[c] = ref

\* What nothing disturbed is the answers file and still backed.
DeskRight(q) ==
  /\ desk[q].pc \in {"derived", "fill"} => FollowsRefs(desk[q].doc)
  /\ desk[q].pc \in {"derived", "fill"} /\ desk[q].quiet => Backed(desk[q].doc)
  /\ desk[q].pc = "fill" /\ desk[q].quiet => answers = desk[q].doc
  /\ desk[q].pc = "filled" /\ desk[q].quiet => answers # Missing /\ Backed(answers)

\* The newest passing proof of the release claim is of the workbook.
NewestIsOf ==
  \E r \in ReleaseRuns : (\A s \in ReleaseRuns : r >= s) /\ digests[r] = workbook.number
SettledRight == settled =>
  /\ usable /\ answers # Missing /\ Backed(answers) /\ workbook # Missing /\ NewestIsOf

FilledRight == workbook # Missing /\ workbook.by # Missing => FollowsRefs(workbook.content)

CaiqInv ==
  /\ StoreTypes /\ StoreSound /\ FileTypes /\ RunsDigested /\ DeskTypes
  /\ FilledRight /\ SettledRight /\ settled \in BOOLEAN
  /\ \A q \in Writers : DeskRight(q)

\* What a process holds has the fields of its place.
LEMMA DeskFields ==
  ASSUME DeskTypes, NEW q \in Writers
  PROVE  /\ desk[q].pc \in {"derived", "fill"} => desk[q] \in Drafts
         /\ desk[q].pc = "filled" => desk[q] \in Filling
         /\ desk[q].pc \in {"idle", "derived", "fill", "filled"}
<1>1. desk[q] \in Atrest \cup Drafts \cup Filling
  BY DEF DeskTypes
<1>2. CASE desk[q] \in Atrest
  BY <1>2 DEF Atrest
<1>3. CASE desk[q] \in Drafts
  BY <1>3 DEF Drafts
<1>4. CASE desk[q] \in Filling
  BY <1>4 DEF Filling
<1> QED BY <1>1, <1>2, <1>3, <1>4

\* derive() makes answers that follow what they cite, which is live.
LEMMA DerivedRight ==
  ASSUME StoreTypes
  PROVE  Derived \in Answers /\ FollowsRefs(Derived) /\ Backed(Derived)
<1>1. ASSUME NEW a \in Controls
      PROVE  /\ Derived[a] \in Answer /\ Derived[a].refs = {live[c] : c \in Shown(a)}
             /\ Derived[a].answer = IF a \in Negative THEN "No"
                                    ELSE IF Derived[a].refs = {} THEN "none" ELSE "Yes"
  <2> DEFINE ans == IF a \in Negative THEN "No" ELSE IF Shown(a) = {} THEN "none" ELSE "Yes"
             refs == {live[c] : c \in Shown(a)}
  <2>1. Derived[a] = [answer |-> ans, refs |-> refs]
    BY DEF Derived
  <2>2. Shown(a) \subseteq Claims
    BY DEF Shown, StoreTypes
  <2>3. refs \in SUBSET Nat /\ (refs = {} <=> Shown(a) = {})
    BY <2>2 DEF StoreTypes
  <2>4. ans \in {"Yes", "No", "none"}
    OBVIOUS
  <2>5. ans = IF a \in Negative THEN "No" ELSE IF refs = {} THEN "none" ELSE "Yes"
    BY <2>3
  <2> HIDE DEF ans, refs
  <2>6. Derived[a] \in Answer /\ Derived[a].refs = refs /\ Derived[a].answer = ans
    BY <2>1, <2>3, <2>4 DEF Answer
  <2> QED BY <2>5, <2>6 DEF refs
<1>2. Derived \in Answers
  <2>1. DOMAIN Derived = Controls /\ Derived = [a \in Controls |-> Derived[a]]
    BY DEF Derived
  <2> QED BY <1>1, <2>1 DEF Answers
<1>3. Published \subseteq Controls
  BY DEF Published
<1>4. FollowsRefs(Derived)
  BY <1>1, <1>3 DEF FollowsRefs
<1>5. \A a \in Controls : Shown(a) \subseteq Claims \ {Release}
  BY DEF Shown, StoreTypes
<1>6. Backed(Derived)
  BY <1>1, <1>3, <1>5 DEF Backed
<1> QED BY <1>2, <1>4, <1>6

\* Answers that deriving again gives are as right as those it gives.
LEMMA NoDriftRight ==
  ASSUME StoreTypes, Rendered(answers) = Rendered(Derived)
  PROVE  FollowsRefs(answers) /\ Backed(answers)
<1>1. \A a \in Published : answers[a] = Derived[a]
  BY DEF Rendered
<1> QED BY <1>1, DerivedRight DEF FollowsRefs, Backed

\* A process that a step disturbs is where it was, with what it had, and knows it.
LEMMA Disturbed ==
  ASSUME DeskTypes
  PROVE  /\ Disturb \in [Writers -> Atrest \cup Drafts \cup Filling]
         /\ \A p \in Writers :
              /\ Disturb[p].pc = desk[p].pc
              /\ desk[p].pc \in {"derived", "fill"} => Disturb[p].doc = desk[p].doc
              /\ desk[p].pc # "idle" => ~ Disturb[p].quiet
<1>1. ASSUME NEW q \in Writers
      PROVE  /\ Disturb[q] \in Atrest \cup Drafts \cup Filling
             /\ Disturb[q].pc = desk[q].pc
             /\ desk[q].pc \in {"derived", "fill"} => Disturb[q].doc = desk[q].doc
             /\ desk[q].pc # "idle" => ~ Disturb[q].quiet
  <2>1. Disturb[q] = IF desk[q].pc = "idle" THEN desk[q] ELSE [desk[q] EXCEPT !.quiet = FALSE]
    BY DEF Disturb, DeskTypes
  <2>2. CASE desk[q].pc = "idle"
    <3>1. Disturb[q] = desk[q] /\ desk[q] \in Atrest \cup Drafts \cup Filling
      BY <2>1, <2>2 DEF DeskTypes
    <3> QED BY <2>2, <3>1
  <2>3. CASE desk[q].pc \in {"derived", "fill"}
    <3>1. desk[q] \in Drafts /\ Disturb[q] = [desk[q] EXCEPT !.quiet = FALSE]
      BY <2>1, <2>3, DeskFields
    <3>2. Disturb[q] \in Drafts
      BY <3>1 DEF Drafts
    <3>3. Disturb[q].pc = desk[q].pc /\ Disturb[q].doc = desk[q].doc
      BY <3>1 DEF Drafts
    <3>4. ~ Disturb[q].quiet
      BY <3>1 DEF Drafts
    <3> QED BY <3>2, <3>3, <3>4
  <2>4. CASE desk[q].pc = "filled"
    <3>1. desk[q] \in Filling /\ Disturb[q] = [desk[q] EXCEPT !.quiet = FALSE]
      BY <2>1, <2>4, DeskFields
    <3>2. Disturb[q] \in Filling
      BY <3>1 DEF Filling
    <3>3. Disturb[q].pc = desk[q].pc
      BY <3>1 DEF Filling
    <3>4. ~ Disturb[q].quiet
      BY <3>1 DEF Filling
    <3> QED BY <2>4, <3>2, <3>3, <3>4
  <2> QED BY <2>2, <2>3, <2>4, DeskFields
<1>2. DOMAIN Disturb = Writers /\ Disturb = [q \in Writers |-> Disturb[q]]
  BY DEF Disturb, DeskTypes
<1> QED BY <1>1, <1>2

\* Who was disturbed is right about what he holds, whatever happened.
LEMMA DisturbedRight ==
  ASSUME DeskTypes, NEW p \in Writers, DeskRight(p), desk'[p] = Disturb[p]
  PROVE  DeskRight(p)'
<1>1. /\ desk'[p].pc = desk[p].pc
      /\ desk[p].pc \in {"derived", "fill"} => desk'[p].doc = desk[p].doc
      /\ desk[p].pc # "idle" => ~ desk'[p].quiet
  BY Disturbed
<1>2. desk[p].pc \in {"derived", "fill"} => FollowsRefs(desk'[p].doc)
  BY <1>1 DEF DeskRight
<1> QED BY <1>1, <1>2 DEF DeskRight, FollowsRefs

\* A step of q that changes no file disturbs nobody.
LEMMA HoldKeeps ==
  ASSUME CaiqInv, NEW q \in Writers, NEW new \in Atrest \cup Drafts \cup Filling,
         Hold(q, new), UNCHANGED <<storevars, usable, files, settled>>,
         new.pc # "filled", DeskRight(q)'
  PROVE  CaiqInv'
<1>1. DeskTypes /\ desk' = [desk EXCEPT ![q] = new] /\ UNCHANGED <<answers, workbook, digests, saves>>
      /\ UNCHANGED <<passes, live, proven>>
  BY DEF CaiqInv, Hold, files, storevars
<1>2. desk'[q] = new /\ \A p \in Writers \ {q} : desk'[p] = desk[p]
  BY <1>1 DEF DeskTypes
<1>3. DeskTypes'
  BY <1>1, <1>2 DEF DeskTypes
<1>4. ASSUME NEW p \in Writers PROVE DeskRight(p)'
  <2>1. DeskRight(p)
    BY DEF CaiqInv
  <2> QED BY <1>1, <1>2, <2>1 DEF DeskRight, FollowsRefs, Backed
<1>5. StoreTypes' /\ StoreSound' /\ FileTypes'
  BY <1>1 DEF CaiqInv, StoreTypes, StoreSound, Sound, FileTypes
<1>6. ReleaseRuns' = ReleaseRuns
  BY <1>1 DEF ReleaseRuns
<1>7. RunsDigested'
  BY <1>1, <1>6 DEF CaiqInv, RunsDigested
<1>8. FilledRight' /\ settled' \in BOOLEAN
  BY <1>1 DEF CaiqInv, FilledRight, FollowsRefs
<1>9. SettledRight'
  BY <1>1, <1>6 DEF CaiqInv, SettledRight, Backed, NewestIsOf
<1> QED BY <1>3, <1>4, <1>5, <1>7, <1>8, <1>9 DEF CaiqInv

\* The desks after a step of q that disturbs the others
LEMMA HoldDisturbs ==
  ASSUME CaiqInv, NEW q \in Writers, NEW new \in Atrest \cup Drafts \cup Filling,
         HoldAndDisturb(q, new), workbook # Missing => workbook' # Missing,
         new.pc = "filled" => workbook' # Missing
  PROVE  /\ DeskTypes' /\ desk'[q] = new
         /\ DeskRight(q)' => \A p \in Writers : DeskRight(p)'
<1>1. DeskTypes /\ desk' = [Disturb EXCEPT ![q] = new]
  BY DEF CaiqInv, HoldAndDisturb
<1>2. Disturb \in [Writers -> Atrest \cup Drafts \cup Filling]
  BY <1>1, Disturbed
<1>3. desk'[q] = new /\ \A p \in Writers \ {q} : desk'[p] = Disturb[p]
  BY <1>1, <1>2
<1>4. desk' \in [Writers -> Atrest \cup Drafts \cup Filling]
  BY <1>1, <1>2
<1>5. DeskTypes'
  BY <1>1, <1>3, <1>4, Disturbed DEF DeskTypes
<1>6. ASSUME NEW p \in Writers \ {q} PROVE DeskRight(p)'
  <2>1. DeskRight(p)
    BY DEF CaiqInv
  <2> QED BY <1>1, <1>3, <2>1, DisturbedRight
<1> QED BY <1>3, <1>5, <1>6

\* The desks after a step that disturbs everyone
LEMMA AllDisturbed ==
  ASSUME CaiqInv, desk' = Disturb, workbook # Missing => workbook' # Missing
  PROVE  DeskTypes' /\ \A p \in Writers : DeskRight(p)'
<1>1. DeskTypes
  BY DEF CaiqInv
<1>2. DeskTypes'
  BY <1>1, Disturbed DEF DeskTypes
<1>3. ASSUME NEW p \in Writers PROVE DeskRight(p)'
  <2>1. DeskRight(p)
    BY DEF CaiqInv
  <2> QED BY <1>1, <2>1, DisturbedRight
<1> QED BY <1>2, <1>3

\* A save of a file leaves the proofs, and what it counts from only grows.
LEMMA SaveKeeps ==
  ASSUME CaiqInv, Saved, UNCHANGED <<storevars, usable, digests>>, settled' = FALSE
  PROVE  /\ StoreTypes' /\ StoreSound' /\ RunsDigested' /\ SettledRight' /\ settled' \in BOOLEAN
         /\ usable' \in BOOLEAN /\ saves' \in 0..MaxSaves /\ saves' \in 1..saves'
         /\ 1..saves \subseteq 1..saves'
<1>1. /\ saves \in Nat /\ saves' = saves + 1 /\ saves < MaxSaves /\ MaxSaves \in Nat
      /\ UNCHANGED <<passes, live, proven>>
  BY QuestionnaireAssumption DEF CaiqInv, FileTypes, Saved, storevars
<1>2. StoreTypes' /\ StoreSound'
  BY <1>1 DEF CaiqInv, StoreTypes, StoreSound, Sound
<1>3. RunsDigested'
  <2>1. ReleaseRuns' = ReleaseRuns
    BY <1>1 DEF ReleaseRuns
  <2>2. 1..saves \subseteq 1..saves'
    BY <1>1
  <2> QED BY <2>1, <2>2 DEF CaiqInv, RunsDigested
<1>4. SettledRight' /\ usable' \in BOOLEAN
  BY DEF SettledRight, CaiqInv, FileTypes
<1>5. settled' \in BOOLEAN
  OBVIOUS
<1>6. saves' \in 0..MaxSaves /\ saves' \in 1..saves' /\ 1..saves \subseteq 1..saves'
  BY <1>1
<1> QED BY <1>2, <1>3, <1>4, <1>5, <1>6

\* derive() reads live proofs.
LEMMA DeriveStep ==
  ASSUME CaiqInv, NEW q \in Writers, Derive(q)
  PROVE  CaiqInv'
<1> DEFINE new == [pc |-> "derived", doc |-> Derived, quiet |-> TRUE]
<1>1. Hold(q, new) /\ UNCHANGED <<storevars, usable, files, settled>>
  BY DEF Derive
<1>2. Derived \in Answers /\ FollowsRefs(Derived) /\ Backed(Derived)
  BY DerivedRight DEF CaiqInv
<1>3. new \in Drafts /\ new.pc = "derived" /\ new.doc = Derived
  BY <1>2 DEF Drafts
<1> HIDE DEF new
<1>4. desk'[q] = new /\ live' = live
  BY <1>1 DEF Hold, CaiqInv, DeskTypes, storevars
<1>5. DeskRight(q)'
  BY <1>2, <1>3, <1>4 DEF DeskRight, FollowsRefs, Backed
<1>6. PICK n : n = new
  OBVIOUS
<1> QED BY <1>1, <1>3, <1>5, <1>6, HoldKeeps

\* _answers_drift() lets through only answers that deriving again gives.
LEMMA CheckDriftStep ==
  ASSUME CaiqInv, NEW q \in Writers, CheckDrift(q)
  PROVE  CaiqInv'
<1> DEFINE new == [pc |-> "fill", doc |-> answers, quiet |-> TRUE]
<1>1. /\ Hold(q, new) /\ UNCHANGED <<storevars, usable, files, settled>>
      /\ answers # Missing /\ Rendered(answers) = Rendered(Derived)
  BY DEF CheckDrift
<1>2. answers \in Answers /\ FollowsRefs(answers) /\ Backed(answers)
  BY <1>1, NoDriftRight DEF CaiqInv, FileTypes
<1>3. new \in Drafts /\ new.pc = "fill" /\ new.doc = answers
  BY <1>2 DEF Drafts
<1> HIDE DEF new
<1>4. desk'[q] = new /\ live' = live /\ answers' = answers
  BY <1>1 DEF Hold, CaiqInv, DeskTypes, storevars, files
<1>5. DeskRight(q)'
  BY <1>2, <1>3, <1>4 DEF DeskRight, FollowsRefs, Backed
<1>6. PICK n : n = new
  OBVIOUS
<1> QED BY <1>1, <1>3, <1>5, <1>6, HoldKeeps

\* A command that stops leaves the files.
LEMMA FailStep ==
  ASSUME CaiqInv, NEW q \in Writers, Fail(q)
  PROVE  CaiqInv'
<1> DEFINE new == [pc |-> "idle"]
<1>1. Hold(q, new) /\ UNCHANGED <<storevars, usable, files, settled>>
  BY DEF Fail, Nothing
<1>2. new \in Atrest /\ new.pc = "idle"
  BY DEF Atrest
<1> HIDE DEF new
<1>3. desk'[q] = new
  BY <1>1 DEF Hold, CaiqInv, DeskTypes
<1>4. DeskRight(q)'
  BY <1>2, <1>3 DEF DeskRight
<1> QED BY <1>1, <1>2, <1>4, HoldKeeps DEF new

\* derive writes what it derived.
LEMMA WriteAnswersStep ==
  ASSUME CaiqInv, NEW q \in Writers, WriteAnswers(q)
  PROVE  CaiqInv'
<1> DEFINE doc == desk[q].doc
           quiet == desk[q].quiet
           next == [pc |-> "fill", doc |-> doc, quiet |-> quiet]
           new == IF q \in Provers THEN next ELSE [pc |-> "idle"]
<1>1. desk[q] \in Drafts /\ desk[q].pc = "derived"
  BY DeskFields DEF WriteAnswers, CaiqInv
<1>2. doc \in Answers /\ quiet \in BOOLEAN /\ [desk[q] EXCEPT !.pc = "fill"] = next
  BY <1>1 DEF Drafts
<1>3. /\ Saved /\ UNCHANGED <<storevars, usable, workbook, digests>> /\ settled' = FALSE
      /\ answers' = doc /\ HoldAndDisturb(q, new)
  BY <1>2 DEF WriteAnswers, Nothing
<1>4. FollowsRefs(doc) /\ (quiet => Backed(doc))
  BY <1>1 DEF CaiqInv, DeskRight
<1> HIDE DEF doc, quiet
<1>5. next \in Drafts /\ next.doc = doc /\ next.quiet = quiet /\ next.pc = "fill"
  BY <1>2 DEF Drafts
<1> HIDE DEF next
<1>6. \/ new = next \/ new = [pc |-> "idle"]
  OBVIOUS
<1>7. new \in Atrest \cup Drafts \cup Filling /\ new.pc # "filled"
  BY <1>5, <1>6 DEF Atrest
<1> HIDE DEF new
<1>8. PICK n : n = new
  OBVIOUS
<1>9. /\ DeskTypes' /\ desk'[q] = new
      /\ DeskRight(q)' => \A p \in Writers : DeskRight(p)'
  BY <1>3, <1>7, <1>8, HoldDisturbs
<1>10. DeskRight(q)'
  <2>1. CASE new = next
    <3>1. live' = live
      BY <1>3 DEF storevars
    <3> QED BY <1>3, <1>4, <1>5, <1>9, <2>1, <3>1 DEF DeskRight, FollowsRefs, Backed
  <2>2. CASE new = [pc |-> "idle"]
    <3>1. desk'[q].pc = "idle"
      BY <1>9, <2>2
    <3> QED BY <3>1 DEF DeskRight
  <2> QED BY <1>6, <2>1, <2>2
<1>11. FileTypes'
  <2>1. workbook' = workbook
    BY <1>3
  <2> QED BY <1>2, <1>3, <2>1, SaveKeeps DEF CaiqInv, FileTypes
<1>12. FilledRight'
  BY <1>3 DEF CaiqInv, FilledRight, FollowsRefs
<1> QED BY <1>3, <1>9, <1>10, <1>11, <1>12, SaveKeeps DEF CaiqInv

\* fill() puts the answers it read into the workbook, and nothing else.
LEMMA FillStep ==
  ASSUME CaiqInv, NEW q \in Writers, Fill(q)
  PROVE  CaiqInv'
<1> DEFINE doc == desk[q].doc
           quiet == desk[q].quiet
           content == Rendered(doc)
           book == [content |-> content, number |-> saves', by |-> q]
           next == [pc |-> "filled", quiet |-> quiet]
           new == IF q \in Provers THEN next ELSE [pc |-> "idle"]
<1>1. desk[q] \in Drafts /\ desk[q].pc = "fill"
  BY DeskFields DEF Fill, CaiqInv
<1>2. doc \in Answers /\ quiet \in BOOLEAN
  BY <1>1 DEF Drafts
<1>3. /\ Saved /\ UNCHANGED <<storevars, usable, digests>> /\ settled' = FALSE
      /\ workbook' = book /\ answers' = answers /\ HoldAndDisturb(q, new)
  BY DEF Fill, Nothing
<1>4. FollowsRefs(doc) /\ (quiet => Backed(doc) /\ answers = doc)
  BY <1>1 DEF CaiqInv, DeskRight
<1> HIDE DEF doc, quiet
<1>5. content \in [Published -> Answer] /\ \A a \in Published : content[a] = doc[a]
  BY <1>2 DEF Rendered, Answers, Published
<1> HIDE DEF content
<1>6. saves' \in 1..saves' /\ saves' \in Nat
  <2>1. saves' \in 0..MaxSaves /\ saves' \in 1..saves'
    BY <1>3, SaveKeeps
  <2> QED BY <2>1, QuestionnaireAssumption
<1>7. book \in Workbook /\ book.number = saves' /\ book.content = content
  BY <1>5, <1>6 DEF Workbook, Writers
<1> HIDE DEF book
<1>8. workbook' # Missing
  BY <1>3, <1>7, MissingAssumption
<1>9. next \in Filling /\ next.pc = "filled" /\ next.quiet = quiet
  BY <1>2 DEF Filling
<1> HIDE DEF next
<1>10. new = next \/ new = [pc |-> "idle"]
  OBVIOUS
<1>11. new \in Atrest \cup Drafts \cup Filling
  BY <1>9, <1>10 DEF Atrest
<1> HIDE DEF new
<1>12. PICK n : n = new
  OBVIOUS
<1>13. /\ DeskTypes' /\ desk'[q] = new
       /\ DeskRight(q)' => \A p \in Writers : DeskRight(p)'
  BY <1>3, <1>8, <1>11, <1>12, HoldDisturbs
<1>14. DeskRight(q)'
  <2>1. CASE new = next
    <3>1. live' = live
      BY <1>3 DEF storevars
    <3>2. quiet => answers' # Missing /\ Backed(answers)'
      BY <1>2, <1>3, <1>4, <3>1, MissingAssumption DEF Backed
    <3> QED BY <1>9, <1>13, <2>1, <3>2 DEF DeskRight
  <2>2. CASE new = [pc |-> "idle"]
    <3>1. desk'[q].pc = "idle"
      BY <1>13, <2>2
    <3> QED BY <3>1 DEF DeskRight
  <2> QED BY <1>10, <2>1, <2>2
<1>15. FileTypes'
  BY <1>3, <1>6, <1>7, SaveKeeps DEF CaiqInv, FileTypes
<1>16. FilledRight'
  BY <1>3, <1>4, <1>5, <1>7 DEF FilledRight, FollowsRefs
<1> QED BY <1>3, <1>13, <1>14, <1>15, <1>16, SaveKeeps DEF CaiqInv

\* A recorded proof has a reference above all others, so it is the newest of its claim.
LEMMA PassExtends ==
  ASSUME StoreTypes, StoreSound, NEW c \in Claims, NEW ref \in Nat, Pass(c, ref)
  PROVE  /\ StoreTypes' /\ StoreSound'
         /\ ref \notin DOMAIN passes /\ \A r \in DOMAIN passes : ref > r
         /\ ReleaseRuns' = IF c = Release THEN ReleaseRuns \cup {ref} ELSE ReleaseRuns
<1>1. /\ ref \in Nat \ {0} /\ \A r \in DOMAIN passes : ref > r
      /\ passes' = [r \in DOMAIN passes \cup {ref} |-> IF r = ref THEN c ELSE passes[r]]
      /\ UNCHANGED <<live, proven>>
  BY DEF Pass
<1>2. ref \notin DOMAIN passes /\ DOMAIN passes' = DOMAIN passes \cup {ref}
      /\ passes'[ref] = c /\ \A r \in DOMAIN passes : passes'[r] = passes[r]
  BY <1>1
<1>3. IsFiniteSet(DOMAIN passes')
  BY <1>2, FS_AddElement DEF StoreTypes
<1>4. StoreTypes'
  BY <1>1, <1>2, <1>3 DEF StoreTypes
<1>5. StoreSound'
  BY <1>1, <1>2 DEF StoreSound, Sound
<1>6. ReleaseRuns' = IF c = Release THEN ReleaseRuns \cup {ref} ELSE ReleaseRuns
  BY <1>2 DEF ReleaseRuns
<1> QED BY <1>1, <1>2, <1>4, <1>5, <1>6

\* The proof of the release claim is of the workbook as it is then,
LEMMA RecordReleaseStep ==
  ASSUME CaiqInv, NEW q \in Writers, RecordRelease(q)
  PROVE  CaiqInv'
<1> DEFINE new == [pc |-> "idle"]
<1>1. PICK ref \in 1..MaxPasses :
        /\ Pass(Release, ref)
        /\ digests' = [r \in DOMAIN digests \cup {ref} |->
                         IF r = ref THEN workbook.number ELSE digests[r]]
  BY DEF RecordRelease
<1>2. /\ desk[q].pc = "filled" /\ usable /\ HoldAndDisturb(q, new) /\ settled' = desk[q].quiet
      /\ UNCHANGED <<usable, answers, workbook, saves>>
  BY DEF RecordRelease, Nothing
<1>3. desk[q] \in Filling /\ desk[q].quiet \in BOOLEAN /\ workbook # Missing
  BY <1>2, DeskFields DEF CaiqInv, DeskTypes, Filling
<1>4. Release \in Claims /\ ref \in Nat
  BY QuestionnaireAssumption
<1>5. /\ StoreTypes' /\ StoreSound'
      /\ ref \notin DOMAIN passes /\ \A r \in DOMAIN passes : ref > r
      /\ ReleaseRuns' = ReleaseRuns \cup {ref}
  BY <1>1, <1>4, PassExtends DEF CaiqInv
<1>6. /\ DOMAIN digests = ReleaseRuns /\ \A r \in ReleaseRuns : digests[r] \in 1..saves
      /\ workbook.number \in 1..saves
  BY <1>3 DEF CaiqInv, RunsDigested, FileTypes
<1>7. digests'[ref] = workbook.number /\ \A r \in ReleaseRuns : digests'[r] = digests[r]
  BY <1>1, <1>5, <1>6 DEF ReleaseRuns
<1>8. RunsDigested'
  BY <1>1, <1>2, <1>5, <1>6, <1>7 DEF RunsDigested
<1>9. new \in Atrest /\ new.pc = "idle"
  BY DEF Atrest
<1> HIDE DEF new
<1>10. /\ DeskTypes' /\ desk'[q] = new
       /\ DeskRight(q)' => \A p \in Writers : DeskRight(p)'
  BY <1>2, <1>9, HoldDisturbs
<1>11. DeskRight(q)'
  BY <1>9, <1>10 DEF DeskRight
<1>12. FileTypes'
  BY <1>2 DEF CaiqInv, FileTypes
<1>13. FilledRight'
  BY <1>2 DEF CaiqInv, FilledRight, FollowsRefs
<1>14. settled' \in BOOLEAN
  BY <1>2, <1>3
<1>15. SettledRight'
  <2> SUFFICES ASSUME settled' PROVE SettledRight'
    BY DEF SettledRight
  <2>1. answers # Missing /\ Backed(answers)
    BY <1>2 DEF CaiqInv, DeskRight
  <2>2. live' = live
    BY <1>1 DEF Pass
  <2>3. \A s \in ReleaseRuns' : ref >= s
    BY <1>4, <1>5 DEF ReleaseRuns, CaiqInv, StoreTypes
  <2>4. digests'[ref] = workbook'.number
    BY <1>2, <1>7
  <2>5. NewestIsOf'
    BY <1>5, <2>3, <2>4 DEF NewestIsOf
  <2> QED BY <1>2, <1>3, <2>1, <2>2, <2>5 DEF SettledRight, Backed
<1> QED BY <1>5, <1>8, <1>10, <1>11, <1>12, <1>13, <1>14, <1>15 DEF CaiqInv

\* and a proof of another claim makes no workbook wrong,
LEMMA PassOtherStep ==
  ASSUME CaiqInv, NEW c \in Claims, PassOther(c)
  PROVE  CaiqInv'
<1>1. /\ c # Release /\ Pass(c, 1 + Cardinality(DOMAIN passes))
      /\ desk' = Disturb /\ settled' = FALSE
      /\ UNCHANGED <<usable, answers, workbook, digests, saves>>
  BY DEF PassOther, files
<1>2. PICK ref \in Nat : ref = 1 + Cardinality(DOMAIN passes)
  BY FS_CardinalityType DEF CaiqInv, StoreTypes
<1>3. StoreTypes' /\ StoreSound' /\ ReleaseRuns' = ReleaseRuns
  BY <1>1, <1>2, PassExtends DEF CaiqInv
<1>4. DeskTypes' /\ \A p \in Writers : DeskRight(p)'
  BY <1>1, AllDisturbed
<1>5. FileTypes' /\ RunsDigested' /\ FilledRight'
  BY <1>1, <1>3 DEF CaiqInv, FileTypes, RunsDigested, FilledRight, FollowsRefs
<1>6. SettledRight' /\ settled' \in BOOLEAN
  BY <1>1 DEF SettledRight
<1> QED BY <1>3, <1>4, <1>5, <1>6 DEF CaiqInv

\* nor does a review, or a claim that is undone.
LEMMA ReviewOneStep ==
  ASSUME CaiqInv, NEW c \in Claims, NEW ref \in 0..MaxPasses, NEW is \in BOOLEAN,
         ReviewOne(c, ref, is)
  PROVE  CaiqInv'
<1>1. /\ Sound(c, ref) /\ (is => ref # 0) /\ passes' = passes
      /\ live' = [live EXCEPT ![c] = ref]
      /\ proven' = IF is THEN proven \cup {c} ELSE proven \ {c}
      /\ desk' = Disturb /\ (settled' <=> settled /\ c = Release) /\ settled' \in BOOLEAN
      /\ UNCHANGED <<usable, answers, workbook, digests, saves>>
  BY DEF ReviewOne, See, files
<1>2. ref \in Nat
  BY QuestionnaireAssumption
<1>3. StoreTypes'
  BY <1>1, <1>2 DEF CaiqInv, StoreTypes
<1>4. StoreSound'
  BY <1>1 DEF CaiqInv, StoreTypes, StoreSound, Sound
<1>5. DeskTypes' /\ \A p \in Writers : DeskRight(p)'
  BY <1>1, AllDisturbed
<1>6. ReleaseRuns' = ReleaseRuns
  BY <1>1 DEF ReleaseRuns
<1>7. FileTypes' /\ RunsDigested' /\ FilledRight'
  BY <1>1, <1>6 DEF CaiqInv, FileTypes, RunsDigested, FilledRight, FollowsRefs
<1>8. SettledRight'
  <2> SUFFICES ASSUME settled' PROVE SettledRight'
    BY DEF SettledRight
  <2>1. settled /\ c = Release
    BY <1>1
  <2>2. usable /\ answers # Missing /\ Backed(answers) /\ workbook # Missing /\ NewestIsOf
    BY <2>1 DEF CaiqInv, SettledRight
  <2>3. \A d \in Claims \ {Release} : live'[d] = live[d]
    BY <1>1, <2>1 DEF CaiqInv, StoreTypes
  <2>4. Backed(answers)'
    BY <1>1, <2>2, <2>3 DEF Backed
  <2> QED BY <1>1, <1>6, <2>2, <2>4 DEF SettledRight, NewestIsOf
<1> QED BY <1>1, <1>3, <1>4, <1>5, <1>7, <1>8 DEF CaiqInv

\* An answer with its value flipped is still one.
LEMMA FlippedType ==
  ASSUME NEW S, NEW doc \in [S -> Answer], NEW a \in S
  PROVE  [doc EXCEPT ![a].answer = Flip(@)] \in [S -> Answer]
<1> DEFINE e == [answer |-> Flip(doc[a].answer), refs |-> doc[a].refs]
<1>1. doc[a] \in Answer
  OBVIOUS
<1>2. [doc[a] EXCEPT !.answer = Flip(doc[a].answer)] = e
  BY <1>1 DEF Answer
<1>3. Flip(doc[a].answer) \in {"Yes", "No", "none"} /\ doc[a].refs \in SUBSET Nat
  BY <1>1 DEF Answer, Flip
<1>4. e \in Answer
  BY <1>3 DEF Answer
<1>5. [doc EXCEPT ![a].answer = Flip(@)] = [doc EXCEPT ![a] = e]
  BY <1>2
<1> HIDE DEF e
<1> QED BY <1>4, <1>5

\* A flipped answer disturbs every command at work,
LEMMA EditAnswersStep ==
  ASSUME CaiqInv, NEW a \in Controls, EditAnswers(a)
  PROVE  CaiqInv'
<1>1. /\ answers # Missing /\ Saved /\ answers' = [answers EXCEPT ![a].answer = Flip(@)]
      /\ desk' = Disturb /\ settled' = FALSE
      /\ UNCHANGED <<storevars, usable, workbook, digests>> /\ workbook' = workbook
  BY DEF EditAnswers
<1>2. answers \in [Controls -> Answer]
  BY <1>1 DEF CaiqInv, FileTypes, Answers
<1>3. PICK doc : doc = answers
  OBVIOUS
<1>4. answers' \in Answers
  BY <1>1, <1>2, <1>3, FlippedType DEF Answers
<1>5. DeskTypes' /\ \A p \in Writers : DeskRight(p)'
  BY <1>1, AllDisturbed
<1>6. FileTypes'
  BY <1>1, <1>4, SaveKeeps DEF CaiqInv, FileTypes
<1>7. FilledRight'
  BY <1>1 DEF CaiqInv, FilledRight, FollowsRefs
<1> QED BY <1>1, <1>5, <1>6, <1>7, SaveKeeps DEF CaiqInv

\* and so does one in the workbook, which is then somebody's own.
LEMMA EditWorkbookStep ==
  ASSUME CaiqInv, NEW a \in Published, EditWorkbook(a)
  PROVE  CaiqInv'
<1> DEFINE content == [workbook.content EXCEPT ![a].answer = Flip(@)]
           book == [content |-> content, number |-> saves', by |-> Missing]
<1>1. /\ workbook # Missing /\ Saved /\ workbook' = book
      /\ desk' = Disturb /\ settled' = FALSE
      /\ UNCHANGED <<storevars, usable, answers, digests>> /\ answers' = answers
  BY DEF EditWorkbook
<1>2. workbook.content \in [Published -> Answer]
  BY <1>1 DEF CaiqInv, FileTypes, Workbook
<1>3. PICK doc : doc = workbook.content
  OBVIOUS
<1>4. content \in [Published -> Answer]
  BY <1>2, <1>3, FlippedType
<1> HIDE DEF content
<1>5. saves' \in 1..saves' /\ saves' \in Nat
  <2>1. Saved /\ settled' = FALSE /\ UNCHANGED <<storevars, usable, digests>>
    BY <1>1
  <2>2. saves' \in 0..MaxSaves /\ saves' \in 1..saves'
    BY <2>1, SaveKeeps
  <2> QED BY <2>2, QuestionnaireAssumption
<1>6. book \in Workbook /\ book.number = saves' /\ book.by = Missing
  BY <1>4, <1>5 DEF Workbook
<1> HIDE DEF book
<1>7. workbook' # Missing
  BY <1>1, <1>6, MissingAssumption
<1>8. DeskTypes' /\ \A p \in Writers : DeskRight(p)'
  BY <1>1, <1>7, AllDisturbed
<1>9. FileTypes'
  BY <1>1, <1>5, <1>6, SaveKeeps DEF CaiqInv, FileTypes
<1>10. FilledRight'
  BY <1>1, <1>6 DEF FilledRight
<1> QED BY <1>1, <1>8, <1>9, <1>10, SaveKeeps DEF CaiqInv

\* A damaged proof ledger proves nothing.
LEMMA DamageStep ==
  ASSUME CaiqInv, Damage
  PROVE  CaiqInv'
<1>1. /\ usable' = FALSE /\ proven' = {} /\ desk' = Disturb /\ settled' = FALSE
      /\ UNCHANGED <<passes, live, answers, workbook, digests, saves>>
  BY DEF Damage, files
<1>2. StoreTypes' /\ StoreSound'
  BY <1>1 DEF CaiqInv, StoreTypes, StoreSound, Sound
<1>3. ReleaseRuns' = ReleaseRuns
  BY <1>1 DEF ReleaseRuns
<1>4. usable' \in BOOLEAN /\ settled' \in BOOLEAN
  BY <1>1
<1>5. FileTypes' /\ RunsDigested' /\ FilledRight'
  BY <1>1, <1>3, <1>4 DEF CaiqInv, FileTypes, RunsDigested, FilledRight, FollowsRefs
<1>6. DeskTypes' /\ \A p \in Writers : DeskRight(p)'
  BY <1>1, AllDisturbed
<1>7. SettledRight'
  BY <1>1 DEF SettledRight
<1> QED BY <1>2, <1>4, <1>5, <1>6, <1>7 DEF CaiqInv

\* Every step of the scene keeps the invariant,
LEMMA CaiqStep ==
  ASSUME CaiqInv, Next \/ UNCHANGED caiq
  PROVE  CaiqInv'
<1>1. CASE UNCHANGED caiq
  <2>1. /\ UNCHANGED <<passes, live, proven, usable, answers, workbook, digests, saves>>
        /\ UNCHANGED <<desk, settled>>
    BY <1>1 DEF caiq, vars, storevars, files
  <2>2. ReleaseRuns' = ReleaseRuns
    BY <2>1 DEF ReleaseRuns
  <2>3. StoreTypes' /\ StoreSound' /\ FileTypes' /\ RunsDigested' /\ DeskTypes'
    BY <2>1, <2>2 DEF CaiqInv, StoreTypes, StoreSound, Sound, FileTypes, RunsDigested, DeskTypes
  <2>4. FilledRight' /\ SettledRight' /\ settled' \in BOOLEAN
    BY <2>1, <2>2 DEF CaiqInv, FilledRight, FollowsRefs, SettledRight, Backed, NewestIsOf
  <2>5. \A q \in Writers : DeskRight(q)'
    BY <2>1 DEF CaiqInv, DeskRight, FollowsRefs, Backed
  <2> QED BY <2>3, <2>4, <2>5 DEF CaiqInv
<1>2. CASE Next
  BY <1>2, DeriveStep, WriteAnswersStep, CheckDriftStep, FillStep, RecordReleaseStep, FailStep,
     PassOtherStep, ReviewOneStep, EditAnswersStep, EditWorkbookStep, DamageStep DEF Next, Writers
<1> QED BY <1>1, <1>2

\* which therefore holds.
LEMMA CaiqInvariant == MCSpec => []CaiqInv
<1>1. MCInit => CaiqInv
  <2> SUFFICES ASSUME Init PROVE CaiqInv
    BY ToolsBegin
  <2>1. /\ passes = [r \in {} |-> 0] /\ live = [c \in Claims |-> 0] /\ proven = {}
        /\ usable = TRUE /\ answers = Missing /\ workbook = Missing /\ saves = 0
        /\ digests = [r \in {} |-> 0] /\ settled = FALSE
        /\ desk = [q \in Writers |-> [pc |-> "idle"]]
    BY DEF Init, StoreInit, Nothing, Writers
  <2>2. DOMAIN passes = {} /\ ReleaseRuns = {}
    BY <2>1 DEF ReleaseRuns
  <2>3. StoreTypes /\ StoreSound
    BY <2>1, <2>2, FS_EmptySet DEF StoreTypes, StoreSound, Sound
  <2>4. RunsDigested
    BY <2>1, <2>2 DEF RunsDigested
  <2>5. usable \in BOOLEAN /\ settled \in BOOLEAN
    BY <2>1
  <2>6. FileTypes
    BY <2>1, <2>5, QuestionnaireAssumption DEF FileTypes
  <2>7. \A q \in Writers : desk[q] \in Atrest /\ desk[q].pc = "idle"
    BY <2>1 DEF Atrest
  <2>8. DeskTypes /\ \A q \in Writers : DeskRight(q)
    BY <2>1, <2>7 DEF DeskTypes, DeskRight
  <2>9. FilledRight /\ SettledRight
    BY <2>1 DEF FilledRight, SettledRight
  <2> QED BY <2>3, <2>4, <2>5, <2>6, <2>8, <2>9 DEF CaiqInv
<1>2. CaiqInv /\ [MCNext]_toolvars => CaiqInv'
  BY ToolsStep, CaiqStep
<1> QED BY <1>1, <1>2, PTL DEF MCSpec, toolvars

\* An answer that somebody flipped in the answers file never reaches the workbook,
\* whichever commands overlap: only flipping it in the workbook itself puts it there
\* (#73, cmd_caiq.py:_answers_drift).
THEOREM HandEditsAlwaysStayOut == MCSpec => []HandEditsStayOut
<1>1. CaiqInv => HandEditsStayOut
  BY DEF CaiqInv, FilledRight, FollowsRefs, HandEditsStayOut
<1> QED BY <1>1, CaiqInvariant, PTL

\* One undisturbed proof of the release claim is enough for `attest --self` to call the
\* workbook filled from proofs, and citing that proof does not undo it (#74); the verdict
\* follows once every claim is proven.
THEOREM ReleaseRunAlwaysSuffices == MCSpec => []ReleaseRunSuffices
<1>1. ASSUME CaiqInv, settled
      PROVE  /\ FilledFromProofs /\ EvidenceCode(TRUE) = 0
             /\ proven = Claims => SelfAttested
  <2>1. usable /\ answers # Missing /\ Backed(answers) /\ workbook # Missing /\ NewestIsOf
    BY <1>1 DEF CaiqInv, SettledRight
  <2>2. \A a \in Published : \A ref \in answers[a].refs : Resolves(ref)
    BY <2>1 DEF Backed, Resolves
  <2>3. PICK r \in ReleaseRuns :
          (\A s \in ReleaseRuns : r >= s) /\ digests[r] = workbook.number
    BY <2>1 DEF NewestIsOf
  <2>4. Max(ReleaseRuns) = r
    <3>1. ReleaseRuns \subseteq Nat
      BY <1>1 DEF CaiqInv, StoreTypes, ReleaseRuns
    <3>2. \A x \in ReleaseRuns : (\A s \in ReleaseRuns : x >= s) => x = r
      BY <2>3, <3>1
    <3> QED BY <2>3, <3>2 DEF Max
  <2>5. WorkbookBound
    BY <2>1, <2>3, <2>4 DEF WorkbookBound
  <2>6. FilledFromProofs
    BY <2>1, <2>2, <2>5 DEF FilledFromProofs
  <2>7. EvidenceCode(TRUE) = 0
    BY <2>1, <2>2 DEF EvidenceCode
  <2> QED BY <2>1, <2>6, <2>7 DEF SelfAttested
<1>2. CaiqInv => ReleaseRunSuffices
  BY <1>1 DEF ReleaseRunSuffices
<1> QED BY <1>2, CaiqInvariant, PTL


----------------------------------------------------------------------------
(* Delegated scripts: what runs on live data was tested, and is what was   *)
(* vetted, for any number of runs, versions of the script and of its test, *)
(* and edits between any two steps.                                        *)

\* A new run begins at its pin.
LEMMA TypeStart ==
  ASSUME DelegationTypeOK, NEW r \in Runners, NEW kind \in Kinds, Start(r, kind)
  PROVE  DelegationTypeOK'
<1> USE DelegationAssumption
<1>1. job' = [job EXCEPT ![r] = [Idle EXCEPT !.pc = "pin", !.kind = kind, !.vetted = script]]
  BY DEF Start
<1>2. [Idle EXCEPT !.pc = "pin", !.kind = kind, !.vetted = script] \in Job
  BY DEF Idle, Job, Steps, Kinds, Versions, DelegationTypeOK
<1> QED BY <1>1, <1>2 DEF Start, DelegationTypeOK, Idle

\* A step of a run that changes nothing but what the run holds.
LEMMA TypeGo ==
  ASSUME DelegationTypeOK, NEW r \in Runners, NEW new \in Job, Go(r, new),
         new.pc \notin {"idle", "pin"} => new.test \in Tests,
         new.pc = "execute" => new.copy \in Scripts
  PROVE  DelegationTypeOK'
BY DEF Go, DelegationTypeOK

\* What a run holds after its pin, and after its test.
LEMMA HeldTyped ==
  ASSUME DelegationTypeOK, NEW r \in Runners
  PROVE  /\ [job[r] EXCEPT !.pc = "test", !.script = script, !.test = test] \in Job
         /\ [job[r] EXCEPT !.pc = "compare", !.passed = <<test, script>> \in Passing] \in Job
<1> DEFINE passed == <<test, script>> \in Passing
<1>1. passed \in BOOLEAN
  OBVIOUS
<1>2. job[r] \in Job
  BY DEF DelegationTypeOK
<1> HIDE DEF passed
<1>3. [job[r] EXCEPT !.pc = "compare", !.passed = passed] \in Job
  BY <1>1, <1>2 DEF Job, Steps
<1>4. [job[r] EXCEPT !.pc = "test", !.script = script, !.test = test] \in Job
  BY <1>2 DEF Job, Steps, DelegationTypeOK
<1> QED BY <1>3, <1>4 DEF passed

\* What an edit does to a run: its ghosts may be set, and nothing else.
LEMMA NoticedKeeps ==
  ASSUME job \in [Runners -> Job], NEW s, NEW t
  PROVE  /\ Noticed(s, t) \in [Runners -> Job]
         /\ \A r \in Runners :
              LET old == job[r]
                  now == Noticed(s, t)[r]
              IN  /\ now.pc = old.pc /\ now.kind = old.kind /\ now.vetted = old.vetted
                  /\ now.script = old.script /\ now.test = old.test
                  /\ now.passed = old.passed /\ now.copy = old.copy
                  /\ old.early => now.early
                  /\ old.restored => now.restored
                  /\ old.pc = "pin" => now.early
                  /\ old.pc \in {"test", "compare"} /\ (s = old.script \/ t = old.test)
                       => now.restored
<1> DEFINE early(r) == job[r].early \/ job[r].pc = "pin"
           restored(r) == job[r].restored \/ /\ job[r].pc \in {"test", "compare"}
                                             /\ s = job[r].script \/ t = job[r].test
           new(r) == [job[r] EXCEPT !.early = early(r), !.restored = restored(r)]
<1>1. Noticed(s, t) = [r \in Runners |-> new(r)]
  BY Zenon DEF Noticed
<1>2. \A r \in Runners : early(r) \in BOOLEAN /\ restored(r) \in BOOLEAN
  OBVIOUS
<1> HIDE DEF early, restored
<1>3. ASSUME NEW r \in Runners
      PROVE  /\ new(r) \in Job
             /\ new(r).pc = job[r].pc /\ new(r).kind = job[r].kind
             /\ new(r).vetted = job[r].vetted /\ new(r).script = job[r].script
             /\ new(r).test = job[r].test /\ new(r).passed = job[r].passed
             /\ new(r).copy = job[r].copy
             /\ new(r).early = early(r) /\ new(r).restored = restored(r)
  BY <1>2 DEF Job
<1> HIDE DEF new
<1>4. Noticed(s, t) \in [Runners -> Job] /\ \A r \in Runners : Noticed(s, t)[r] = new(r)
  BY <1>1, <1>3
<1>5. \A r \in Runners :
        /\ job[r].early \/ job[r].pc = "pin" => early(r)
        /\ job[r].restored => restored(r)
        /\ job[r].pc \in {"test", "compare"} /\ (s = job[r].script \/ t = job[r].test)
             => restored(r)
  BY Zenon DEF early, restored
<1> QED BY <1>3, <1>4, <1>5

\* Types are invariant; a run past its pin has a test, and one that executes a copy.
THEOREM DelegationTypeCorrect == DelegationSpec => []DelegationTypeOK
<1> USE DelegationAssumption
<1>1. DelegationInit => DelegationTypeOK
  BY DEF DelegationInit, DelegationTypeOK, Idle, Job, Steps, Kinds, Versions
<1>2. DelegationTypeOK /\ [DelegationNext]_delegationvars => DelegationTypeOK'
  <2> SUFFICES ASSUME DelegationTypeOK, [DelegationNext]_delegationvars
               PROVE  DelegationTypeOK'
    OBVIOUS
  <2> USE DEF DelegationTypeOK
  <2>1. ASSUME NEW t \in Tests, Scaffold(t) PROVE DelegationTypeOK'
    BY <2>1, NoticedKeeps DEF Scaffold, Versions
  <2>2. ASSUME NEW r \in Runners, NEW kind \in Kinds, Start(r, kind) PROVE DelegationTypeOK'
    BY <2>2, TypeStart
  <2>3. ASSUME NEW r \in Runners, Pin(r) PROVE DelegationTypeOK'
    <3>1. [job[r] EXCEPT !.pc = "test", !.script = script, !.test = test] \in Job
      BY HeldTyped
    <3> QED BY <2>3, <3>1, TypeGo DEF Pin, Job
  <2>4. ASSUME NEW r \in Runners, Test(r) PROVE DelegationTypeOK'
    <3>1. [job[r] EXCEPT !.pc = "compare", !.passed = <<test, script>> \in Passing] \in Job
      BY HeldTyped
    <3> QED BY <2>4, <3>1, TypeGo DEF Test, Job
  <2>5. ASSUME NEW r \in Runners, Compare(r) PROVE DelegationTypeOK'
    <3>1. [job[r] EXCEPT !.pc = "check"] \in Job
      BY <2>5 DEF Job, Steps
    <3> QED BY <2>5, <3>1, TypeGo DEF Compare, Job
  <2>6. ASSUME NEW r \in Runners, Check(r) PROVE DelegationTypeOK'
    <3>1. [job[r] EXCEPT !.pc = "snapshot"] \in Job
      BY <2>6 DEF Job, Steps
    <3> QED BY <2>6, <3>1, TypeGo DEF Check, Job
  <2>7. ASSUME NEW r \in Runners, Snapshot(r) PROVE DelegationTypeOK'
    <3>1. [job[r] EXCEPT !.pc = "execute", !.copy = script] \in Job
      BY <2>7 DEF Job, Steps
    <3> QED BY <2>7, <3>1, TypeGo DEF Snapshot, Job, Versions
  <2>8. ASSUME NEW r \in Runners, Execute(r) PROVE DelegationTypeOK'
    <3>1. job[r] \in Job /\ job[r].test \in Tests /\ job[r].copy \in Scripts
      BY <2>8 DEF Execute
    <3>2. Idle \in Job
      BY DEF Idle, Job, Steps, Kinds, Versions
    <3> QED BY <2>8, <3>1, <3>2 DEF Execute, Idle, Job
  <2>9. ASSUME NEW r \in Runners, Abandon(r) PROVE DelegationTypeOK'
    <3>1. Idle \in Job
      BY DEF Idle, Job, Steps, Kinds, Versions
    <3> QED BY <2>9, <3>1, TypeGo DEF Abandon, Idle
  <2>10. ASSUME NEW s \in Versions, EditScript(s) PROVE DelegationTypeOK'
    BY <2>10, NoticedKeeps DEF EditScript
  <2>11. ASSUME NEW t \in Tests \cup {NoFile}, EditTest(t) PROVE DelegationTypeOK'
    BY <2>11, NoticedKeeps DEF EditTest
  <2>12. CASE Sign
    BY <2>12 DEF Sign
  <2>13. CASE UNCHANGED delegationvars
    BY <2>13 DEF delegationvars
  <2> QED
    BY <2>1, <2>2, <2>3, <2>4, <2>5, <2>6, <2>7, <2>8, <2>9, <2>10, <2>11, <2>12, <2>13
    DEF DelegationNext, Versions
<1> QED BY <1>1, <1>2, PTL DEF DelegationSpec

\* What the digests a run holds are worth at each of its steps: a test that passed
\* passed on the pinned files unless one of them is another by now or was put back,
\* and what was pinned is what was vetted unless it was edited before the pin.
Tested(r) ==
  /\ job[r].pc = "compare" /\ job[r].passed /\ ~job[r].restored =>
       \/ <<job[r].test, job[r].script>> \in Passing
       \/ script # job[r].script
       \/ test # job[r].test
  /\ job[r].pc \in {"check", "snapshot", "execute"} /\ ~job[r].restored =>
       <<job[r].test, job[r].script>> \in Passing

Vetted(r) ==
  /\ job[r].pc = "pin" /\ ~job[r].early => script = job[r].vetted
  /\ job[r].pc \notin {"idle", "pin"} /\ ~job[r].early => job[r].script = job[r].vetted
  /\ job[r].pc = "execute" => job[r].copy = job[r].script

DelegationInv ==
  /\ \A r \in Runners : Tested(r) /\ Vetted(r)
  /\ RanWasTested /\ RanWasVetted

\* A step of one run that keeps the two for that run keeps them for all.
LEMMA InvGo ==
  ASSUME DelegationTypeOK, DelegationInv, NEW r \in Runners, NEW new \in Job, Go(r, new),
         Tested(r)', Vetted(r)'
  PROVE  DelegationInv'
<1>1. \A q \in Runners : q # r => job'[q] = job[q]
  BY DEF Go, DelegationTypeOK
<1>2. \A q \in Runners : q # r => Tested(q)' /\ Vetted(q)'
  BY <1>1 DEF DelegationInv, Go, Tested, Vetted
<1>3. RanWasTested' /\ RanWasVetted'
  BY DEF DelegationInv, Go, RanWasTested, RanWasVetted
<1> QED BY <1>2, <1>3 DEF DelegationInv

\* An edit of either file keeps them too: the ghosts notice it.
LEMMA InvEdit ==
  ASSUME DelegationTypeOK, DelegationInv, NEW s, NEW t,
         job' = Noticed(s, t), executed' = executed,
         script' = script \/ script' = s,
         test' = test \/ test' = t
  PROVE  DelegationInv'
<1> SUFFICES ASSUME NEW r \in Runners PROVE Tested(r)' /\ Vetted(r)'
  BY DEF DelegationInv, RanWasTested, RanWasVetted
<1>1. Tested(r) /\ Vetted(r)
  BY DEF DelegationInv
<1>2. job \in [Runners -> Job]
  BY DEF DelegationTypeOK
<1>3. Tested(r)'
  BY <1>1, <1>2, NoticedKeeps DEF Tested
<1>4. Vetted(r)'
  BY <1>1, <1>2, NoticedKeeps DEF Vetted
<1> QED BY <1>3, <1>4

\* What a run's digests are worth, at every step of any number of runs.
LEMMA DelegationInvariant == DelegationSpec => []DelegationInv
<1> USE DelegationAssumption
<1>1. DelegationInit => DelegationInv
  BY DEF DelegationInit, DelegationInv, Tested, Vetted, RanWasTested, RanWasVetted, Idle
<1>2. DelegationTypeOK /\ DelegationInv /\ [DelegationNext]_delegationvars => DelegationInv'
  <2> SUFFICES ASSUME DelegationTypeOK, DelegationInv, [DelegationNext]_delegationvars
               PROVE  DelegationInv'
    OBVIOUS
  <2>0. job \in [Runners -> Job]
    BY DEF DelegationTypeOK
  <2>1. ASSUME NEW t \in Tests, Scaffold(t) PROVE DelegationInv'
    BY <2>1, InvEdit DEF Scaffold
  <2>2. ASSUME NEW r \in Runners, NEW kind \in Kinds, Start(r, kind) PROVE DelegationInv'
    <3>1. \A q \in Runners : q # r => job'[q] = job[q]
      BY <2>0, <2>2 DEF Start
    <3>2. \A q \in Runners : q # r => Tested(q)' /\ Vetted(q)'
      BY <3>1, <2>2 DEF DelegationInv, Start, Tested, Vetted
    <3>3. job'[r].pc = "pin" /\ job'[r].vetted = script
      BY <2>0, <2>2 DEF Start, Idle
    <3>4. Tested(r)' /\ Vetted(r)'
      BY <3>3, <2>2 DEF Start, Tested, Vetted
    <3> QED BY <2>2, <3>2, <3>4 DEF DelegationInv, Start, RanWasTested, RanWasVetted
  <2>3. ASSUME NEW r \in Runners, Pin(r) PROVE DelegationInv'
    <3> DEFINE new == [job[r] EXCEPT !.pc = "test", !.script = script, !.test = test]
    <3>1. new \in Job /\ Go(r, new) /\ job'[r] = new
      BY <2>0, <2>3, HeldTyped DEF Pin, Go
    <3>2. Tested(r)' /\ Vetted(r)'
      BY <2>0, <2>3, <3>1 DEF Pin, DelegationInv, Tested, Vetted, Job
    <3> QED BY <3>1, <3>2, InvGo
  <2>4. ASSUME NEW r \in Runners, Test(r) PROVE DelegationInv'
    <3> DEFINE new == [job[r] EXCEPT !.pc = "compare", !.passed = <<test, script>> \in Passing]
    <3>1. new \in Job /\ Go(r, new) /\ job'[r] = new
      BY <2>0, <2>4, HeldTyped DEF Test, Go
    <3>2. Tested(r)' /\ Vetted(r)'
      BY <2>0, <2>4, <3>1 DEF Test, Go, DelegationInv, Tested, Vetted, Job
    <3> QED BY <3>1, <3>2, InvGo
  <2>5. ASSUME NEW r \in Runners, Compare(r) PROVE DelegationInv'
    <3> DEFINE new == [job[r] EXCEPT !.pc = "check"]
    <3>1. new \in Job /\ Go(r, new) /\ job'[r] = new
      BY <2>0, <2>5 DEF Compare, Go, Job, Steps
    <3>2. Tested(r)' /\ Vetted(r)'
      BY <2>0, <2>5, <3>1 DEF Compare, Go, DelegationInv, Tested, Vetted, Job
    <3> QED BY <3>1, <3>2, InvGo
  <2>6. ASSUME NEW r \in Runners, Check(r) PROVE DelegationInv'
    <3> DEFINE new == [job[r] EXCEPT !.pc = "snapshot"]
    <3>1. new \in Job /\ Go(r, new) /\ job'[r] = new
      BY <2>0, <2>6 DEF Check, Go, Job, Steps
    <3>2. Tested(r)' /\ Vetted(r)'
      BY <2>0, <2>6, <3>1 DEF Check, Go, DelegationInv, Tested, Vetted, Job
    <3> QED BY <3>1, <3>2, InvGo
  <2>7. ASSUME NEW r \in Runners, Snapshot(r) PROVE DelegationInv'
    <3> DEFINE new == [job[r] EXCEPT !.pc = "execute", !.copy = script]
    <3>1. new \in Job /\ Go(r, new) /\ job'[r] = new
      BY <2>0, <2>7 DEF Snapshot, Go, Job, Steps, DelegationTypeOK
    <3>2. Tested(r)' /\ Vetted(r)'
      BY <2>0, <2>7, <3>1 DEF Snapshot, Go, DelegationInv, Tested, Vetted, Job
    <3> QED BY <3>1, <3>2, InvGo
  <2>8. ASSUME NEW r \in Runners, Execute(r) PROVE DelegationInv'
    <3>1. Tested(r) /\ Vetted(r) /\ job[r].pc = "execute"
      BY <2>8 DEF DelegationInv, Execute
    <3>2. \A q \in Runners : q # r => job'[q] = job[q]
      BY <2>0, <2>8 DEF Execute
    <3>3. job'[r].pc = "idle"
      BY <2>0, <2>8 DEF Execute, Idle
    <3>4. \A q \in Runners : Tested(q)' /\ Vetted(q)'
      BY <2>8, <3>2, <3>3 DEF DelegationInv, Execute, Tested, Vetted
    <3>5. RanWasTested'
      BY <2>8, <3>1 DEF DelegationInv, Execute, Tested, Vetted, RanWasTested
    <3>6. RanWasVetted'
      BY <2>8, <3>1 DEF DelegationInv, Execute, Vetted, RanWasVetted
    <3> QED BY <3>4, <3>5, <3>6 DEF DelegationInv
  <2>9. ASSUME NEW r \in Runners, Abandon(r) PROVE DelegationInv'
    <3>1. Idle \in Job /\ Go(r, Idle) /\ job'[r] = Idle
      BY <2>0, <2>9 DEF Abandon, Go, Idle, Job, Steps, Kinds, Versions
    <3>2. Tested(r)' /\ Vetted(r)'
      BY <3>1 DEF Tested, Vetted, Idle
    <3> QED BY <3>1, <3>2, InvGo
  <2>10. ASSUME NEW s \in Versions, EditScript(s) PROVE DelegationInv'
    BY <2>10, InvEdit DEF EditScript
  <2>11. ASSUME NEW t \in Tests \cup {NoFile}, EditTest(t) PROVE DelegationInv'
    BY <2>11, InvEdit DEF EditTest
  <2>12. CASE Sign
    BY <2>12 DEF Sign, DelegationInv, Tested, Vetted, RanWasTested, RanWasVetted
  <2>13. CASE UNCHANGED delegationvars
    BY <2>13 DEF delegationvars, DelegationInv, Tested, Vetted, RanWasTested, RanWasVetted
  <2> QED
    BY <2>1, <2>2, <2>3, <2>4, <2>5, <2>6, <2>7, <2>8, <2>9, <2>10, <2>11, <2>12, <2>13
    DEF DelegationNext, Versions
<1> QED BY <1>1, <1>2, DelegationTypeCorrect, PTL DEF DelegationSpec

\* Whatever is rewritten and when, a script that ran on live data is one its paired
\* test passed on, unless a file was put back while the test was on (run_test()'s
\* pins and run()'s snapshot).
THEOREM AlwaysRanWasTested == DelegationSpec => []RanWasTested
BY DelegationInvariant, PTL DEF DelegationInv

\* A script run under a signature, or in place of a read, is the one that was
\* verified or digested, unless it was edited before the test pinned it.
THEOREM AlwaysRanWasVetted == DelegationSpec => []RanWasVetted
BY DelegationInvariant, PTL DEF DelegationInv

\* In the scenes of both, the AI-CAIQ's files and the delegated runs have their types.
THEOREM ToolsTypeCorrect == MCSpec => []ToolsTypeOK
<1>1. CaiqInv => TypeOK
  <2> SUFFICES ASSUME CaiqInv PROVE TypeOK
    OBVIOUS
  <2>1. ASSUME NEW q \in Provers \cup Clerks, desk[q].pc \in {"derived", "fill"}
        PROVE  desk[q].doc \in Answers
    BY <2>1, DeskFields DEF CaiqInv, Writers, Drafts
  <2> QED BY <2>1 DEF CaiqInv, StoreSound, FileTypes, RunsDigested, TypeOK
<1>2. MCSpec => DelegationSpec
  <2>1. MCInit => DelegationInit
    BY ToolsBegin
  <2>2. [MCNext]_toolvars => [DelegationNext]_delegationvars
    BY ToolsStep DEF delegation
  <2> QED BY <2>1, <2>2, PTL DEF MCSpec, DelegationSpec, toolvars
<1> QED BY <1>1, <1>2, CaiqInvariant, DelegationTypeCorrect, PTL DEF ToolsTypeOK

----------------------------------------------------------------------------
(* The end of a turn and the install, proved in modules of their own *)

Ending == INSTANCE TurnsProofs
Setting == INSTANCE ProfileProofs

\* The module that was proved about is the one of the scene.
LEMMA SameTurns ==
  /\ Turning!Init <=> Ending!Init
  /\ Turning!Next <=> Ending!Next
  /\ Turning!UnclosedIsNamed <=> Ending!UnclosedIsNamed
<1>1. Turning!Init <=> Ending!Init
  BY DEF Turning!Init, Ending!Init, Turning!NoStop, Ending!NoStop
<1>2. ASSUME NEW c \in Calls
      PROVE  /\ Turning!Dispatch(c) <=> Ending!Dispatch(c)
             /\ Turning!Result(c) <=> Ending!Result(c)
             /\ Turning!Failure(c) <=> Ending!Failure(c)
  BY Zenon
  DEF Turning!Dispatch, Ending!Dispatch, Turning!Result, Ending!Result,
      Turning!Failure, Ending!Failure, Turning!SessionOf, Ending!SessionOf,
      Turning!NoId, Ending!NoId, Turning!NoStop, Ending!NoStop, Turning!Instance_,
      Ending!Instance_, Turning!Plain, Ending!Plain, Turning!Append_, Ending!Append_,
      Turning!Gate, Ending!Gate, Turning!Post, Ending!Post
<1>3. Turning!Rotate <=> Ending!Rotate
  BY Zenon DEF Turning!Rotate, Ending!Rotate
<1>4. Turning!LoadTurn <=> Ending!LoadTurn
  BY Zenon DEF Turning!LoadTurn, Ending!LoadTurn, Turning!NoStop, Ending!NoStop
<1>5. Turning!Reconcile <=> Ending!Reconcile
  BY Zenon
  DEF Turning!Reconcile, Ending!Reconcile, Turning!Instances, Ending!Instances,
      Turning!Severity, Ending!Severity, Turning!Findings, Ending!Findings,
      Turning!Unclosed, Ending!Unclosed, Turning!Wakes, Ending!Wakes,
      Turning!WakeHuman, Ending!WakeHuman, Turning!WakeOperator, Ending!WakeOperator,
      Turning!Routine, Ending!Routine, Turning!SessionOf, Ending!SessionOf,
      Turning!NoId, Ending!NoId, Turning!NoStop, Ending!NoStop, Turning!Instance_,
      Ending!Instance_, Turning!Plain, Ending!Plain, Turning!Append_, Ending!Append_,
      Turning!Gate, Ending!Gate, Turning!Post, Ending!Post
<1>6. Turning!Next <=> Ending!Next
  BY Zenon, <1>2, <1>3, <1>4, <1>5 DEF Turning!Next, Ending!Next
<1>7. Turning!UnclosedIsNamed <=> Ending!UnclosedIsNamed
  BY Zenon DEF Turning!UnclosedIsNamed, Ending!UnclosedIsNamed, Turning!Holds, Ending!Holds
<1> QED BY <1>1, <1>6, <1>7

\* What a Stop names unclosed is what was opened and never closed: TurnsProofs proves
\* it of turn_stop() alone, and so it is in the scene.
THEOREM SceneUnclosedIsNamed == Ending!OwnAreCalls => (MCSpec => []UnclosedIsNamed)
<1>1. MCInit => Ending!Init
  BY ToolsBegin, SameTurns
<1>2. [MCNext]_toolvars => [Ending!Next]_(Ending!turnvars)
  BY ToolsStep, SameTurns DEF turns, Ending!turnvars
<1>3. Ending!UnclosedIsNamed => UnclosedIsNamed
  BY SameTurns DEF UnclosedIsNamed
<1> QED BY <1>1, <1>2, <1>3, Ending!AlwaysUnclosedIsNamed, PTL DEF MCSpec, Ending!Spec, toolvars

\* Likewise of the installer.
LEMMA SameProfile ==
  /\ Installing!Init <=> Setting!Init
  /\ Installing!Next <=> Setting!Next
  /\ Installing!RegisteredRuns <=> Setting!RegisteredRuns
  /\ Installing!LedgerStaysVerifiable <=> Setting!LedgerStaysVerifiable
<1>1. Installing!Init <=> Setting!Init
  BY DEF Installing!Init, Setting!Init
<1>2. /\ Installing!Build <=> Setting!Build
      /\ Installing!Unhealthy <=> Setting!Unhealthy
      /\ Installing!DropRollback <=> Setting!DropRollback
      /\ Installing!MoveOld <=> Setting!MoveOld
      /\ Installing!MoveNew <=> Setting!MoveNew
      /\ Installing!ScriptsWritten <=> Setting!ScriptsWritten
      /\ Installing!Register <=> Setting!Register
      /\ Installing!Generate <=> Setting!Generate
      /\ Installing!FillKey <=> Setting!FillKey
      /\ Installing!HasKey <=> Setting!HasKey
      /\ Installing!Unregister <=> Setting!Unregister
      /\ Installing!RemoveScripts <=> Setting!RemoveScripts
      /\ Installing!RemoveRuntime <=> Setting!RemoveRuntime
      /\ Installing!Stop <=> Setting!Stop
      /\ Installing!Reformat <=> Setting!Reformat
  BY Zenon
  DEF Installing!Build, Setting!Build, Installing!Unhealthy, Setting!Unhealthy,
      Installing!DropRollback, Setting!DropRollback, Installing!MoveOld,
      Setting!MoveOld, Installing!MoveNew, Setting!MoveNew,
      Installing!ScriptsWritten, Setting!ScriptsWritten, Installing!Register,
      Setting!Register, Installing!Generate, Setting!Generate, Installing!FillKey,
      Setting!FillKey, Installing!HasKey, Setting!HasKey, Installing!Unregister,
      Setting!Unregister, Installing!RemoveScripts, Setting!RemoveScripts,
      Installing!RemoveRuntime, Setting!RemoveRuntime, Installing!Stop, Setting!Stop,
      Installing!Reformat, Setting!Reformat, Installing!Step, Setting!Step,
      Installing!installed, Setting!installed, Installing!keys, Setting!keys
<1>3. ASSUME NEW h \in Hooks
      PROVE  /\ Installing!Truncate(h) <=> Setting!Truncate(h)
             /\ Installing!WriteScript(h) <=> Setting!WriteScript(h)
  BY Zenon
  DEF Installing!Truncate, Setting!Truncate, Installing!WriteScript,
      Setting!WriteScript, Installing!Step, Setting!Step, Installing!keys,
      Setting!keys
<1>4. /\ Installing!Record <=> Setting!Record
      /\ Installing!Emit <=> Setting!Emit
      /\ Installing!Serve <=> Setting!Serve
      /\ Installing!RecordServed <=> Setting!RecordServed
      /\ Installing!Retire <=> Setting!Retire
      /\ Installing!Provide <=> Setting!Provide
  BY Zenon
  DEF Installing!Record, Setting!Record, Installing!Emit, Setting!Emit,
      Installing!Serve, Setting!Serve, Installing!RecordServed, Setting!RecordServed,
      Installing!Retire, Setting!Retire, Installing!Provide, Setting!Provide,
      Installing!installed, Setting!installed, Installing!Discovered,
      Setting!Discovered, Installing!FromKeychain, Setting!FromKeychain,
      Installing!FromKeyfile, Setting!FromKeyfile, Installing!FromEnv,
      Setting!FromEnv, Installing!Preferred, Setting!Preferred,
      Installing!KeyIdOfLedger, Setting!KeyIdOfLedger, Installing!Accepts,
      Setting!Accepts
<1>5. Installing!Next <=> Setting!Next
  BY Zenon, <1>2, <1>3, <1>4 DEF Installing!Next, Setting!Next
<1>6. Installing!RegisteredRuns <=> Setting!RegisteredRuns
  BY Zenon DEF Installing!RegisteredRuns, Setting!RegisteredRuns
<1>7. Installing!LedgerStaysVerifiable <=> Setting!LedgerStaysVerifiable
  BY Zenon
  DEF Installing!LedgerStaysVerifiable, Setting!LedgerStaysVerifiable,
      Installing!Discovered, Setting!Discovered, Installing!FromKeychain,
      Setting!FromKeychain, Installing!FromKeyfile, Setting!FromKeyfile,
      Installing!FromEnv, Setting!FromEnv, Installing!Preferred, Setting!Preferred,
      Installing!KeyIdOfLedger, Setting!KeyIdOfLedger
<1> QED BY <1>1, <1>5, <1>6, <1>7

\* A behaviour of the scenes is one of the installer.
LEMMA SceneIsProfile == MCSpec => Setting!Spec
<1>1. MCInit => Setting!Init
  BY ToolsBegin, SameProfile
<1>2. [MCNext]_toolvars => [Setting!Next]_(Setting!profilevars)
  BY ToolsStep, SameProfile
  DEF profile, Setting!profilevars, Setting!installed, Setting!keys
<1> QED BY <1>1, <1>2, PTL DEF MCSpec, Setting!Spec, toolvars

\* A registered hook finds its script whole and a runtime to import, unless an installer
\* is replacing them, or was killed at that and none has come through since; and then
\* the runtime or the one before it is still there: ProfileProofs proves it of the
\* installer alone, and so it is in the scene.
THEOREM SceneRegisteredRuns == MCSpec => []RegisteredRuns
<1>1. Setting!RegisteredRuns => RegisteredRuns
  BY SameProfile DEF RegisteredRuns
<1> QED BY <1>1, SceneIsProfile, Setting!AlwaysRegisteredRuns, PTL

\* A key that records are under is never lost.
THEOREM SceneLedgerVerifiable == Setting!KeysDiffer => (MCSpec => []LedgerStaysVerifiable)
<1>1. Setting!LedgerStaysVerifiable => LedgerStaysVerifiable
  BY SameProfile DEF LedgerStaysVerifiable
<1> QED BY <1>1, SceneIsProfile, Setting!LedgerAlwaysVerifiable, PTL
=============================================================================

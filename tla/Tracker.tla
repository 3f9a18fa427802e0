------------------------------ MODULE Tracker ------------------------------
(***************************************************************************)
(* The audit findings on the issue tracker: scripts/file_audit_issues.py   *)
(* files an issue for what scripts/audit_verify.py finds present, and      *)
(* closes the issues of what it finds absent.  A run reads the findings,   *)
(* then lists the issues, then acts on the two lists, while the tree is    *)
(* fixed or a fix is lost, other runs go on, and the tracker does what it  *)
(* was asked with or without saying so.                                    *)
(***************************************************************************)
EXTENDS Sequences, Integers

CONSTANTS
  AuditFindings,  \* audit findings; the id of each starts with SG-HARD-
  Other,          \* what an issue that is none of theirs is about
  ListLimit,      \* how many issues `gh issue list` is asked for
  Filers,         \* processes
  MaxIssues       \* bound: issues

VARIABLES
  status,     \* what the predicate of each finding says of the tree now
  issues,     \* the tracker: its issues, in the order they were created
  filer,      \* what each process holds
  overlapped  \* ghost: one listed the issues while another was filing

trackervars == <<status, issues, filer, overlapped>>

Statuses == {"PRESENT", "ABSENT", "DYNAMIC"}
Idle == [pc |-> "idle"]

Init ==
  /\ status \in [AuditFindings -> Statuses \ {"ABSENT"}]
  /\ issues = << >> /\ filer = [q \in Filers |-> Idle] /\ overlapped = FALSE

Hold(q, new) == filer' = [filer EXCEPT ![q] = new]

\* gh issue list --limit: the newest issues only
Listed == {i \in DOMAIN issues : i + ListLimit > Len(issues)}

TitlesOpen ==  \* mutant: --state all is left out
  {issues[i].finding : i \in {j \in Listed : issues[j].state = "OPEN"}}

\* existing_titles(): open or closed
Titles == {issues[i].finding : i \in Listed}

\* issue_numbers(): one number of each finding, the oldest that is listed, as
\* newer ones are listed before it
Numbers ==
  {i \in Listed : \A j \in Listed :
     issues[j].finding = issues[i].finding => i <= j}

\* plan(): the findings in scope
Plan(q) ==
  /\ filer[q].pc = "idle"
  /\ Hold(q, [pc |-> "plan", rows |-> {f \in AuditFindings : status[f] # "ABSENT"}])
  /\ UNCHANGED <<status, issues, overlapped>>

\* main(): those without an issue are to be filed
List(q) ==
  /\ filer[q].pc = "plan"
  /\ Hold(q, [pc |-> "file", todo |-> filer[q].rows \ Titles])
  /\ overlapped' = (overlapped \/ \E p \in Filers : filer[p].pc = "file")
  /\ UNCHANGED <<status, issues>>

\* gh issue create; a failure is passed over, a timeout ends the run
Create(q, f) ==
  /\ filer[q].pc = "file" /\ f \in filer[q].todo /\ Len(issues) < MaxIssues
  /\ issues' = Append(issues, [finding |-> f, state |-> "OPEN"])
  /\ \/ Hold(q, [filer[q] EXCEPT !.todo = @ \ {f}])
     \/ Hold(q, Idle)
  /\ UNCHANGED <<status, overlapped>>

CreateFails(q, f) ==
  /\ filer[q].pc = "file" /\ f \in filer[q].todo
  /\ Hold(q, [filer[q] EXCEPT !.todo = @ \ {f}])
  /\ UNCHANGED <<status, issues, overlapped>>

\* close_fixed(): what is absent, and the numbers with the states they have
Absent(q) ==
  /\ filer[q].pc = "idle"
  /\ Hold(q, [pc |-> "absent", rows |-> {f \in AuditFindings : status[f] = "ABSENT"}])
  /\ UNCHANGED <<status, issues, overlapped>>

ListNumbers(q) ==
  /\ filer[q].pc = "absent"
  /\ Hold(q, [pc |-> "close",
              todo |-> {i \in Numbers : /\ issues[i].finding \in filer[q].rows
                                        /\ issues[i].state = "OPEN"}])
  /\ UNCHANGED <<status, issues, overlapped>>

\* gh issue close, or its failure
Close(q, i) ==
  /\ filer[q].pc = "close" /\ i \in filer[q].todo
  /\ Hold(q, [filer[q] EXCEPT !.todo = @ \ {i}])
  /\ issues' \in {issues, [issues EXCEPT ![i].state = "CLOSED"]}
  /\ UNCHANGED <<status, overlapped>>

\* Nothing is left to do, --limit is reached, or the run is killed
Leave(q) ==
  /\ filer[q].pc # "idle" /\ Hold(q, Idle)
  /\ UNCHANGED <<status, issues, overlapped>>

\* Somebody opens an issue that is about no finding
OpenOther ==
  /\ Len(issues) < MaxIssues
  /\ issues' = Append(issues, [finding |-> Other, state |-> "OPEN"])
  /\ UNCHANGED <<status, filer, overlapped>>

\* A fix, or its loss; what no predicate settles stays DYNAMIC
Change(f) ==
  /\ status[f] # "DYNAMIC"
  /\ status' = [status EXCEPT ![f] = IF @ = "ABSENT" THEN "PRESENT" ELSE "ABSENT"]
  /\ UNCHANGED <<issues, filer, overlapped>>

Next ==
  \/ \E q \in Filers :
       \/ Plan(q) \/ List(q) \/ Absent(q) \/ ListNumbers(q) \/ Leave(q)
       \/ \E f \in AuditFindings : Create(q, f) \/ CreateFails(q, f)
       \/ \E i \in DOMAIN issues : Close(q, i)
  \/ OpenOther
  \/ \E f \in AuditFindings : Change(f)

Spec == Init /\ [][Next]_trackervars

----------------------------------------------------------------------------
(* Properties *)

\* However often the script is run, killed, timed out or interleaved with fixes,
\* regressions and other people's issues, and unless two runs file at once, a
\* finding gets another issue only when more issues than gh lists have hidden the
\* one it has; and the script closes no issue but that of a finding that a
\* predicate settles (file_audit_issues.py:14, 45-54)
TrackerKeepsUp ==
  /\ ~overlapped =>
       \A i, j \in DOMAIN issues :
         /\ i < j
         /\ issues[i].finding = issues[j].finding /\ issues[i].finding # Other
         => j - i > ListLimit
  /\ \A i \in DOMAIN issues :
       issues[i].state = "CLOSED" =>
         issues[i].finding # Other /\ status[issues[i].finding] # "DYNAMIC"
=============================================================================

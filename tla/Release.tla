------------------------------ MODULE Release ------------------------------
(***************************************************************************)
(* The release bundle: scripts/release_bundle.py writes down what          *)
(* `attest --self` says of the working tree, what the audit predicates say *)
(* and the digests of the files the release consists of, one after the     *)
(* other, and --verify compares those digests with a tree.                 *)
(*                                                                         *)
(* A file is its version, and its digest is that version.                  *)
(***************************************************************************)
EXTENDS Integers

CONSTANTS
  Files,     \* the files SUBJECT_GLOBS may match
  Contents,  \* the contents a file may have
  Gone,      \* a file that is not there
  MaxEdits   \* bound: edits of the tree

VARIABLES
  tree,     \* the working tree
  build,    \* what build() holds
  bundle,   \* dist/release-bundle.json
  verdict,  \* what the last --verify made of it
  edits     \* edits so far

releasevars == <<tree, build, bundle, verdict, edits>>

NoBundle == [there |-> FALSE]
NotBuilding == [pc |-> "idle"]

Init ==
  /\ tree \in [Files -> Contents]
  /\ build = NotBuilding /\ bundle = NoBundle /\ verdict = "none" /\ edits = 0

\* subject(): the files the globs match, with their digests
Subject == [f \in {g \in Files : tree[g] # Gone} |-> tree[f]]

\* build(): attest --self ...
Attest ==
  /\ build.pc = "idle"
  /\ build' = [pc |-> "audit", attested |-> Subject, quiet |-> TRUE]
  /\ UNCHANGED <<tree, bundle, verdict, edits>>

\* ... then run_all() ...
Audit ==
  /\ build.pc = "audit"
  /\ build' = [pc |-> "digest", attested |-> build.attested, audited |-> Subject,
               quiet |-> build.quiet]
  /\ UNCHANGED <<tree, bundle, verdict, edits>>

\* ... then the digests, and the bundle is written
WriteBundle ==
  /\ build.pc = "digest" /\ build' = NotBuilding
  /\ bundle' = [there |-> TRUE, subject |-> Subject, attested |-> build.attested,
                audited |-> build.audited, quiet |-> build.quiet]
  /\ verdict' = "none"
  /\ UNCHANGED <<tree, edits>>

Abandon ==
  /\ build # NotBuilding /\ build' = NotBuilding
  /\ UNCHANGED <<tree, bundle, verdict, edits>>

MatchesRecorded ==  \* mutant: a file that appeared is not looked for
  \A f \in DOMAIN bundle.subject : f \in DOMAIN Subject /\ Subject[f] = bundle.subject[f]

\* verify(): nothing changed, nothing missing, nothing added
Matches ==
  LET recorded == bundle.subject
      both == DOMAIN recorded \cap DOMAIN Subject
  IN  /\ \A f \in both : recorded[f] = Subject[f]
      /\ DOMAIN recorded \subseteq DOMAIN Subject
      /\ DOMAIN Subject \subseteq DOMAIN recorded

Verify ==
  /\ bundle.there /\ verdict' = IF Matches THEN "matches" ELSE "differs"
  /\ UNCHANGED <<tree, build, bundle, edits>>

\* A file is changed, removed or added
Edit(f, v) ==
  /\ v # tree[f] /\ edits < MaxEdits /\ edits' = edits + 1
  /\ tree' = [tree EXCEPT ![f] = v]
  /\ build' = IF build = NotBuilding THEN build ELSE [build EXCEPT !.quiet = FALSE]
  /\ verdict' = "none"
  /\ UNCHANGED bundle

Next ==
  \/ Attest \/ Audit \/ WriteBundle \/ Abandon \/ Verify
  \/ \E f \in Files, v \in Contents \cup {Gone} : Edit(f, v)

Spec == Init /\ [][Next]_releasevars

----------------------------------------------------------------------------
(* Properties *)

\* A tree --verify calls the bundle's is, file for file, the one the attestation
\* and the audit in the bundle were made of, whatever was edited since; but a
\* bundle during whose building a file was edited says nothing, though the note
\* --verify prints makes no such exception (release_bundle.py:161)
BundleIsAttested ==
  verdict = "matches" /\ bundle.quiet =>
    Subject = bundle.attested /\ Subject = bundle.audited
=============================================================================

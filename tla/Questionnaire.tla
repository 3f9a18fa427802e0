---------------------------- MODULE Questionnaire ----------------------------
(***************************************************************************)
(* The AI-CAIQ: answers derived from the proven claims, the workbook       *)
(* filled from the answers, and what `attest --self` makes of both.        *)
(*                                                                         *)
(* Three kinds of process write the two files: the procedure of the        *)
(* release claim (CLAIM-21), which derives, writes and fills while         *)
(* `prove` runs it; the commands `caiq derive` and `caiq fill`; and people *)
(* with an editor.  The proofs are those of ProofStore, which Claims       *)
(* implements.                                                             *)
(*                                                                         *)
(* An answer is Yes, No or none, and the proofs it cites; its text and its *)
(* claims follow from those.  A workbook has a number of its own, because  *)
(* saving the same answers twice gives two digests.                        *)
(***************************************************************************)
EXTENDS ProofStore, FiniteSetsExt

CONSTANTS
  Controls,   \* the AICM controls
  Evidences,  \* the controls each claim is evidence of (its aicm)
  Release,    \* the claim whose procedure fills the workbook
  Negative,   \* the controls always answered No
  Proposed,   \* the controls that are not in the published workbook
  Provers,    \* processes that run the release claim's procedure
  Clerks,     \* processes that run `caiq derive` or `caiq fill`
  Missing,    \* a file that is not there
  MaxSaves,   \* bound: saves of the answers and of the workbook
  MaxPasses   \* bound: passing proofs

ASSUME QuestionnaireAssumption ==
  /\ Release \in Claims
  /\ Evidences \in [Claims -> SUBSET Controls]
  /\ Negative \subseteq Controls /\ Negative # {} /\ Proposed \subseteq Controls
  /\ Provers \cap Clerks = {}
  /\ MaxSaves \in Nat /\ MaxPasses \in Nat

VARIABLES
  usable,    \* what LoadedLog.usable says of the ledger
  answers,   \* docs/ai-caiq/stop-guessing.yaml
  workbook,  \* the filled .xlsx
  desk,      \* what each process holds of the two
  digests,   \* workbook_digest, by the proof whose evidence it is
  saves,     \* saves so far
  settled    \* ghost: a release proof was undisturbed, and nothing happened since

files == <<answers, workbook, digests, saves>>
vars == <<storevars, usable, files, desk, settled>>

Published == Controls \ Proposed

Answer   == [answer : {"Yes", "No", "none"}, refs : SUBSET Nat]
Answers  == [Controls -> Answer]
Workbook == [content : [Published -> Answer], number : Nat,
             by : Provers \cup Clerks \cup {Missing}]

ASSUME MissingAssumption == Missing \notin Answers \cup Workbook

\* derive(): only proven claims count, and never the release claim itself
ShownRelease(a) == {c \in proven : a \in Evidences[c]}  \* mutant: before #74
Shown(a) == {c \in proven \ {Release} : a \in Evidences[c]}
Derived ==
  [a \in Controls |->
     [answer |-> IF a \in Negative THEN "No"
                 ELSE IF Shown(a) = {} THEN "none" ELSE "Yes",
      refs |-> {live[c] : c \in Shown(a)}]]

\* fill() writes the published controls, and refuses the others
RenderedAll(doc) == doc  \* mutant: rows that CSA did not publish
Rendered(doc) == [a \in Published |-> doc[a]]

----------------------------------------------------------------------------
(* attest_self() *)

ReleaseRuns == {r \in DOMAIN passes : passes[r] = Release}

\* The digest is compared with the last passing proof of the release claim,
\* whether that proof is still live or not
WorkbookBound ==
  ReleaseRuns # {} /\ workbook # Missing /\ digests[Max(ReleaseRuns)] = workbook.number

Resolves(ref) == \E c \in Claims : live[c] = ref

FilledFromProofs ==
  /\ answers # Missing /\ WorkbookBound
  /\ \A a \in Published : \A ref \in answers[a].refs : Resolves(ref)

SelfAttested == proven = Claims /\ usable /\ FilledFromProofs

\* `caiq evidence`: every reference of the answers still resolves
EvidenceCode(keyed) ==
  IF answers = Missing THEN 1
  ELSE IF ~keyed THEN 2
  ELSE IF usable /\ \A a \in Published : \A ref \in answers[a].refs : Resolves(ref)
    THEN 0 ELSE 1

----------------------------------------------------------------------------
Nothing == [pc |-> "idle"]
Hold(q, new) == desk' = [desk EXCEPT ![q] = new]
Saved == saves < MaxSaves /\ saves' = saves + 1

\* Ghost: what the others hold is no longer all that happened
Disturb == [q \in DOMAIN desk |-> IF desk[q].pc = "idle" THEN desk[q]
                                  ELSE [desk[q] EXCEPT !.quiet = FALSE]]
HoldAndDisturb(q, new) == desk' = [Disturb EXCEPT ![q] = new]

Init ==
  /\ StoreInit /\ usable = TRUE
  /\ answers = Missing /\ workbook = Missing
  /\ desk = [q \in Provers \cup Clerks |-> Nothing]
  /\ digests = [r \in {} |-> 0] /\ saves = 0
  /\ settled = FALSE

\* Both ways to derive; a ledger that does not verify is refused by both
Derive(q) ==
  /\ desk[q].pc = "idle" /\ usable
  /\ Hold(q, [pc |-> "derived", doc |-> Derived, quiet |-> TRUE])
  /\ UNCHANGED <<storevars, usable, files, settled>>

\* The answers are written; the procedure goes on to the workbook
WriteAnswers(q) ==
  /\ desk[q].pc = "derived" /\ Saved
  /\ answers' = desk[q].doc
  /\ HoldAndDisturb(q, IF q \in Provers THEN [desk[q] EXCEPT !.pc = "fill"]
                                        ELSE Nothing)
  /\ settled' = FALSE
  /\ UNCHANGED <<storevars, usable, workbook, digests>>

CheckPresent(q) ==  \* mutant: before #73
  /\ q \in Clerks /\ desk[q].pc = "idle" /\ answers # Missing
  /\ Hold(q, [pc |-> "fill", doc |-> answers, quiet |-> TRUE])
  /\ UNCHANGED <<storevars, usable, files, settled>>

\* `caiq fill` refuses answers that deriving again does not give
CheckDrift(q) ==
  /\ q \in Clerks /\ desk[q].pc = "idle"
  /\ answers # Missing /\ Rendered(answers) = Rendered(Derived)
  /\ Hold(q, [pc |-> "fill", doc |-> answers, quiet |-> TRUE])
  /\ UNCHANGED <<storevars, usable, files, settled>>

Fill(q) ==
  /\ desk[q].pc = "fill" /\ Saved
  /\ workbook' = [content |-> Rendered(desk[q].doc), number |-> saves', by |-> q]
  /\ HoldAndDisturb(q, IF q \in Provers THEN [pc |-> "filled", quiet |-> desk[q].quiet]
                                        ELSE Nothing)
  /\ settled' = FALSE
  /\ UNCHANGED <<storevars, usable, answers, digests>>

\* The procedure ends: it digests the workbook as it is now and is recorded
RecordRelease(q) ==
  /\ desk[q].pc = "filled" /\ usable
  /\ \E ref \in 1..MaxPasses :
       /\ Pass(Release, ref)
       /\ ref = 1 + Cardinality(DOMAIN passes)
       /\ digests' = [r \in DOMAIN digests \cup {ref} |->
                        IF r = ref THEN workbook.number ELSE digests[r]]
  /\ HoldAndDisturb(q, Nothing)
  /\ settled' = desk[q].quiet
  /\ UNCHANGED <<usable, answers, workbook, saves>>

\* It fails, is refused or is killed: what it has written stays written
Fail(q) ==
  /\ desk[q].pc # "idle" /\ Hold(q, Nothing)
  /\ UNCHANGED <<storevars, usable, files, settled>>

\* Another claim is proved
PassOther(c) ==
  /\ c # Release /\ usable
  /\ Pass(c, 1 + Cardinality(DOMAIN passes)) /\ Cardinality(DOMAIN passes) < MaxPasses
  /\ desk' = Disturb /\ settled' = FALSE
  /\ UNCHANGED <<usable, files>>

\* One claim is seen differently: its newest proof is cited, or what the proof
\* was about moves away, or comes back
ReviewOne(c, ref, is) ==
  /\ usable /\ See(c, ref, is)
  /\ \A s \in DOMAIN passes : passes[s] = c /\ ref # 0 => s <= ref
  /\ desk' = Disturb /\ settled' = (settled /\ c = Release)
  /\ UNCHANGED <<usable, files>>

\* Someone flips an answer in the answers file, or in the workbook
Flip(answer) == IF answer = "Yes" THEN "No" ELSE "Yes"

EditAnswers(a) ==
  /\ answers # Missing /\ Saved
  /\ answers' = [answers EXCEPT ![a].answer = Flip(@)]
  /\ desk' = Disturb /\ settled' = FALSE
  /\ UNCHANGED <<storevars, usable, workbook, digests>>

EditWorkbook(a) ==
  /\ workbook # Missing /\ Saved
  /\ workbook' = [content |-> [workbook.content EXCEPT ![a].answer = Flip(@)],
                  number |-> saves', by |-> Missing]
  /\ desk' = Disturb /\ settled' = FALSE
  /\ UNCHANGED <<storevars, usable, answers, digests>>

\* The ledger stops verifying, and no claim is proven any more
Damage ==
  /\ usable /\ usable' = FALSE /\ proven' = {}
  /\ desk' = Disturb /\ settled' = FALSE
  /\ UNCHANGED <<passes, live, files>>

Next ==
  \/ \E q \in Provers \cup Clerks :
       \/ Derive(q) \/ WriteAnswers(q) \/ CheckDrift(q) \/ Fill(q)
       \/ RecordRelease(q) \/ Fail(q)
  \/ \E c \in Claims : PassOther(c)
  \/ \E c \in Claims, ref \in 0..MaxPasses, is \in BOOLEAN : ReviewOne(c, ref, is)
  \/ \E a \in Controls : EditAnswers(a)
  \/ \E a \in Published : EditWorkbook(a)
  \/ Damage

Spec == Init /\ [][Next]_vars

----------------------------------------------------------------------------
(* Properties *)

\* Every file has its type, and so does what a process holds of it
TypeOK ==
  /\ \A c \in Claims : Sound(c, live[c]) /\ (c \in proven => live[c] # 0)
  /\ answers \in Answers \cup {Missing}
  /\ workbook \in Workbook \cup {Missing}
  /\ workbook # Missing => workbook.number \in 1..saves
  /\ usable \in BOOLEAN /\ saves \in 0..MaxSaves
  /\ DOMAIN digests = ReleaseRuns /\ \A r \in ReleaseRuns : digests[r] \in 1..saves
  /\ \A q \in Provers \cup Clerks :
       desk[q].pc \in {"derived", "fill"} => desk[q].doc \in Answers

\* An answer somebody flipped in the answers file never reaches the workbook,
\* whichever commands overlap: only flipping it in the workbook itself puts it
\* there (#73, cmd_caiq.py:_answers_drift)
HandEditsStayOut ==
  workbook # Missing /\ workbook.by # Missing =>
    \A a \in Published :
      workbook.content[a].answer =
        IF a \in Negative THEN "No"
        ELSE IF workbook.content[a].refs = {} THEN "none" ELSE "Yes"

\* One undisturbed proof of the release claim is enough for `attest --self` to
\* call the workbook filled from proofs, and citing that proof does not undo it:
\* the recursion of #74 is cut; `caiq evidence` agrees, and so does the verdict
\* once every claim is proven
ReleaseRunSuffices ==
  settled => /\ FilledFromProofs /\ EvidenceCode(TRUE) = 0
             /\ proven = Claims => SelfAttested
=============================================================================

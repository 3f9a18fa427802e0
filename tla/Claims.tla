------------------------------- MODULE Claims -------------------------------
(***************************************************************************)
(* The claims of docs/claims.yaml and the proofs they cite.                *)
(*                                                                         *)
(* `stop-guessing prove` runs a claim's procedure, records what it saw in  *)
(* the proof ledger with digests of what it was about, pins the claim's    *)
(* scope beside it and rewrites claims.yaml.  `claims check` reads the     *)
(* three back and decides which claims are proven.  No lock covers         *)
(* claims.yaml and every digest is read from the disk after the run, so    *)
(* provers and editors overlap freely here.                                *)
(*                                                                         *)
(* A digest is the version it digests.  The ledger is the one of           *)
(* CustodyLedger: an append is atomic, or refused when it is unusable.     *)
(***************************************************************************)
EXTENDS Naturals, Sequences, FiniteSetsExt, SequencesExt

CONSTANTS
  Order,       \* the claims, in the order run_all() visits them
  Provers,     \* processes that run `stop-guessing prove`
  Hooks,       \* hook: surfaces, driven by a proof and registered in hooks.json
  Clis,        \* cli: and daemon: surfaces, driven by a proof
  Live,        \* plugin:, skill: and command: surfaces, which need a session
  Controls,    \* aicm controls
  Texts,       \* statements, with the must_touch and proof_kind beside them
  Procedures,  \* versions of a procedure's source
  Versions,    \* versions of the implementation, and of policy and rules
  Deleted,     \* an implementation whose module is gone: deleted, or renamed
  MustTouch,   \* the texts whose must_touch names a module a thin run misses
  OtherKind,   \* the texts and procedures of the second proof_kind
  Subprocess,  \* the claims whose procedure drives a child process
  Reaches,     \* what a run may show of itself: "raised", "empty", "part", "full"
  Absent,      \* a procedure that is not registered
  NoText,      \* the definition of a claim that could not be read
  MaxRuns,     \* bound: prove processes
  MaxActs      \* bound: edits of the claims, the code and the ledger, retractions

Claims == ToSet(Order)
Items == Hooks \cup Clis \cup Live \cup Controls
Implementations == Versions \cup {Deleted}

ASSUME ClaimsAssumption ==
  /\ Order \in Seq(Claims) /\ Order # <<>>
  /\ Subprocess \subseteq Claims
  /\ "raised" \in Reaches /\ Reaches \subseteq {"raised", "empty", "part", "full"}
  /\ Absent \notin Procedures /\ NoText \notin Texts /\ Deleted \notin Versions
  /\ MaxRuns \in Nat /\ MaxActs \in Nat

VARIABLES
  file,    \* claims.yaml, as last completely written
  torn,    \* TRUE while claims.yaml is truncated by a writer
  tree,    \* the code and the data a proof is about
  ledger,  \* the proof ledger
  usable,  \* what LoadedLog.usable says of it
  prover,  \* the prove processes
  runs,    \* prove processes so far
  acts     \* edits and retractions so far

vars == <<file, torn, tree, ledger, usable, prover, runs, acts>>

Definition == [text : Texts \cup {NoText}, scope : SUBSET Items]
Unread == [text |-> NoText, scope |-> {}]

\* CLAIM_DEFINITION_FIELDS of claim c, as the file has them
DefinitionOf(c) == [text |-> file[c].text, scope |-> file[c].scope]

\* What a helper of run_one() that swallows exceptions reads
ReadDefinition(c) == IF torn THEN Unread ELSE DefinitionOf(c)

\* witness.check(): did the procedure do the work this text asks for?
Witnessed(c, reach, text) ==
  IF c \in Subprocess
    THEN text # NoText /\ reach \in {"part", "full"}
    ELSE reach = "full" \/ (reach = "part" /\ text \notin MustTouch)

----------------------------------------------------------------------------
(* What `claims check` makes of the file, the tree and the ledger *)

Runs == {r \in DOMAIN ledger : ledger[r].op = "proof.run"}

\* What has not moved since record e: a digest that was not taken, or cannot be
\* taken now, does not differ
DefinitionNotBound(e) == TRUE  \* mutant: before R2-001
DefinitionHolds(e) == e.definition \in {Unread, DefinitionOf(e.claim)}
ImplementationHolds(e) == e.pinned => tree.implementation \in {Deleted, e.implementation}
SubjectHolds(e) == e.subject = tree.subject
ProcedureHolds(e) ==
  Absent \in {tree.procedure[e.claim], e.procedure}
  \/ tree.procedure[e.claim] = e.procedure

\* The cited proofs of claim c that nothing has moved away from
LiveProofs(c) ==
  {r \in file[c].proofs \cap Runs :
      LET e == ledger[r] IN
     /\ e.passed /\ e.claim = c
     /\ DefinitionHolds(e) /\ ImplementationHolds(e)
     /\ ProcedureHolds(e) /\ SubjectHolds(e)
     /\ Witnessed(c, e.reach, file[c].text)}

Latest(c) == Max(LiveProofs(c))

\* _exercised_for(): over every cited record, whether it is live or not
Exercised(c) == UNION {ledger[r].exercised : r \in file[c].proofs \cap Runs}

Of(op, c) == {r \in DOMAIN ledger : ledger[r].op = op /\ ledger[r].claim = c}
HighWaterLast(c) ==  \* mutant: measured against the last run alone
  IF Of("claim.scope", c) = {} THEN {} ELSE ledger[Max(Of("claim.scope", c))].scope
HighWater(c) == UNION {ledger[r].scope : r \in Of("claim.scope", c)}
Excused(c) == UNION {ledger[r].removed : r \in Of("claim.scope.retract", c)}

\* _surface_findings(): asserted surfaces that no cited run drove, or that are
\* not wired up; and the reductions of the scope that nobody gave a reason for
Undriven(c) == (file[c].scope \cap (Hooks \cup Clis)) \ Exercised(c)
Unwired(c) == (file[c].scope \cap (Hooks \cup Live)) \ tree.wired
Unexplained(c) == (HighWater(c) \ file[c].scope) \ Excused(c)
Findings(c) == Undriven(c) \cup Unwired(c) \cup Unexplained(c)

KindMatches(c) ==
  /\ tree.procedure[c] # Absent
  /\ (tree.procedure[c] \in OtherKind) = (file[c].text \in OtherKind)

ProvenWithoutLive(c) ==  \* mutant: no surviving proof is not a failed claim
  ~torn /\ usable /\ KindMatches(c) /\ Findings(c) = {}

Proven(c) ==
  ~torn /\ usable /\ LiveProofs(c) # {} /\ KindMatches(c) /\ Findings(c) = {}

\* The exit code of `claims check`, for a caller who has the key or not
ExitCode(keyed) ==
  IF ~keyed THEN 2 ELSE IF usable /\ \A c \in Claims : Proven(c) THEN 0 ELSE 1

----------------------------------------------------------------------------
Idle == [pc |-> "idle"]

Init ==
  /\ file \in [Claims -> [text : Texts, scope : SUBSET Items, proofs : {{}}]]
  /\ torn = FALSE
  /\ tree \in [procedure : [Claims -> Procedures], implementation : Implementations,
               subject : Versions, wired : SUBSET (Hooks \cup Live)]
  /\ ledger = <<>> /\ usable = TRUE
  /\ prover = [p \in Provers |-> Idle]
  /\ runs = 0 /\ acts = 0

Current(p) == Order[prover[p].at]

\* What a process that starts now imports
Code == [procedure |-> tree.procedure, implementation |-> tree.implementation]

\* Ghost: the other provers were not alone with claims.yaml
Intrude(p, new) ==
  [q \in Provers |-> IF q = p THEN new
                     ELSE IF prover[q].pc = "idle" THEN prover[q]
                     ELSE [prover[q] EXCEPT !.alone = FALSE]]

AdvancedTooFar(p, whole) ==  \* mutant: one claim more than there are
  IF prover[p].at > prover[p].last THEN Idle
  ELSE [pc |-> "run", at |-> prover[p].at + 1, last |-> prover[p].last,
        loaded |-> prover[p].loaded, quiet |-> prover[p].quiet, alone |-> whole]

\* The loop of cmd_prove() and run_all(): the next claim, or the end; whole says
\* that the file is not truncated
Advanced(p, whole) ==
  IF prover[p].at = prover[p].last THEN Idle
  ELSE [pc |-> "run", at |-> prover[p].at + 1, last |-> prover[p].last,
        loaded |-> prover[p].loaded, quiet |-> prover[p].quiet, alone |-> whole]

\* A process starts and imports the procedures and what they call; the ghosts
\* quiet and alone say that nobody edited, and nobody else wrote, since
Begin(p, first, last) ==
  /\ prover[p].pc = "idle"
  /\ runs < MaxRuns /\ runs' = runs + 1
  /\ prover' = [prover EXCEPT ![p] =
       [pc |-> "run", at |-> first, last |-> last, loaded |-> Code,
        quiet |-> TRUE, alone |-> ~torn]]
  /\ UNCHANGED <<file, torn, tree, ledger, usable, acts>>

\* --claim names a claim that has no procedure: nothing is recorded
NoProcedure(p) ==
  /\ prover[p].pc = "run" /\ prover[p].loaded.procedure[Current(p)] = Absent
  /\ prover' = [prover EXCEPT ![p] = Advanced(p, ~torn)]
  /\ UNCHANGED <<file, torn, tree, ledger, usable, runs, acts>>

\* exercise_cli() and exercise_hooks() run what the claim declares, each in a
\* process of its own, and return what started
ClisThatRun(definition) == SUBSET (definition.scope \cap Clis)
HooksThatRun(definition) == SUBSET (definition.scope \cap Hooks)

\* The procedure runs under the profiler, and the surfaces the claim declares
\* are then driven; both count as evidence only when the run passes, so a failed
\* run's are not told apart.  A module that was gone when the process started
\* cannot be entered.
Observe(p, said, reach, driven) ==
  LET definition == ReadDefinition(Current(p))
      passed == said /\ Witnessed(Current(p), reach, definition.text) IN
  /\ prover[p].pc = "run" /\ prover[p].loaded.procedure[Current(p)] # Absent
  /\ reach = "raised" => ~said
  /\ prover[p].loaded.implementation = Deleted => reach \notin {"part", "full"}
  /\ driven \cap Clis \in ClisThatRun(definition)
  /\ driven \cap Hooks \in HooksThatRun(definition)
  /\ ~passed => driven = {}
  /\ prover' = [prover EXCEPT ![p] =
       [pc |-> "record", at |-> prover[p].at, last |-> prover[p].last,
        loaded |-> prover[p].loaded, quiet |-> prover[p].quiet,
        alone |-> prover[p].alone,
        passed |-> passed, reach |-> IF passed THEN reach ELSE "raised",
        driven |-> driven]]
  /\ UNCHANGED <<file, torn, tree, ledger, usable, runs, acts>>

\* What the implementation manifest and the evidence subject digest, and when the
\* manifest has anything in it: a module without a file is left out
Manifest == tree.implementation
Subject == tree.subject
Traversed(p) == Current(p) \notin Subprocess /\ prover[p].reach \in {"part", "full"}
Pinned(p) == Traversed(p) /\ Manifest # Deleted

\* proof.run is recorded, with digests read from the disk as it is now; the
\* manifest covers the modules this process entered, not a child's.  The last
\* three fields are ghosts: what really ran, and in what company.
ProofRun(p) ==
  LET c == Current(p) IN
  [op |-> "proof.run", claim |-> c, passed |-> prover[p].passed,
   definition |-> ReadDefinition(c),
   procedure |-> tree.procedure[c],
   implementation |-> Manifest, pinned |-> Pinned(p), subject |-> Subject,
   reach |-> prover[p].reach, exercised |-> prover[p].driven,
   ran |-> [definition |-> DefinitionOf(c),
            procedure |-> prover[p].loaded.procedure[c],
            implementation |-> prover[p].loaded.implementation],
   quiet |-> prover[p].quiet, alone |-> prover[p].alone]

\* proof_ref() of the last record
ProofRefBefore(log) == Len(log) - 1  \* mutant: of the record before
ProofRef(log) == Len(log)

Record(p) ==
  /\ prover[p].pc = "record" /\ usable
  /\ ledger' = Append(ledger, ProofRun(p))
  /\ prover' = [prover EXCEPT ![p] = [pc |-> "pin", at |-> @.at,
                  last |-> @.last, loaded |-> @.loaded, quiet |-> @.quiet,
                  alone |-> @.alone, passed |-> @.passed,
                  ref |-> ProofRef(ledger')]]
  /\ UNCHANGED <<file, torn, tree, usable, runs, acts>>

\* Does this run go on to cite its record in the file?
WritesAnyBack(p) == TRUE  \* mutant: a failed run is cited too
WritesBack(p) == prover[p].passed

\* claim.scope is recorded from the file as it is by then
Pin(p) ==
  /\ prover[p].pc = "pin" /\ usable /\ ~torn
  /\ ledger' = Append(ledger,
       [op |-> "claim.scope", claim |-> Current(p),
        scope |-> file[Current(p)].scope, of |-> prover[p].ref,
        quiet |-> prover[p].quiet /\ prover[p].alone])
  /\ prover' = [prover EXCEPT ![p] =
       IF WritesBack(p) THEN [@ EXCEPT !.pc = "load"] ELSE Advanced(p, TRUE)]
  /\ UNCHANGED <<file, torn, tree, usable, runs, acts>>

\* load_claims(): the whole document, to be written back
Load(p) ==
  /\ prover[p].pc = "load" /\ ~torn
  /\ prover' = [prover EXCEPT ![p] =
       [pc |-> "truncate", at |-> @.at, last |-> @.last, loaded |-> @.loaded,
        quiet |-> @.quiet, alone |-> @.alone, passed |-> TRUE, ref |-> @.ref,
        doc |-> [file EXCEPT ![Current(p)].proofs = {prover[p].ref}]]]
  /\ UNCHANGED <<file, torn, tree, ledger, usable, runs, acts>>

\* write_text(): the file is opened for writing, which empties it ...
Truncate(p) ==
  /\ prover[p].pc = "truncate"
  /\ torn' = TRUE
  /\ prover' = Intrude(p, [prover[p] EXCEPT !.pc = "write"])
  /\ UNCHANGED <<file, tree, ledger, usable, runs, acts>>

\* ... and then the document is written
Write(p) ==
  /\ prover[p].pc = "write"
  /\ file' = prover[p].doc /\ torn' = FALSE
  /\ prover' = Intrude(p, Advanced(p, TRUE))
  /\ UNCHANGED <<tree, ledger, usable, runs, acts>>

\* A refused append ends the process, and so does a file that cannot be read
Refused(p) ==
  /\ \/ prover[p].pc \in {"record", "pin"} /\ ~usable
     \/ prover[p].pc \in {"pin", "load"} /\ torn
  /\ prover' = [prover EXCEPT ![p] = Idle]
  /\ UNCHANGED <<file, torn, tree, ledger, usable, runs, acts>>

Kill(p) ==
  /\ prover[p].pc # "idle"
  /\ prover' = [prover EXCEPT ![p] = Idle]
  /\ UNCHANGED <<file, torn, tree, ledger, usable, runs, acts>>

\* `claims retract`: one reasoned reduction is recorded
Retract(c, gone) ==
  /\ usable
  /\ acts < MaxActs /\ acts' = acts + 1
  /\ ledger' = Append(ledger, [op |-> "claim.scope.retract", claim |-> c,
                               removed |-> gone])
  /\ UNCHANGED <<file, torn, tree, usable, prover, runs>>

\* Someone edits the claims, the code, the data or the ledger
Edited ==
  /\ acts < MaxActs /\ acts' = acts + 1
  /\ prover' = [q \in Provers |-> IF prover[q].pc = "idle" THEN prover[q]
                                  ELSE [prover[q] EXCEPT !.quiet = FALSE]]

EditClaim(c, text, scope) ==
  /\ ~torn /\ [text |-> text, scope |-> scope] # DefinitionOf(c) /\ Edited
  /\ file' = [file EXCEPT ![c].text = text, ![c].scope = scope]
  /\ UNCHANGED <<torn, tree, ledger, usable, runs>>

EditTree(new) ==
  /\ new # tree /\ Edited
  /\ tree' = new
  /\ UNCHANGED <<file, torn, ledger, usable, runs>>

Damage ==
  /\ usable /\ Edited
  /\ usable' = FALSE
  /\ UNCHANGED <<file, torn, tree, ledger, runs>>

\* A truncated file a dead writer left is restored from version control
Restore ==
  /\ torn /\ \A p \in Provers : prover[p].pc # "write"
  /\ torn' = FALSE
  /\ UNCHANGED <<file, tree, ledger, usable, prover, runs, acts>>

Steps(p) ==
  \/ NoProcedure(p)
  \/ \E said \in BOOLEAN, reach \in Reaches, driven \in SUBSET (Hooks \cup Clis) :
       Observe(p, said, reach, driven)
  \/ Record(p) \/ Pin(p) \/ Load(p) \/ Truncate(p) \/ Write(p) \/ Refused(p)

\* `prove --claim`, or all of them
Prove(p) ==
  \/ \E span \in {<<i, i>> : i \in DOMAIN Order} \cup {<<1, Len(Order)>>} :
       Begin(p, span[1], span[2])
  \/ Steps(p)
  \/ Kill(p)

\* One step of an editor changes one thing
Edit ==
  \/ \E c \in Claims, text \in Texts : EditClaim(c, text, file[c].scope)
  \/ \E c \in Claims, x \in Items :
       \E scope \in {file[c].scope \ {x}, file[c].scope \cup {x}} :
         EditClaim(c, file[c].text, scope)
  \/ \E c \in Claims, new \in Procedures \cup {Absent} :
       EditTree([tree EXCEPT !.procedure[c] = new])
  \/ \E new \in Implementations :
       EditTree([tree EXCEPT !.implementation = new])
  \/ \E new \in Versions : EditTree([tree EXCEPT !.subject = new])
  \/ \E s \in Hooks \cup Live : \E wired \in {{}, {s}} :
       EditTree([tree EXCEPT !.wired = (@ \ {s}) \cup wired])
  \/ Damage

Next ==
  \/ \E p \in Provers : Prove(p)
  \/ \E c \in Claims, x \in Items : Retract(c, {x})
  \/ Edit
  \/ Restore

Spec == Init /\ [][Next]_vars

----------------------------------------------------------------------------
(* Properties *)

ProofRecord ==
  [op : {"proof.run"}, claim : Claims, passed : BOOLEAN,
   definition : Definition, procedure : Procedures \cup {Absent},
   implementation : Implementations, pinned : BOOLEAN, subject : Versions,
   reach : Reaches, exercised : SUBSET (Hooks \cup Clis),
   ran : [definition : Definition, procedure : Procedures \cup {Absent},
          implementation : Implementations],
   quiet : BOOLEAN, alone : BOOLEAN]
ScopeRecord ==
  [op : {"claim.scope"}, claim : Claims, scope : SUBSET Items, of : Nat,
   quiet : BOOLEAN]
RetractRecord ==
  [op : {"claim.scope.retract"}, claim : Claims, removed : SUBSET Items]
Loaded ==
  [procedure : [Claims -> Procedures \cup {Absent}], implementation : Implementations]
Tree ==
  [procedure : [Claims -> Procedures \cup {Absent}], implementation : Implementations,
   subject : Versions, wired : SUBSET (Hooks \cup Live)]
File == [Claims -> [text : Texts, scope : SUBSET Items, proofs : SUBSET Nat]]

\* Every variable has its type; a prover has what its next step reads
TypeOK ==
  /\ file \in File /\ torn \in BOOLEAN /\ tree \in Tree
  /\ ledger \in Seq(ProofRecord \cup ScopeRecord \cup RetractRecord)
  /\ usable \in BOOLEAN /\ runs \in 0..MaxRuns /\ acts \in 0..MaxActs
  /\ DOMAIN prover = Provers
  /\ \A p \in Provers :
       LET s == prover[p] IN
       s.pc # "idle" =>
         /\ s.pc \in {"run", "record", "pin", "load", "truncate", "write"}
         /\ s.last \in DOMAIN Order /\ s.at \in 1..s.last
         /\ s.loaded \in Loaded /\ s.quiet \in BOOLEAN /\ s.alone \in BOOLEAN
         /\ s.pc \in {"pin", "load", "truncate", "write"} => s.ref \in DOMAIN ledger
         /\ s.pc \in {"truncate", "write"} => s.doc \in File

\* A cited proof is a recorded run of that very claim, it passed, and the
\* claim's scope was pinned after it: whatever overlaps, is edited or is killed,
\* and whichever stale document a prover writes back (runner.py:325-345)
CitedIsProof ==
  \A c \in Claims : \A r \in file[c].proofs :
    /\ r \in Runs /\ ledger[r].claim = c /\ ledger[r].passed
    /\ \E s \in Of("claim.scope", c) : s > r /\ ledger[s].of = r

\* A claim counts as proven only when the text, the procedure and the code its
\* proof ran against are the ones on the disk, whatever is edited, deleted, put
\* back, proved or killed after that run: but for code that is not on the disk at
\* all, which the drift check passes over (runner.py:203-208), and a child's code.
\* An edit or another's write during the run itself is outside it: the digests are
\* taken after the run, and pin what never ran (R2-001, R2-002).
ProvenMeansRan ==
  \A c \in Claims : Proven(c) =>
    LET e == ledger[Latest(c)] IN
    e.quiet /\ e.alone =>
      /\ e.ran.definition = DefinitionOf(c)
      /\ e.ran.procedure = tree.procedure[c]
      /\ c \in Subprocess \/ tree.implementation \in {Deleted, e.ran.implementation}

\* What a quiet run once proved of a claim and the claim still does not assert
\* is named by a recorded retraction (scope.py:24-26)
NarrowedOnlyByRetraction ==
  \A c \in Claims : Proven(c) =>
    \A s \in Of("claim.scope", c) :
      ledger[s].quiet =>
        ledger[ledger[s].of].definition.scope \ file[c].scope \subseteq Excused(c)

\* A passing run that nobody disturbed leaves a live proof behind: no digest it
\* records, nothing it writes and no order of its steps kills it (cmd_prove.py:34-42)
UndisturbedProofIsLive ==
  [][\A p \in Provers, c \in Claims :
       /\ prover[p].pc = "write" /\ c = Current(p)
       /\ prover[p].quiet /\ prover[p].alone
       /\ torn /\ ~torn' /\ file' = prover[p].doc
       => prover[p].ref \in LiveProofs(c)']_vars

\* The ledger and the file keep the promises of ProofStore to their readers
Store == INSTANCE ProofStore WITH
  passes <- [r \in {n \in Runs : ledger[n].passed} |-> ledger[r].claim],
  live <- [c \in Claims |-> IF LiveProofs(c) = {} THEN 0 ELSE Latest(c)],
  proven <- {c \in Claims : Proven(c)}
ImplementsProofStore == Store!StoreSpec

\* runner.py:89-97 says that a proof issued against the old text must stop
\* counting: two provers and one later edit are enough to break it
DefinitionBinds ==
  \A c \in Claims : Proven(c) /\ ledger[Latest(c)].quiet =>
    ledger[Latest(c)].ran.definition = DefinitionOf(c)
=============================================================================

------------------------------- MODULE Guard -------------------------------
(***************************************************************************)
(* scripts/attest_guard.py: two readings of `attest --self`, around a      *)
(* command or some time apart, and what got worse from one to the other.   *)
(*                                                                         *)
(* attest_self() reads claims.yaml and the ledger, and then reads both     *)
(* again, with the AI-CAIQ's files.  It holds no lock, so everything may   *)
(* change between those two readings, while the command runs and between   *)
(* a --save and its --against.  An attestation is kept here as the facts   *)
(* it read first and the facts it read last.                               *)
(***************************************************************************)
EXTENDS FiniteSets, Integers

CONSTANTS
  Claims, Controls,
  Evidences,   \* the aicm controls of each claim
  Missing,     \* no snapshot
  MaxMoves,  \* bound: changes of the facts
  MaxGuards    \* bound: runs of the guard

VARIABLES
  facts,       \* what an attestation would find
  guard,       \* the guard under way, and the readings it has
  saved,       \* the file of --save
  outcome,     \* ghost: the last verdict, with both attestations
  moves, guards

guardvars == <<facts, guard, saved, outcome, moves, guards>>

\* holds: claims with a live proof of a registered procedure and nothing against
\* it; untested: those with a surface no run drove; objected: those whose last
\* panel found no control case; intact: the ledger is whole and its chain
\* verifies; keyed: what could be read of it verified under the key
Facts ==
  [listed : SUBSET Claims, holds : SUBSET Claims, untested : SUBSET Claims,
   objected : SUBSET Claims, intact : BOOLEAN, keyed : BOOLEAN,
   bound : BOOLEAN, resolves : BOOLEAN]

Idle == [pc |-> "idle"]

Init ==
  /\ facts \in {f \in Facts : /\ f.listed = Claims /\ f.intact /\ f.keyed
                              /\ f.untested = {} /\ f.objected = {}}
  /\ guard = Idle /\ saved = Missing /\ outcome = Missing
  /\ moves = 0 /\ guards = 0

----------------------------------------------------------------------------
(* attest_self() *)

\* check(): no claim is proven on a ledger that does not verify
ProvenRows(first) == IF first.intact THEN first.listed \cap first.holds ELSE {}

\* The claims are read again, and each must have its row
ControlsOf(a) ==
  UNION {Evidences[c] : c \in a.last.listed \cap ProvenRows(a.first)}
Readable(a) == a.last.listed \subseteq a.first.listed

Filled(a) == a.last.bound /\ a.last.resolves

\* summarise() of the last panel of each claim, listed or not
ControlBacked(a) == a.last.objected = {}

\* release_assured, which goal_met repeats
GoalMet(a) ==
  /\ ProvenRows(a.first) = a.first.listed /\ a.first.intact /\ a.first.keyed
  /\ Filled(a)
  /\ a.first.listed \cap a.first.untested = {}
  /\ ControlBacked(a)

\* snapshot_of()
Snapshot(a) ==
  [proven |-> ProvenRows(a.first), controls |-> ControlsOf(a),
   holding |-> {x \in {"intact", "keyed", "bound", "filled", "goal"} :
                  CASE x = "intact" -> a.first.intact
                    [] x = "keyed" -> a.first.keyed
                    [] x = "bound" -> a.last.bound
                    [] x = "filled" -> Filled(a)
                    [] x = "goal" -> GoalMet(a)}]

CompareTotals(b, a) ==  \* mutant: the totals are compared
  /\ Cardinality(b.proven) <= Cardinality(a.proven)
  /\ Cardinality(b.controls) <= Cardinality(a.controls)
  /\ b.holding \subseteq a.holding

\* compare() finds nothing lost
Compare(b, a) ==
  /\ b.proven \subseteq a.proven /\ b.controls \subseteq a.controls
  /\ b.holding \subseteq a.holding

----------------------------------------------------------------------------
(* main() *)

Begin(mode) ==
  /\ guard = Idle /\ guards < MaxGuards /\ guards' = guards + 1
  /\ mode = "against" => saved # Missing
  /\ guard' = [pc |-> IF mode = "against" THEN "command" ELSE "first", mode |-> mode,
               before |-> IF mode = "against" THEN saved ELSE Missing]
  /\ UNCHANGED <<facts, saved, outcome, moves>>

\* --run, when it is given: what the command does is done by Change
Command ==
  /\ guard.pc = "command"
  /\ guard' = [guard EXCEPT !.pc = "first"]
  /\ UNCHANGED <<facts, saved, outcome, moves, guards>>

\* take(): check() ...
TakeFirst ==
  /\ guard.pc = "first"
  /\ guard' = [pc |-> "last", mode |-> guard.mode, before |-> guard.before, read |-> facts]
  /\ UNCHANGED <<facts, saved, outcome, moves, guards>>

\* ... and the rest of attest_self(); the attestation is saved, or kept for after
\* the command, or compared with the one before
TakeLast ==
  LET a == [first |-> guard.read, last |-> facts] IN
  /\ guard.pc = "last" /\ Readable(a)
  /\ saved' = IF guard.mode = "save" THEN a ELSE saved
  /\ guard' = IF guard.mode = "run" /\ guard.before = Missing
                THEN [pc |-> "command", mode |-> "run", before |-> a] ELSE Idle
  /\ outcome' = IF guard.before = Missing THEN outcome
                ELSE [intact |-> Compare(Snapshot(guard.before), Snapshot(a)),
                      before |-> guard.before, after |-> a]
  /\ UNCHANGED <<facts, moves, guards>>

\* The attestation raises (a claim has been added since check()) or takes too
\* long, or the guard is killed: no verdict
Abort ==
  /\ guard # Idle /\ guard' = Idle
  /\ UNCHANGED <<facts, saved, outcome, moves, guards>>

\* The command, a prover or an editor changes one of the facts
Toggle(set, c) == (set \ {c}) \cup ({c} \ set)
Change ==
  /\ moves < MaxMoves /\ moves' = moves + 1
  /\ \/ \E c \in Claims, x \in {"listed", "holds", "untested", "objected"} :
          facts' = [facts EXCEPT ![x] = Toggle(@, c)]
     \/ \E x \in {"intact", "keyed", "bound", "resolves"} :
          facts' = [facts EXCEPT ![x] = ~@]
  /\ UNCHANGED <<guard, saved, outcome, guards>>

Next ==
  \/ \E mode \in {"save", "against", "run"} : Begin(mode)
  \/ Command \/ TakeFirst \/ TakeLast \/ Abort \/ Change

Spec == Init /\ [][Next]_guardvars

----------------------------------------------------------------------------
(* Properties *)

\* Facts g are no worse than facts f
NoWorse(f, g) ==
  /\ g.listed = f.listed /\ f.holds \subseteq g.holds
  /\ g.untested \subseteq f.untested /\ g.objected \subseteq f.objected
  /\ (f.intact => g.intact) /\ (f.keyed => g.keyed)
  /\ (f.bound => g.bound) /\ (f.resolves => g.resolves)

\* "INTACT" means that every single claim proven in the first attestation is
\* proven in the second, and so for each control and the goal, whatever changed
\* between and during the readings; and facts that are nowhere worse are never
\* reported as a regression (attest_guard.py:24-32)
GuardIsRight ==
  outcome # Missing =>
    LET b == outcome.before
        a == outcome.after
    IN  /\ outcome.intact =>
             /\ \A c \in Claims : c \in ProvenRows(b.first) => c \in ProvenRows(a.first)
             /\ \A x \in Controls :
                  (\E c \in b.last.listed \cap ProvenRows(b.first) : x \in Evidences[c])
                    => (\E c \in a.last.listed \cap ProvenRows(a.first) : x \in Evidences[c])
             /\ GoalMet(b) => GoalMet(a)
        /\ NoWorse(b.first, a.first) /\ NoWorse(b.last, a.last) => outcome.intact
=============================================================================

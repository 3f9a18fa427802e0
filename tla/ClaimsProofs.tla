---------------------------- MODULE ClaimsProofs ----------------------------
(***************************************************************************)
(* What claims.yaml cites is proofs, what counts as proven ran, what was   *)
(* narrowed was retracted, an undisturbed run leaves a live proof, and the *)
(* ledger and the file implement ProofStore: proved for any claims,        *)
(* provers, surfaces and versions, and any number of edits, kills and      *)
(* retractions.                                                            *)
(*                                                                         *)
(* Three invariants, one on the other: Typed, Proofs and AllFresh.  Each   *)
(* has a lemma per action for the prover that acts; KeptAs says what the   *)
(* step of one prover, or an edit, leaves of the state of another.         *)
(***************************************************************************)
EXTENDS Claims, WellFoundedInduction, TLAPS

Entries == ProofRecord \cup ScopeRecord \cup RetractRecord

\* What a prover holds at each of its places
RunState ==
  [pc : {"run"}, at : Nat, last : Nat, loaded : Loaded, quiet : BOOLEAN, alone : BOOLEAN]
RecordState ==
  [pc : {"record"}, at : Nat, last : Nat, loaded : Loaded, quiet : BOOLEAN,
   alone : BOOLEAN, passed : BOOLEAN, reach : Reaches, driven : SUBSET (Hooks \cup Clis)]
CiteState ==
  [pc : {"pin", "load"}, at : Nat, last : Nat, loaded : Loaded, quiet : BOOLEAN,
   alone : BOOLEAN, passed : BOOLEAN, ref : Nat]
WriteState ==
  [pc : {"truncate", "write"}, at : Nat, last : Nat, loaded : Loaded, quiet : BOOLEAN,
   alone : BOOLEAN, passed : BOOLEAN, ref : Nat, doc : File]
Active == RunState \cup RecordState \cup CiteState \cup WriteState

InOrder(s) == s.last \in DOMAIN Order /\ s.at \in 1..s.last

\* The state of a prover fits the order of the claims and a ledger of those entries
Fits(s, refs) ==
  /\ s \in {Idle} \cup Active
  /\ s.pc # "idle" => InOrder(s)
  /\ s.pc \in {"pin", "load", "truncate", "write"} => s.ref \in refs

Typed ==
  /\ file \in File /\ torn \in BOOLEAN /\ tree \in Tree
  /\ ledger \in Seq(Entries)
  /\ usable \in BOOLEAN /\ runs \in 0..MaxRuns /\ acts \in 0..MaxActs
  /\ prover = [p \in Provers |-> prover[p]]
  /\ \A p \in Provers : Fits(prover[p], DOMAIN ledger)

\* State t is state s but for the ghosts, which only fall
KeptAs(s, t) ==
  /\ t \in {Idle} \cup Active /\ t.pc = s.pc
  /\ s.pc # "idle" =>
       /\ t.at = s.at /\ t.last = s.last /\ t.loaded = s.loaded
       /\ t.quiet => s.quiet
       /\ t.alone => s.alone
  /\ s.pc \in {"record", "pin", "load", "truncate", "write"} => t.passed = s.passed
  /\ s.pc = "record" => t.reach = s.reach
  /\ s.pc \in {"pin", "load", "truncate", "write"} => t.ref = s.ref
  /\ s.pc \in {"truncate", "write"} => t.doc = s.doc

\* The steps that change one field of a state
Disturbed(s) == [s EXCEPT !.quiet = FALSE]
Interrupted(s) == [s EXCEPT !.alone = FALSE]
ToLoad(s) == [s EXCEPT !.pc = "load"]
ToWrite(s) == [s EXCEPT !.pc = "write"]

-----------------------------------------------------------------------------
\* A log with one record more.
LEMMA AppendFacts ==
  ASSUME NEW log \in Seq(Entries), NEW e \in Entries
  PROVE  /\ Append(log, e) \in Seq(Entries)
         /\ DOMAIN Append(log, e) = DOMAIN log \cup {Len(log) + 1}
         /\ Len(log) + 1 \notin DOMAIN log /\ Len(Append(log, e)) = Len(log) + 1
         /\ \A i \in DOMAIN log : Append(log, e)[i] = log[i]
         /\ Append(log, e)[Len(log) + 1] = e
         /\ \A i \in DOMAIN log : i \in Nat /\ i < Len(log) + 1
  OBVIOUS

\* The claim a state is at is one of the claims.
LEMMA ClaimsOrdered ==
  ASSUME NEW s, InOrder(s)
  PROVE  s.at \in DOMAIN Order /\ Order[s.at] \in Claims
<1>1. Order \in Seq(Claims)
  BY ClaimsAssumption
<1>2. DOMAIN Order = 1..Len(Order) /\ Len(Order) \in Nat
  BY <1>1
<1>3. s.at \in DOMAIN Order
  BY <1>2 DEF InOrder
<1> QED BY <1>1, <1>3

\* The place a prover is at says which fields it has.
LEMMA Shape ==
  ASSUME NEW s \in Active
  PROVE  /\ s.pc \in {"run", "record", "pin", "load", "truncate", "write"}
         /\ s.at \in Nat /\ s.last \in Nat /\ s.loaded \in Loaded
         /\ s.quiet \in BOOLEAN /\ s.alone \in BOOLEAN
         /\ s.pc = "run" => s \in RunState
         /\ s.pc = "record" => s \in RecordState
         /\ s.pc \in {"pin", "load"} => s \in CiteState
         /\ s.pc \in {"truncate", "write"} => s \in WriteState
<1>1. CASE s \in RunState
  BY <1>1 DEF RunState
<1>2. CASE s \in RecordState
  BY <1>2 DEF RecordState
<1>3. CASE s \in CiteState
  BY <1>3 DEF CiteState
<1>4. CASE s \in WriteState
  BY <1>4 DEF WriteState
<1> QED BY <1>1, <1>2, <1>3, <1>4 DEF Active

\* A busy prover is at one of its places, and an idle one is Idle.
LEMMA IdleOrActive ==
  ASSUME NEW s \in {Idle} \cup Active
  PROVE  /\ s.pc = "idle" <=> s = Idle
         /\ s.pc # "idle" => s \in Active
<1>1. Idle.pc = "idle"
  BY DEF Idle
<1>2. s \in Active => s.pc # "idle"
  BY Shape
<1> QED BY <1>1, <1>2

\* An edit, or another's write, marks those that are busy and changes nothing else
\* of theirs.
LEMMA Marked ==
  ASSUME NEW s \in Active
  PROVE  /\ KeptAs(s, Disturbed(s)) /\ ~Disturbed(s).quiet
         /\ KeptAs(s, Interrupted(s)) /\ ~Interrupted(s).alone
<1>1. CASE s \in RunState
  BY <1>1 DEF KeptAs, Disturbed, Interrupted, Active, RunState
<1>2. CASE s \in RecordState
  BY <1>2 DEF KeptAs, Disturbed, Interrupted, Active, RecordState
<1>3. CASE s \in CiteState
  BY <1>3 DEF KeptAs, Disturbed, Interrupted, Active, CiteState
<1>4. CASE s \in WriteState
  BY <1>4 DEF KeptAs, Disturbed, Interrupted, Active, WriteState
<1> QED BY <1>1, <1>2, <1>3, <1>4 DEF Active

\* A state is kept as itself.
LEMMA Same ==
  ASSUME NEW s \in {Idle} \cup Active
  PROVE  KeptAs(s, s)
BY DEF KeptAs

\* A step that moves no prover.
LEMMA Unmoved ==
  ASSUME Typed, UNCHANGED prover
  PROVE  /\ prover' = [q \in Provers |-> prover'[q]]
         /\ \A q \in Provers : KeptAs(prover[q], prover'[q])
<1>1. \A q \in Provers : prover'[q] = prover[q] /\ prover[q] \in {Idle} \cup Active
  BY DEF Typed, Fits
<1>2. \A q \in Provers : KeptAs(prover[q], prover'[q])
  BY <1>1, Same
<1>3. prover' = [q \in Provers |-> prover'[q]]
  BY DEF Typed
<1> QED BY <1>2, <1>3

\* A step of one prover alone.
LEMMA Moved ==
  ASSUME Typed, NEW p \in Provers, NEW new, prover' = [prover EXCEPT ![p] = new]
  PROVE  /\ prover' = [q \in Provers |-> prover'[q]] /\ prover'[p] = new
         /\ \A q \in Provers \ {p} : KeptAs(prover[q], prover'[q])
<1>1. DOMAIN prover = Provers
  BY DEF Typed
<1>2. \A q \in Provers : prover[q] \in {Idle} \cup Active
  BY DEF Typed, Fits
<1>3. \A q \in Provers \ {p} : prover'[q] = prover[q]
  BY <1>1
<1>4. \A q \in Provers \ {p} : KeptAs(prover[q], prover'[q])
  BY <1>2, <1>3, Same
<1>5. prover' = [q \in Provers |-> prover'[q]] /\ prover'[p] = new
  BY <1>1
<1> QED BY <1>4, <1>5

\* A step that disturbs the others.
LEMMA Intruded ==
  ASSUME Typed, NEW p \in Provers, NEW new, prover' = Intrude(p, new)
  PROVE  /\ prover' = [q \in Provers |-> prover'[q]] /\ prover'[p] = new
         /\ \A q \in Provers \ {p} :
              /\ KeptAs(prover[q], prover'[q])
              /\ prover[q].pc # "idle" => ~prover'[q].alone
<1>1. prover' = [q \in Provers |-> IF q = p THEN new
                     ELSE IF prover[q].pc = "idle" THEN prover[q]
                     ELSE Interrupted(prover[q])]
  BY DEF Intrude, Interrupted
<1>2. ASSUME NEW q \in Provers \ {p}
      PROVE  /\ KeptAs(prover[q], prover'[q])
             /\ prover[q].pc # "idle" => ~prover'[q].alone
  <2>1. prover[q] \in {Idle} \cup Active
    BY DEF Typed, Fits
  <2>2. CASE prover[q].pc = "idle"
    BY <1>1, <2>1, <2>2, Same
  <2>3. CASE prover[q].pc # "idle"
    <3>1. prover[q] \in Active
      BY <2>1, <2>3, IdleOrActive
    <3>2. prover'[q] = Interrupted(prover[q])
      BY <1>1, <2>3
    <3> QED BY <3>1, <3>2, Marked
  <2> QED BY <2>2, <2>3
<1>3. prover' = [q \in Provers |-> prover'[q]] /\ prover'[p] = new
  BY <1>1
<1> QED BY <1>2, <1>3

\* An edit disturbs them all.
LEMMA AllDisturbed ==
  ASSUME Typed, Edited
  PROVE  /\ prover' = [q \in Provers |-> prover'[q]] /\ acts' \in 0..MaxActs
         /\ \A q \in Provers :
              /\ KeptAs(prover[q], prover'[q])
              /\ prover[q].pc # "idle" => ~prover'[q].quiet
<1>1. prover' = [q \in Provers |-> IF prover[q].pc = "idle" THEN prover[q]
                                   ELSE Disturbed(prover[q])]
  BY DEF Edited, Disturbed
<1>2. ASSUME NEW q \in Provers
      PROVE  /\ KeptAs(prover[q], prover'[q])
             /\ prover[q].pc # "idle" => ~prover'[q].quiet
  <2>1. prover[q] \in {Idle} \cup Active
    BY DEF Typed, Fits
  <2>2. CASE prover[q].pc = "idle"
    BY <1>1, <2>1, <2>2, Same
  <2>3. CASE prover[q].pc # "idle"
    <3>1. prover[q] \in Active
      BY <2>1, <2>3, IdleOrActive
    <3>2. prover'[q] = Disturbed(prover[q])
      BY <1>1, <2>3
    <3> QED BY <3>1, <3>2, Marked
  <2> QED BY <2>2, <2>3
<1>3. prover' = [q \in Provers |-> prover'[q]]
  BY <1>1
<1>4. acts' \in 0..MaxActs
  BY ClaimsAssumption DEF Typed, Edited
<1> QED BY <1>2, <1>3, <1>4

\* What fits a ledger fits a longer one.
LEMMA StillFits ==
  ASSUME NEW s, NEW t, KeptAs(s, t), NEW refs, NEW more, refs \subseteq more,
         Fits(s, refs)
  PROVE  Fits(t, more)
BY DEF KeptAs, Fits, InOrder

\* The next claim is one of them.
LEMMA AdvancedFits ==
  ASSUME NEW p \in Provers, prover[p] \in Active, InOrder(prover[p]), NEW whole \in BOOLEAN
  PROVE  /\ \A refs : Fits(Advanced(p, whole), refs)
         /\ Advanced(p, whole).pc \in {"idle", "run"}
         /\ Advanced(p, whole).pc = "run" =>
              /\ Advanced(p, whole).quiet = prover[p].quiet
              /\ Advanced(p, whole).loaded = prover[p].loaded
              /\ Advanced(p, whole).alone = whole
<1>1. CASE prover[p].at = prover[p].last
  BY <1>1 DEF Advanced, Idle, Fits
<1>2. CASE prover[p].at # prover[p].last
  <2> DEFINE new == [pc |-> "run", at |-> prover[p].at + 1, last |-> prover[p].last,
                     loaded |-> prover[p].loaded, quiet |-> prover[p].quiet, alone |-> whole]
  <2>1. Advanced(p, whole) = new
    BY <1>2 DEF Advanced
  <2>2. new \in RunState
    BY Shape DEF RunState
  <2>3. DOMAIN Order \subseteq Nat
    BY ClaimsAssumption
  <2>4. InOrder(new)
    BY <1>2, <2>3 DEF InOrder
  <2> QED BY <2>1, <2>2, <2>4 DEF Fits, Active
<1> QED BY <1>1, <1>2
-----------------------------------------------------------------------------
(* Type correctness *)

\* What every step has to show about the provers.
LEMMA AllFit ==
  ASSUME Typed, prover' = [q \in Provers |-> prover'[q]], NEW p \in Provers,
         DOMAIN ledger \subseteq DOMAIN ledger',
         \A q \in Provers \ {p} : KeptAs(prover[q], prover'[q]),
         Fits(prover'[p], DOMAIN ledger')
  PROVE  \A q \in Provers : Fits(prover'[q], DOMAIN ledger')
<1>1. \A q \in Provers \ {p} : Fits(prover'[q], DOMAIN ledger')
  BY StillFits DEF Typed
<1> QED BY <1>1

\* The program starts with everything in its type.
LEMMA TypedInit ==
  ASSUME Init
  PROVE  Typed
<1>1. file \in File
  BY DEF Init, File
<1>2. tree \in Tree
  BY DEF Init, Tree
<1>3. ledger \in Seq(Entries) /\ DOMAIN ledger = {}
  BY DEF Init
<1>4. runs \in 0..MaxRuns /\ acts \in 0..MaxActs
  BY ClaimsAssumption DEF Init
<1>5. \A p \in Provers : Fits(prover[p], DOMAIN ledger)
  BY DEF Init, Fits, Idle
<1> QED BY <1>1, <1>2, <1>3, <1>4, <1>5 DEF Init, Typed

\* The claim a busy prover is at, and what it reads of it.
LEMMA AtClaim ==
  ASSUME Typed, NEW p \in Provers, prover[p].pc # "idle"
  PROVE  /\ prover[p] \in Active /\ InOrder(prover[p]) /\ Current(p) \in Claims
         /\ DefinitionOf(Current(p)) \in Definition
         /\ ReadDefinition(Current(p)) \in Definition
<1>1. prover[p] \in Active /\ InOrder(prover[p])
  BY IdleOrActive DEF Typed, Fits
<1>2. Current(p) \in Claims
  BY <1>1, ClaimsOrdered DEF Current
<1>3. DefinitionOf(Current(p)) \in Definition
  BY <1>2 DEF Typed, File, DefinitionOf, Definition
<1>4. Unread \in Definition
  BY DEF Unread, Definition
<1> QED BY <1>1, <1>2, <1>3, <1>4 DEF ReadDefinition

\* A process that starts has imported procedures and code of the right type.
LEMMA BeginTyped ==
  ASSUME Typed, NEW p \in Provers, NEW first, NEW last, Begin(p, first, last),
         last \in DOMAIN Order, first \in 1..last
  PROVE  Typed'
<1> DEFINE new == [pc |-> "run", at |-> first, last |-> last, loaded |-> Code,
                   quiet |-> TRUE, alone |-> ~torn]
<1>1. /\ prover' = [q \in Provers |-> prover'[q]] /\ prover'[p] = new
      /\ \A q \in Provers \ {p} : KeptAs(prover[q], prover'[q])
  BY Moved DEF Begin
<1>2. Code \in Loaded
  BY DEF Typed, Tree, Code, Loaded
<1>3. DOMAIN Order \subseteq Nat
  BY ClaimsAssumption
<1>4. new \in RunState
  BY <1>2, <1>3 DEF RunState, Typed
<1>5. Fits(new, DOMAIN ledger')
  BY <1>4 DEF Fits, Active, InOrder
<1>6. \A q \in Provers : Fits(prover'[q], DOMAIN ledger')
  BY <1>1, <1>5, AllFit DEF Begin
<1>7. runs' \in 0..MaxRuns
  BY ClaimsAssumption DEF Typed, Begin
<1> QED BY <1>1, <1>6, <1>7 DEF Typed, Begin

\* A claim without a procedure is passed over.
LEMMA NoProcedureTyped ==
  ASSUME Typed, NEW p \in Provers, NoProcedure(p)
  PROVE  Typed'
<1>1. /\ prover' = [q \in Provers |-> prover'[q]] /\ prover'[p] = Advanced(p, ~torn)
      /\ \A q \in Provers \ {p} : KeptAs(prover[q], prover'[q])
  BY Moved DEF NoProcedure
<1>2. Fits(Advanced(p, ~torn), DOMAIN ledger')
  BY AtClaim, AdvancedFits DEF NoProcedure, Typed
<1>3. \A q \in Provers : Fits(prover'[q], DOMAIN ledger')
  BY <1>1, <1>2, AllFit DEF NoProcedure
<1> QED BY <1>1, <1>3 DEF Typed, NoProcedure

\* A run is observed: what it showed is held until it is recorded.
LEMMA ObserveTyped ==
  ASSUME Typed, NEW p \in Provers, NEW said \in BOOLEAN, NEW reach \in Reaches,
         NEW driven \in SUBSET (Hooks \cup Clis), Observe(p, said, reach, driven)
  PROVE  /\ Typed'
         /\ prover'[p].pc = "record" /\ prover'[p].loaded = prover[p].loaded
         /\ prover'[p].at = prover[p].at /\ prover'[p].reach \in {reach, "raised"}
         /\ prover'[p].quiet = prover[p].quiet /\ prover'[p].alone = prover[p].alone
<1> DEFINE passed == said /\ Witnessed(Current(p), reach, ReadDefinition(Current(p)).text)
           new == [pc |-> "record", at |-> prover[p].at, last |-> prover[p].last,
                   loaded |-> prover[p].loaded, quiet |-> prover[p].quiet,
                   alone |-> prover[p].alone, passed |-> passed,
                   reach |-> IF passed THEN reach ELSE "raised", driven |-> driven]
<1>1. prover' = [prover EXCEPT ![p] = new]
  BY DEF Observe
<1>2. /\ prover' = [q \in Provers |-> prover'[q]] /\ prover'[p] = new
      /\ \A q \in Provers \ {p} : KeptAs(prover[q], prover'[q])
  BY <1>1, Moved
<1>3. prover[p] \in Active /\ InOrder(prover[p])
  BY AtClaim DEF Observe
<1>4. passed \in BOOLEAN
  BY DEF Witnessed
<1>5. (IF passed THEN reach ELSE "raised") \in Reaches
  BY ClaimsAssumption
<1>6. new \in RecordState
  <2> HIDE DEF passed
  <2> QED BY <1>3, <1>4, <1>5, Shape DEF RecordState
<1>7. Fits(new, DOMAIN ledger')
  BY <1>3, <1>6 DEF Fits, Active, InOrder
<1>8. \A q \in Provers : Fits(prover'[q], DOMAIN ledger')
  BY <1>2, <1>7, AllFit DEF Observe
<1> QED BY <1>2, <1>8 DEF Typed, Observe

\* A run is recorded under the next reference, which its prover holds from then on.
LEMMA RecordTyped ==
  ASSUME Typed, NEW p \in Provers, Record(p)
  PROVE  /\ Typed' /\ ProofRun(p) \in ProofRecord
         /\ ledger' = Append(ledger, ProofRun(p))
         /\ prover'[p] \in CiteState /\ prover'[p].pc = "pin"
         /\ prover'[p].ref = Len(ledger) + 1 /\ prover'[p].passed = prover[p].passed
         /\ prover'[p].at = prover[p].at /\ prover'[p].loaded = prover[p].loaded
         /\ prover'[p].quiet = prover[p].quiet /\ prover'[p].alone = prover[p].alone
         /\ \A q \in Provers \ {p} : KeptAs(prover[q], prover'[q])
<1>1. prover[p] \in RecordState /\ InOrder(prover[p])
  BY AtClaim, Shape DEF Record
<1>2. ProofRun(p) \in ProofRecord
  <2>1. Current(p) \in Claims /\ ReadDefinition(Current(p)) \in Definition
        /\ DefinitionOf(Current(p)) \in Definition
    BY AtClaim DEF Record
  <2>2. /\ tree.procedure[Current(p)] \in Procedures \cup {Absent}
        /\ tree.implementation \in Implementations /\ tree.subject \in Versions
    BY <2>1 DEF Typed, Tree
  <2>3. /\ prover[p].loaded.procedure[Current(p)] \in Procedures \cup {Absent}
        /\ prover[p].loaded.implementation \in Implementations
    BY <1>1, <2>1 DEF RecordState, Loaded
  <2>4. /\ prover[p].passed \in BOOLEAN /\ prover[p].reach \in Reaches
        /\ prover[p].driven \in SUBSET (Hooks \cup Clis)
        /\ prover[p].quiet \in BOOLEAN /\ prover[p].alone \in BOOLEAN
    BY <1>1 DEF RecordState
  <2>5. Pinned(p) \in BOOLEAN
    BY DEF Pinned, Traversed
  <2> QED BY <2>1, <2>2, <2>3, <2>4, <2>5 DEF ProofRun, ProofRecord, Manifest, Subject
<1>3. ledger' = Append(ledger, ProofRun(p))
  BY DEF Record
<1>4. /\ ledger' \in Seq(Entries) /\ DOMAIN ledger' = DOMAIN ledger \cup {Len(ledger) + 1}
      /\ Len(ledger') = Len(ledger) + 1
  BY <1>2, <1>3, AppendFacts DEF Typed, Entries
<1> DEFINE new == [pc |-> "pin", at |-> prover[p].at, last |-> prover[p].last,
                   loaded |-> prover[p].loaded, quiet |-> prover[p].quiet,
                   alone |-> prover[p].alone, passed |-> prover[p].passed,
                   ref |-> ProofRef(ledger')]
<1>5. prover' = [prover EXCEPT ![p] = new]
  BY DEF Record
<1>6. /\ prover' = [q \in Provers |-> prover'[q]] /\ prover'[p] = new
      /\ \A q \in Provers \ {p} : KeptAs(prover[q], prover'[q])
  BY <1>5, Moved
<1>7. ProofRef(ledger') = Len(ledger) + 1 /\ Len(ledger) + 1 \in Nat
  BY <1>4 DEF ProofRef, Typed
<1>8. new \in CiteState
  BY <1>1, <1>7 DEF RecordState, CiteState
<1>9. Fits(new, DOMAIN ledger')
  BY <1>1, <1>4, <1>7, <1>8 DEF Fits, Active, InOrder
<1>10. \A q \in Provers : Fits(prover'[q], DOMAIN ledger')
  BY <1>4, <1>6, <1>9, AllFit
<1>11. Typed'
  BY <1>4, <1>6, <1>10 DEF Typed, Record
<1> QED BY <1>2, <1>3, <1>6, <1>7, <1>8, <1>11

\* The scope is pinned beside the run; a passing run goes on to cite it.
LEMMA PinTyped ==
  ASSUME Typed, NEW p \in Provers, Pin(p)
  PROVE  /\ Typed'
         /\ \E e \in ScopeRecord :
              /\ e.claim = Current(p) /\ e.scope = file[Current(p)].scope
              /\ e.of = prover[p].ref /\ e.quiet = (prover[p].quiet /\ prover[p].alone)
              /\ ledger' = Append(ledger, e)
         /\ IF prover[p].passed
              THEN prover'[p].pc = "load"
              ELSE prover'[p] = Advanced(p, TRUE)
         /\ prover[p].passed =>
              prover'[p].at = prover[p].at /\ prover'[p].ref = prover[p].ref /\ prover'[p].passed
              /\ prover'[p].loaded = prover[p].loaded /\ prover'[p].quiet = prover[p].quiet
              /\ prover'[p].alone = prover[p].alone
         /\ \A q \in Provers \ {p} : KeptAs(prover[q], prover'[q])
<1> DEFINE e == [op |-> "claim.scope", claim |-> Current(p),
                 scope |-> file[Current(p)].scope, of |-> prover[p].ref,
                 quiet |-> prover[p].quiet /\ prover[p].alone]
           new == IF WritesBack(p) THEN ToLoad(prover[p]) ELSE Advanced(p, TRUE)
<1>1. prover[p] \in CiteState /\ prover[p] \in Active /\ InOrder(prover[p])
  BY AtClaim, Shape DEF Pin
<1>2. e \in ScopeRecord
  <2>1. Current(p) \in Claims
    BY AtClaim DEF Pin
  <2>2. file[Current(p)].scope \in SUBSET Items
    BY <2>1 DEF Typed, File
  <2>3. /\ (prover[p].quiet /\ prover[p].alone) \in BOOLEAN /\ prover[p].ref \in Nat
    BY <1>1 DEF CiteState
  <2> QED BY <2>1, <2>2, <2>3 DEF ScopeRecord
<1>3. ledger' = Append(ledger, e)
  BY DEF Pin
<1>4. ledger' \in Seq(Entries) /\ DOMAIN ledger' = DOMAIN ledger \cup {Len(ledger) + 1}
  BY <1>2, <1>3, AppendFacts DEF Typed, Entries
<1>5. prover' = [prover EXCEPT ![p] = new]
  BY DEF Pin, ToLoad
<1>6. /\ prover' = [q \in Provers |-> prover'[q]] /\ prover'[p] = new
      /\ \A q \in Provers \ {p} : KeptAs(prover[q], prover'[q])
  BY <1>5, Moved
<1>7. /\ ToLoad(prover[p]) \in CiteState /\ ToLoad(prover[p]).pc = "load"
      /\ ToLoad(prover[p]).at = prover[p].at /\ ToLoad(prover[p]).last = prover[p].last
      /\ ToLoad(prover[p]).ref = prover[p].ref /\ ToLoad(prover[p]).passed = prover[p].passed
      /\ ToLoad(prover[p]).loaded = prover[p].loaded
      /\ ToLoad(prover[p]).quiet = prover[p].quiet /\ ToLoad(prover[p]).alone = prover[p].alone
  BY <1>1 DEF ToLoad, CiteState
<1>8. prover[p].ref \in DOMAIN ledger
  BY DEF Typed, Fits, Pin
<1>9. Fits(ToLoad(prover[p]), DOMAIN ledger')
  BY <1>1, <1>4, <1>7, <1>8 DEF Fits, Active, InOrder
<1>10. Fits(Advanced(p, TRUE), DOMAIN ledger')
  BY <1>1, AdvancedFits
<1>11. \A q \in Provers : Fits(prover'[q], DOMAIN ledger')
  BY <1>4, <1>6, <1>9, <1>10, AllFit
<1>12. Typed'
  BY <1>4, <1>6, <1>11 DEF Typed, Pin
<1>13. /\ e.claim = Current(p) /\ e.scope = file[Current(p)].scope
       /\ e.of = prover[p].ref /\ e.quiet = (prover[p].quiet /\ prover[p].alone)
  OBVIOUS
<1>14. prover'[p] = IF prover[p].passed THEN ToLoad(prover[p]) ELSE Advanced(p, TRUE)
  BY <1>6 DEF WritesBack
<1>15. prover[p].passed \in BOOLEAN
  BY <1>1 DEF CiteState
<1> HIDE DEF e, new
<1> QED BY <1>2, <1>3, <1>6, <1>7, <1>12, <1>13, <1>14, <1>15

\* The claims are read, with the new reference as the only proof of this claim.
LEMMA LoadTyped ==
  ASSUME Typed, NEW p \in Provers, Load(p)
  PROVE  /\ Typed'
         /\ prover'[p] \in WriteState /\ prover'[p].pc = "truncate"
         /\ prover'[p].at = prover[p].at /\ prover'[p].loaded = prover[p].loaded
         /\ prover'[p].quiet = prover[p].quiet /\ prover'[p].alone = prover[p].alone
         /\ prover'[p].ref = prover[p].ref
         /\ \A c \in Claims :
              /\ prover'[p].doc[c].text = file[c].text
              /\ prover'[p].doc[c].scope = file[c].scope
              /\ prover'[p].doc[c].proofs =
                   IF c = Current(p) THEN {prover[p].ref} ELSE file[c].proofs
         /\ \A q \in Provers \ {p} : KeptAs(prover[q], prover'[q])
<1> DEFINE doc == [file EXCEPT ![Current(p)].proofs = {prover[p].ref}]
           new == [pc |-> "truncate", at |-> prover[p].at, last |-> prover[p].last,
                   loaded |-> prover[p].loaded, quiet |-> prover[p].quiet,
                   alone |-> prover[p].alone, passed |-> TRUE, ref |-> prover[p].ref,
                   doc |-> doc]
<1>1. prover[p] \in CiteState /\ InOrder(prover[p]) /\ Current(p) \in Claims
  BY AtClaim, Shape DEF Load
<1>2. prover[p].ref \in Nat
  BY <1>1 DEF CiteState
<1>3. /\ doc \in File
      /\ \A c \in Claims :
           /\ doc[c].text = file[c].text /\ doc[c].scope = file[c].scope
           /\ doc[c].proofs = IF c = Current(p) THEN {prover[p].ref} ELSE file[c].proofs
  BY <1>1, <1>2 DEF Typed, File
<1>4. prover' = [prover EXCEPT ![p] = new]
  BY DEF Load
<1>5. /\ prover' = [q \in Provers |-> prover'[q]] /\ prover'[p] = new
      /\ \A q \in Provers \ {p} : KeptAs(prover[q], prover'[q])
  BY <1>4, Moved
<1>6. new \in WriteState
  <2> HIDE DEF doc
  <2> QED BY <1>1, <1>3 DEF CiteState, WriteState
<1>7. prover[p].ref \in DOMAIN ledger'
  BY DEF Typed, Fits, Load
<1>8. Fits(new, DOMAIN ledger')
  BY <1>1, <1>6, <1>7 DEF Fits, Active, InOrder
<1>9. \A q \in Provers : Fits(prover'[q], DOMAIN ledger')
  BY <1>5, <1>8, AllFit DEF Load
<1>10. Typed'
  BY <1>5, <1>9 DEF Typed, Load
<1>11. prover'[p].doc = doc
  BY <1>5
<1> HIDE DEF doc
<1> QED BY <1>3, <1>5, <1>6, <1>10, <1>11

\* The file is emptied, and the other provers were not alone.
LEMMA TruncateTyped ==
  ASSUME Typed, NEW p \in Provers, Truncate(p)
  PROVE  /\ Typed'
         /\ prover'[p] \in WriteState /\ prover'[p].pc = "write"
         /\ prover'[p].doc = prover[p].doc /\ prover'[p].loaded = prover[p].loaded
         /\ prover'[p].quiet = prover[p].quiet /\ prover'[p].alone = prover[p].alone
         /\ prover'[p].at = prover[p].at /\ prover'[p].ref = prover[p].ref
         /\ \A q \in Provers \ {p} :
              KeptAs(prover[q], prover'[q]) /\ (prover[q].pc # "idle" => ~prover'[q].alone)
<1>1. prover[p] \in WriteState /\ InOrder(prover[p])
  BY AtClaim, Shape DEF Truncate
<1>2. prover' = Intrude(p, ToWrite(prover[p]))
  BY DEF Truncate, ToWrite
<1>3. /\ prover' = [q \in Provers |-> prover'[q]] /\ prover'[p] = ToWrite(prover[p])
      /\ \A q \in Provers \ {p} :
           KeptAs(prover[q], prover'[q]) /\ (prover[q].pc # "idle" => ~prover'[q].alone)
  BY <1>2, Intruded
<1>4. LET t == ToWrite(prover[p]) IN
      /\ t \in WriteState /\ t.pc = "write" /\ t.doc = prover[p].doc
      /\ t.loaded = prover[p].loaded
      /\ t.quiet = prover[p].quiet /\ t.alone = prover[p].alone
      /\ t.at = prover[p].at /\ t.last = prover[p].last /\ t.ref = prover[p].ref
  BY <1>1 DEF ToWrite, WriteState
<1>5. prover[p].ref \in DOMAIN ledger'
  BY DEF Typed, Fits, Truncate
<1>6. Fits(ToWrite(prover[p]), DOMAIN ledger')
  BY <1>1, <1>4, <1>5 DEF Fits, Active, InOrder
<1>7. \A q \in Provers : Fits(prover'[q], DOMAIN ledger')
  BY <1>3, <1>6, AllFit DEF Truncate
<1>8. Typed'
  BY <1>3, <1>7 DEF Typed, Truncate
<1> QED BY <1>3, <1>4, <1>8

\* The document is written, and the next claim is taken up.
LEMMA WriteTyped ==
  ASSUME Typed, NEW p \in Provers, Write(p)
  PROVE  /\ Typed'
         /\ prover'[p] = Advanced(p, TRUE)
         /\ \A q \in Provers \ {p} :
              KeptAs(prover[q], prover'[q]) /\ (prover[q].pc # "idle" => ~prover'[q].alone)
<1>1. prover[p] \in WriteState /\ prover[p] \in Active /\ InOrder(prover[p])
  BY AtClaim, Shape DEF Write
<1>2. file' \in File
  BY <1>1 DEF Write, WriteState
<1>3. /\ prover' = [q \in Provers |-> prover'[q]] /\ prover'[p] = Advanced(p, TRUE)
      /\ \A q \in Provers \ {p} :
           KeptAs(prover[q], prover'[q]) /\ (prover[q].pc # "idle" => ~prover'[q].alone)
  BY Intruded DEF Write
<1>4. Fits(Advanced(p, TRUE), DOMAIN ledger')
  BY <1>1, AdvancedFits
<1>5. \A q \in Provers : Fits(prover'[q], DOMAIN ledger')
  BY <1>3, <1>4, AllFit DEF Write
<1> QED BY <1>2, <1>3, <1>5 DEF Typed, Write

\* A prover that is refused or killed is idle.
LEMMA EndTyped ==
  ASSUME Typed, NEW p \in Provers, Refused(p) \/ Kill(p)
  PROVE  /\ Typed'
         /\ prover'[p] = Idle /\ \A q \in Provers \ {p} : KeptAs(prover[q], prover'[q])
<1>1. /\ prover' = [q \in Provers |-> prover'[q]] /\ prover'[p] = Idle
      /\ \A q \in Provers \ {p} : KeptAs(prover[q], prover'[q])
  BY Moved DEF Refused, Kill
<1>2. Fits(Idle, DOMAIN ledger')
  BY DEF Fits, Idle
<1>3. \A q \in Provers : Fits(prover'[q], DOMAIN ledger')
  BY <1>1, <1>2, AllFit DEF Refused, Kill
<1> QED BY <1>1, <1>3 DEF Typed, Refused, Kill

\* A retraction is one record, and touches no prover.
LEMMA RetractTyped ==
  ASSUME Typed, NEW c \in Claims, NEW x \in Items, Retract(c, {x})
  PROVE  /\ Typed'
         /\ \E e \in RetractRecord : ledger' = Append(ledger, e)
         /\ \A q \in Provers : KeptAs(prover[q], prover'[q])
<1> DEFINE e == [op |-> "claim.scope.retract", claim |-> c, removed |-> {x}]
<1>1. e \in RetractRecord /\ ledger' = Append(ledger, e)
  BY DEF Retract, RetractRecord
<1>2. ledger' \in Seq(Entries) /\ DOMAIN ledger' = DOMAIN ledger \cup {Len(ledger) + 1}
  BY <1>1, AppendFacts DEF Typed, Entries
<1>3. /\ prover' = [q \in Provers |-> prover'[q]]
      /\ \A q \in Provers : KeptAs(prover[q], prover'[q])
  BY Unmoved DEF Retract
<1>4. \A q \in Provers : Fits(prover'[q], DOMAIN ledger')
  BY <1>2, <1>3, StillFits DEF Typed
<1>5. acts' \in 0..MaxActs
  BY ClaimsAssumption DEF Typed, Retract
<1> QED BY <1>1, <1>2, <1>3, <1>4, <1>5 DEF Typed, Retract

\* An edit disturbs the provers, and leaves the ledger and what is cited alone.
LEMMA EditTyped ==
  ASSUME Typed, Edit
  PROVE  /\ Typed' /\ Edited
         /\ ledger' = ledger /\ \A c \in Claims : file'[c].proofs = file[c].proofs
         /\ torn' = torn
<1>1. ASSUME NEW c \in Claims, NEW text \in Texts, NEW scope \in SUBSET Items,
             EditClaim(c, text, scope)
      PROVE  /\ Edited /\ UNCHANGED <<torn, tree, ledger, usable, runs>>
             /\ file' \in File /\ \A d \in Claims : file'[d].proofs = file[d].proofs
  BY <1>1 DEF EditClaim, Typed, File
<1>2. ASSUME NEW new \in Tree, EditTree(new)
      PROVE  Edited /\ tree' \in Tree /\ UNCHANGED <<file, torn, ledger, usable, runs>>
  BY <1>2 DEF EditTree
<1>3. /\ Edited /\ UNCHANGED <<torn, ledger, runs>>
      /\ file' \in File /\ \A c \in Claims : file'[c].proofs = file[c].proofs
      /\ tree' \in Tree /\ usable' \in BOOLEAN
  <2>1. CASE \E c \in Claims, text \in Texts : EditClaim(c, text, file[c].scope)
    BY <1>1, <2>1 DEF Typed, File
  <2>2. CASE \E c \in Claims, x \in Items :
               \E scope \in {file[c].scope \ {x}, file[c].scope \cup {x}} :
                 EditClaim(c, file[c].text, scope)
    BY <1>1, <2>2 DEF Typed, File
  <2>3. CASE \E c \in Claims, new \in Procedures \cup {Absent} :
               EditTree([tree EXCEPT !.procedure[c] = new])
    <3>1. PICK c \in Claims, new \in Procedures \cup {Absent} :
            EditTree([tree EXCEPT !.procedure[c] = new])
      BY <2>3
    <3>2. [tree EXCEPT !.procedure[c] = new] \in Tree
      BY DEF Typed, Tree
    <3> QED BY <1>2, <3>1, <3>2 DEF Typed
  <2>4. CASE \E new \in Implementations : EditTree([tree EXCEPT !.implementation = new])
    <3>1. PICK new \in Implementations : EditTree([tree EXCEPT !.implementation = new])
      BY <2>4
    <3>2. [tree EXCEPT !.implementation = new] \in Tree
      BY DEF Typed, Tree
    <3> QED BY <1>2, <3>1, <3>2 DEF Typed
  <2>5. CASE \E new \in Versions : EditTree([tree EXCEPT !.subject = new])
    <3>1. PICK new \in Versions : EditTree([tree EXCEPT !.subject = new])
      BY <2>5
    <3>2. [tree EXCEPT !.subject = new] \in Tree
      BY DEF Typed, Tree
    <3> QED BY <1>2, <3>1, <3>2 DEF Typed
  <2>6. CASE \E s \in Hooks \cup Live : \E wired \in {{}, {s}} :
               EditTree([tree EXCEPT !.wired = (@ \ {s}) \cup wired])
    <3>1. PICK s \in Hooks \cup Live, wired \in SUBSET (Hooks \cup Live) :
            EditTree([tree EXCEPT !.wired = (@ \ {s}) \cup wired])
      BY <2>6
    <3>2. [tree EXCEPT !.wired = (@ \ {s}) \cup wired] \in Tree
      BY DEF Typed, Tree
    <3> QED BY <1>2, <3>1, <3>2 DEF Typed
  <2>7. CASE Damage
    BY <2>7 DEF Damage, Typed
  <2> QED BY <2>1, <2>2, <2>3, <2>4, <2>5, <2>6, <2>7 DEF Edit
<1>4. /\ prover' = [q \in Provers |-> prover'[q]] /\ acts' \in 0..MaxActs
      /\ \A q \in Provers : KeptAs(prover[q], prover'[q])
  BY <1>3, AllDisturbed
<1>5. \A q \in Provers : Fits(prover'[q], DOMAIN ledger')
  BY <1>3, <1>4, StillFits DEF Typed
<1> QED BY <1>3, <1>4, <1>5 DEF Typed

\* A truncated file is restored from version control.
LEMMA RestoreTyped ==
  ASSUME Typed, Restore
  PROVE  Typed' /\ \A q \in Provers : KeptAs(prover[q], prover'[q])
<1>1. /\ prover' = [q \in Provers |-> prover'[q]]
      /\ \A q \in Provers : KeptAs(prover[q], prover'[q])
  BY Unmoved DEF Restore
<1>2. \A q \in Provers : Fits(prover'[q], DOMAIN ledger')
  BY <1>1, StillFits DEF Typed, Restore
<1> QED BY <1>1, <1>2 DEF Typed, Restore

\* The spans a process is started with lie in the order of the claims.
LEMMA Spans ==
  ASSUME NEW span \in {<<i, i>> : i \in DOMAIN Order} \cup {<<1, Len(Order)>>}
  PROVE  span[2] \in DOMAIN Order /\ span[1] \in 1..span[2]
BY ClaimsAssumption

\* Every step keeps everything in its type.
THEOREM TypedIsInductive ==
  ASSUME Typed, [Next]_vars
  PROVE  Typed'
<1>1. ASSUME NEW p \in Provers, Prove(p)
      PROVE  Typed'
  <2>1. ASSUME NEW span \in {<<i, i>> : i \in DOMAIN Order} \cup {<<1, Len(Order)>>},
               Begin(p, span[1], span[2])
        PROVE  Typed'
    BY <2>1, Spans, BeginTyped
  <2>2. ASSUME NEW said \in BOOLEAN, NEW reach \in Reaches,
               NEW driven \in SUBSET (Hooks \cup Clis), Observe(p, said, reach, driven)
        PROVE  Typed'
    BY <2>2, ObserveTyped
  <2>3. CASE NoProcedure(p)
    BY <2>3, NoProcedureTyped
  <2>4. CASE Record(p)
    BY <2>4, RecordTyped
  <2>5. CASE Pin(p)
    BY <2>5, PinTyped
  <2>6. CASE Load(p)
    BY <2>6, LoadTyped
  <2>7. CASE Truncate(p)
    BY <2>7, TruncateTyped
  <2>8. CASE Write(p)
    BY <2>8, WriteTyped
  <2>9. CASE Refused(p) \/ Kill(p)
    BY <2>9, EndTyped
  <2> QED BY <1>1, <2>1, <2>2, <2>3, <2>4, <2>5, <2>6, <2>7, <2>8, <2>9 DEF Prove, Steps
<1>2. ASSUME NEW c \in Claims, NEW x \in Items, Retract(c, {x})
      PROVE  Typed'
  BY <1>2, RetractTyped
<1>3. CASE Edit
  BY <1>3, EditTyped
<1>4. CASE Restore
  BY <1>4, RestoreTyped
<1>5. CASE UNCHANGED vars
  BY <1>5 DEF vars, Typed
<1> QED BY <1>1, <1>2, <1>3, <1>4, <1>5 DEF Next

\* The inductive invariant holds more than the type invariant says.
LEMMA TypedGivesTypeOK ==
  ASSUME Typed
  PROVE  TypeOK
<1>1. DOMAIN prover = Provers
  BY DEF Typed
<1>2. ASSUME NEW p \in Provers, prover[p].pc # "idle"
      PROVE  LET s == prover[p] IN
             /\ s.pc \in {"run", "record", "pin", "load", "truncate", "write"}
             /\ s.last \in DOMAIN Order /\ s.at \in 1..s.last
             /\ s.loaded \in Loaded /\ s.quiet \in BOOLEAN /\ s.alone \in BOOLEAN
             /\ s.pc \in {"pin", "load", "truncate", "write"} => s.ref \in DOMAIN ledger
             /\ s.pc \in {"truncate", "write"} => s.doc \in File
  <2>1. prover[p] \in Active /\ InOrder(prover[p])
    BY <1>2, AtClaim
  <2>2. prover[p].pc \in {"truncate", "write"} => prover[p].doc \in File
    BY <2>1, Shape DEF WriteState
  <2> QED BY <2>1, <2>2, Shape DEF InOrder, Typed, Fits
<1> QED BY <1>1, <1>2 DEF Typed, TypeOK, Entries

\* Every reachable state is well typed, and a prover has what its next step reads.
THEOREM TypeCorrect == Spec => []TypeOK
<1>1. Typed /\ [Next]_vars => Typed'
  BY TypedIsInductive
<1> QED BY <1>1, TypedInit, TypedGivesTypeOK, PTL DEF Spec

-----------------------------------------------------------------------------
(* What the records and the provers know *)

\* Record r of a log is a passing run of claim c whose scope was pinned after it
IsRun(log, r) == r \in DOMAIN log /\ log[r].op = "proof.run"
Pins(log, c, r) ==
  \E s \in DOMAIN log :
    log[s].op = "claim.scope" /\ log[s].claim = c /\ s > r /\ log[s].of = r
Citable(log, c, r) ==
  IsRun(log, r) /\ log[r].claim = c /\ log[r].passed /\ Pins(log, c, r)

At(s) == Order[s.at]

\* What a prover in state s is about to cite, or to write back
Cites(s, log) ==
  /\ s.pc \in {"pin", "load"} =>
       IsRun(log, s.ref) /\ log[s.ref].claim = At(s) /\ log[s.ref].passed = s.passed
  /\ s.pc = "load" => s.passed /\ Pins(log, At(s), s.ref)
  /\ s.pc \in {"truncate", "write"} =>
       \A c \in Claims : \A r \in s.doc[c].proofs : Citable(log, c, r)

\* While nobody edits, a process has imported what is on the disk; while nobody
\* writes, it can read the claims, and they assert what its run was about
Knows(s, log, claims, code, cut) ==
  /\ s.pc # "idle" /\ s.quiet => s.loaded = code
  /\ s.pc \in {"run", "record"} /\ s.alone => ~cut
  /\ s.pc = "record" =>
       /\ s.loaded.procedure[At(s)] # Absent
       /\ s.reach \in {"part", "full"} => s.loaded.implementation # Deleted
  /\ s.pc = "pin" /\ s.quiet /\ s.alone =>
       log[s.ref].definition.scope \subseteq claims[At(s)].scope

\* An undisturbed run recorded digests of what it ran
Digested(e) ==
  e.quiet /\ e.alone =>
    /\ e.definition = e.ran.definition /\ e.definition.text \in Texts
    /\ e.procedure = e.ran.procedure /\ e.procedure # Absent
    /\ e.implementation = e.ran.implementation
    /\ e.pinned = (e.claim \notin Subprocess /\ e.reach \in {"part", "full"})

\* A scope that was pinned undisturbed holds what the run was about
Bounds(e, log) ==
  /\ IsRun(log, e.of)
  /\ e.quiet => log[e.of].definition.scope \subseteq e.scope

Sound(log) ==
  \A r \in DOMAIN log :
    /\ log[r].op = "proof.run" => Digested(log[r])
    /\ log[r].op = "claim.scope" => Bounds(log[r], log)

Proofs ==
  /\ \A c \in Claims : \A r \in file[c].proofs : Citable(ledger, c, r)
  /\ \A p \in Provers :
       Cites(prover[p], ledger) /\ Knows(prover[p], ledger, file, Code, torn)
  /\ Sound(ledger)

Extends(log, more) ==
  DOMAIN log \subseteq DOMAIN more /\ \A r \in DOMAIN log : more[r] = log[r]

-----------------------------------------------------------------------------
\* A record that is appended leaves what the earlier ones say.
LEMMA Grown ==
  ASSUME Typed, NEW e \in Entries, ledger' = Append(ledger, e)
  PROVE  /\ DOMAIN ledger' = DOMAIN ledger \cup {Len(ledger) + 1}
         /\ Len(ledger) + 1 \in Nat /\ Len(ledger) + 1 \notin DOMAIN ledger
         /\ ledger'[Len(ledger) + 1] = e
         /\ Extends(ledger, ledger')
         /\ \A i \in DOMAIN ledger : i \in Nat /\ i < Len(ledger) + 1
<1>1. Len(ledger) \in Nat
  BY DEF Typed
<1> QED BY <1>1, AppendFacts DEF Typed, Extends

\* A run is a run in a longer log.
LEMMA StillRun ==
  ASSUME NEW log, NEW more, Extends(log, more), NEW r, IsRun(log, r)
  PROVE  IsRun(more, r) /\ more[r] = log[r]
BY DEF Extends, IsRun

\* What may be cited may be cited in a longer log.
LEMMA StillCitable ==
  ASSUME NEW log, NEW more, Extends(log, more), NEW c, NEW r
  PROVE  /\ Pins(log, c, r) => Pins(more, c, r)
         /\ Citable(log, c, r) => Citable(more, c, r)
BY DEF Extends, IsRun, Pins, Citable

\* What a prover is about to cite it may still cite.
LEMMA StillCites ==
  ASSUME NEW log, NEW more, Extends(log, more), NEW s, NEW t, KeptAs(s, t), Cites(s, log)
  PROVE  Cites(t, more)
<1>1. /\ t.pc = s.pc /\ (s.pc \in {"pin", "load"} => t.ref = s.ref /\ t.passed = s.passed)
      /\ s.pc \in {"truncate", "write"} => t.doc = s.doc
  BY DEF KeptAs
<1>2. s.pc # "idle" => At(t) = At(s)
  BY DEF KeptAs, At
<1>3. t.pc \in {"pin", "load"} =>
        IsRun(more, t.ref) /\ more[t.ref].claim = At(t) /\ more[t.ref].passed = t.passed
  BY <1>1, <1>2, StillRun DEF Cites
<1>4. t.pc = "load" => t.passed /\ Pins(more, At(t), t.ref)
  BY <1>1, <1>2, StillCitable DEF Cites
<1>5. t.pc \in {"truncate", "write"} =>
        \A c \in Claims : \A r \in t.doc[c].proofs : Citable(more, c, r)
  BY <1>1, StillCitable DEF Cites
<1> QED BY <1>3, <1>4, <1>5 DEF Cites

\* A prover knows the same of the disk when that has not changed, or it was told.
LEMMA StillKnows ==
  ASSUME NEW log, NEW more, Extends(log, more), NEW s, NEW t, KeptAs(s, t),
         Cites(s, log), NEW claims, NEW read, NEW code, NEW new, NEW cut, NEW torn1,
         Knows(s, log, claims, code, cut),
         s.pc # "idle" => ~t.quiet \/ new = code,
         s.pc # "idle" => ~t.alone \/ (torn1 => cut),
         s.pc # "idle" => ~t.quiet \/ ~t.alone \/ read = claims
  PROVE  Knows(t, more, read, new, torn1)
<1>1. /\ t.pc = s.pc
      /\ s.pc # "idle" => t.loaded = s.loaded /\ (t.quiet => s.quiet) /\ (t.alone => s.alone)
      /\ s.pc = "record" => t.reach = s.reach
      /\ s.pc = "pin" => t.ref = s.ref
  BY DEF KeptAs
<1>2. s.pc # "idle" => At(t) = At(s)
  BY DEF KeptAs, At
<1>3. s.pc = "pin" => more[s.ref] = log[s.ref]
  BY StillRun DEF Cites
<1>4. t.pc # "idle" /\ t.quiet => t.loaded = new
  BY <1>1 DEF Knows
<1>5. t.pc \in {"run", "record"} /\ t.alone => ~torn1
  BY <1>1 DEF Knows
<1>6. t.pc = "record" =>
        /\ t.loaded.procedure[At(t)] # Absent
        /\ t.reach \in {"part", "full"} => t.loaded.implementation # Deleted
  BY <1>1, <1>2 DEF Knows
<1>7. t.pc = "pin" /\ t.quiet /\ t.alone =>
        more[t.ref].definition.scope \subseteq read[At(t)].scope
  BY <1>1, <1>2, <1>3 DEF Knows
<1> QED BY <1>4, <1>5, <1>6, <1>7 DEF Knows

\* What is recorded stays sound when what is appended is.
LEMMA StillSound ==
  ASSUME Typed, Proofs, NEW e \in Entries, ledger' = Append(ledger, e),
         e.op = "proof.run" => Digested(e),
         e.op = "claim.scope" => Bounds(e, ledger)
  PROVE  Sound(ledger')
<1>1. Extends(ledger, ledger')
  BY Grown
<1>2. ASSUME NEW b, Bounds(b, ledger)
      PROVE  Bounds(b, ledger')
  <2>1. IsRun(ledger, b.of)
    BY <1>2 DEF Bounds
  <2>2. IsRun(ledger', b.of) /\ ledger'[b.of] = ledger[b.of]
    BY <1>1, <2>1 DEF Extends, IsRun
  <2> QED BY <1>2, <2>2 DEF Bounds
<1>3. ASSUME NEW r \in DOMAIN ledger
      PROVE  /\ ledger'[r].op = "proof.run" => Digested(ledger'[r])
             /\ ledger'[r].op = "claim.scope" => Bounds(ledger'[r], ledger')
  <2>1. ledger'[r] = ledger[r]
    BY <1>1 DEF Extends
  <2> QED BY <1>2, <2>1 DEF Proofs, Sound
<1>4. ledger'[Len(ledger) + 1] = e /\ DOMAIN ledger' = DOMAIN ledger \cup {Len(ledger) + 1}
  BY Grown
<1> QED BY <1>2, <1>3, <1>4 DEF Sound

\* A prover that the step of another, or an edit, left as it was.
LEMMA OneStill ==
  ASSUME Proofs, Extends(ledger, ledger'), NEW q \in Provers,
         KeptAs(prover[q], prover'[q]),
         prover[q].pc # "idle" => ~prover'[q].quiet \/ tree' = tree,
         prover[q].pc # "idle" => ~prover'[q].alone \/ (torn' => torn),
         prover[q].pc # "idle" => ~prover'[q].quiet \/ ~prover'[q].alone \/ file' = file
  PROVE  Cites(prover'[q], ledger') /\ Knows(prover'[q], ledger', file', Code', torn')
<1>1. Cites(prover[q], ledger) /\ Knows(prover[q], ledger, file, Code, torn)
  BY DEF Proofs
<1>2. prover[q].pc # "idle" => ~prover'[q].quiet \/ Code' = Code
  BY DEF Code
<1>3. Cites(prover'[q], ledger')
  BY <1>1, StillCites
<1>4. Knows(prover'[q], ledger', file', Code', torn')
  BY <1>1, <1>2, StillKnows
<1> QED BY <1>3, <1>4

\* A step of one prover that changes neither the disk nor a record.
LEMMA OthersStill ==
  ASSUME Proofs, Extends(ledger, ledger'), NEW p \in Provers,
         UNCHANGED <<file, tree, torn>>,
         \A q \in Provers \ {p} : KeptAs(prover[q], prover'[q])
  PROVE  \A q \in Provers \ {p} :
           Cites(prover'[q], ledger') /\ Knows(prover'[q], ledger', file', Code', torn')
BY OneStill

\* A prover that goes on to the next claim, or ends.
LEMMA AdvancedKnows ==
  ASSUME NEW p \in Provers, prover[p] \in Active, InOrder(prover[p]),
         Knows(prover[p], ledger, file, Code, torn),
         NEW whole \in BOOLEAN, NEW more, NEW read, NEW cut, whole => ~cut
  PROVE  /\ Cites(Advanced(p, whole), more)
         /\ Knows(Advanced(p, whole), more, read, Code, cut)
<1> DEFINE s == Advanced(p, whole)
<1>1. /\ s.pc \in {"idle", "run"}
      /\ s.pc = "run" =>
           s.quiet = prover[p].quiet /\ s.loaded = prover[p].loaded /\ s.alone = whole
  BY AdvancedFits
<1>2. prover[p].pc # "idle"
  BY Shape
<1> HIDE DEF s
<1>3. Cites(s, more)
  BY <1>1 DEF Cites
<1>4. Knows(s, more, read, Code, cut)
  BY <1>1, <1>2 DEF Knows
<1> QED BY <1>3, <1>4 DEF s

\* The claim of a prover is that of its state.
LEMMA CurrentIsAt ==
  ASSUME NEW p \in Provers
  PROVE  Current(p) = At(prover[p])
BY DEF Current, At

\* A log extends itself.
LEMMA SameLog ==
  ASSUME ledger' = ledger
  PROVE  Extends(ledger, ledger')
BY DEF Extends

\* Nothing is cited and nobody runs at the start.
LEMMA ProofsInit ==
  ASSUME Init
  PROVE  Proofs
<1>1. \A c \in Claims : \A r \in file[c].proofs : Citable(ledger, c, r)
  BY DEF Init
<1>2. \A p \in Provers : Cites(prover[p], ledger) /\ Knows(prover[p], ledger, file, Code, torn)
  BY DEF Init, Idle, Cites, Knows
<1>3. Sound(ledger)
  BY DEF Init, Sound
<1> QED BY <1>1, <1>2, <1>3 DEF Proofs

\* A process that starts has what is on the disk.
LEMMA BeginProofs ==
  ASSUME Typed, Proofs, NEW p \in Provers, NEW first, NEW last, Begin(p, first, last)
  PROVE  Proofs'
<1> DEFINE new == [pc |-> "run", at |-> first, last |-> last, loaded |-> Code,
                   quiet |-> TRUE, alone |-> ~torn]
<1>1. prover'[p] = new /\ \A q \in Provers \ {p} : KeptAs(prover[q], prover'[q])
  BY Moved DEF Begin
<1>2. UNCHANGED <<file, tree, torn, ledger>> /\ Code' = Code
  BY DEF Begin, Code
<1>3. Cites(new, ledger') /\ Knows(new, ledger', file', Code', torn')
  BY <1>2 DEF Cites, Knows
<1>4. \A q \in Provers \ {p} :
        Cites(prover'[q], ledger') /\ Knows(prover'[q], ledger', file', Code', torn')
  BY <1>1, <1>2, SameLog, OthersStill
<1> QED BY <1>1, <1>2, <1>3, <1>4 DEF Proofs

\* Passing a claim over cites nothing.
LEMMA NoProcedureProofs ==
  ASSUME Typed, Proofs, NEW p \in Provers, NoProcedure(p)
  PROVE  Proofs'
<1>1. prover'[p] = Advanced(p, ~torn) /\ \A q \in Provers \ {p} : KeptAs(prover[q], prover'[q])
  BY Moved DEF NoProcedure
<1>2. UNCHANGED <<file, tree, torn, ledger>> /\ Code' = Code
  BY DEF NoProcedure, Code
<1>3. /\ prover[p] \in Active /\ InOrder(prover[p]) /\ torn \in BOOLEAN
      /\ Knows(prover[p], ledger, file, Code, torn)
  BY AtClaim DEF NoProcedure, Proofs, Typed
<1>4. Cites(prover'[p], ledger') /\ Knows(prover'[p], ledger', file', Code', torn')
  BY <1>1, <1>2, <1>3, AdvancedKnows
<1>5. \A q \in Provers \ {p} :
        Cites(prover'[q], ledger') /\ Knows(prover'[q], ledger', file', Code', torn')
  BY <1>1, <1>2, SameLog, OthersStill
<1> QED BY <1>1, <1>2, <1>4, <1>5 DEF Proofs

\* A run is observed under the procedure it imported.
LEMMA ObserveProofs ==
  ASSUME Typed, Proofs, NEW p \in Provers, NEW said \in BOOLEAN, NEW reach \in Reaches,
         NEW driven \in SUBSET (Hooks \cup Clis), Observe(p, said, reach, driven)
  PROVE  Proofs'
<1> DEFINE s == prover[p]
           t == prover'[p]
<1>1. t.pc = "record" /\ t.loaded = s.loaded /\ t.at = s.at /\ t.quiet = s.quiet
      /\ t.alone = s.alone /\ t.reach \in {reach, "raised"}
  BY ObserveTyped
<1>2. \A q \in Provers \ {p} : KeptAs(prover[q], prover'[q])
  BY Moved DEF Observe
<1>3. UNCHANGED <<file, tree, torn, ledger>> /\ Code' = Code
  BY DEF Observe, Code
<1>4. /\ s.pc = "run" /\ s.loaded.procedure[At(s)] # Absent
      /\ t.reach \in {"part", "full"} => s.loaded.implementation # Deleted
  BY <1>1, CurrentIsAt DEF Observe
<1>5. Knows(s, ledger, file, Code, torn)
  BY DEF Proofs
<1>6. At(t) = At(s)
  BY <1>1 DEF At
<1>7. Cites(t, ledger') /\ Knows(t, ledger', file', Code', torn')
  <2> HIDE DEF s, t
  <2> QED BY <1>1, <1>3, <1>4, <1>5, <1>6 DEF Cites, Knows
<1>8. \A q \in Provers \ {p} :
        Cites(prover'[q], ledger') /\ Knows(prover'[q], ledger', file', Code', torn')
  BY <1>2, <1>3, SameLog, OthersStill
<1> QED BY <1>3, <1>7, <1>8 DEF Proofs

\* The record of an undisturbed run holds digests of what ran.
LEMMA ProofRunDigested ==
  ASSUME Typed, Proofs, NEW p \in Provers, Record(p)
  PROVE  Digested(ProofRun(p))
<1> DEFINE s == prover[p]
           c == Current(p)
           e == ProofRun(p)
<1> SUFFICES ASSUME e.quiet /\ e.alone
             PROVE  /\ e.definition = e.ran.definition /\ e.definition.text \in Texts
                    /\ e.procedure = e.ran.procedure /\ e.procedure # Absent
                    /\ e.implementation = e.ran.implementation
                    /\ e.pinned = (e.claim \notin Subprocess /\ e.reach \in {"part", "full"})
  BY DEF Digested
<1>1. s.pc = "record" /\ Knows(s, ledger, file, Code, torn)
  BY DEF Record, Proofs
<1>2. s.quiet /\ s.alone
  BY DEF ProofRun
<1>3. /\ s.loaded = Code /\ ~torn /\ s.loaded.procedure[c] # Absent
      /\ s.reach \in {"part", "full"} => s.loaded.implementation # Deleted
  BY <1>1, <1>2, CurrentIsAt DEF Knows
<1>4. c \in Claims /\ DefinitionOf(c).text \in Texts
  BY <1>1, AtClaim DEF Typed, File, DefinitionOf
<1>5. e.definition = DefinitionOf(c) /\ e.ran.definition = DefinitionOf(c)
  BY <1>3 DEF ProofRun, ReadDefinition
<1>6. e.procedure = tree.procedure[c] /\ e.ran.procedure = tree.procedure[c]
  BY <1>3 DEF ProofRun, Code
<1>7. e.implementation = tree.implementation /\ e.ran.implementation = tree.implementation
  BY <1>3 DEF ProofRun, Code, Manifest
<1>8. tree.procedure[c] # Absent
  BY <1>3 DEF Code
<1>9. e.pinned = (e.claim \notin Subprocess /\ e.reach \in {"part", "full"})
  BY <1>3 DEF ProofRun, Pinned, Traversed, Manifest, Code
<1> QED BY <1>4, <1>5, <1>6, <1>7, <1>8, <1>9

\* The new record is that of this run, and digests what ran.
LEMMA RecordProofs ==
  ASSUME Typed, Proofs, NEW p \in Provers, Record(p)
  PROVE  Proofs'
<1> DEFINE s == prover[p]
           t == prover'[p]
           e == ProofRun(p)
           n == Len(ledger) + 1
<1>1. /\ e \in ProofRecord /\ ledger' = Append(ledger, e)
      /\ t.pc = "pin" /\ t.ref = n /\ t.passed = s.passed /\ t.at = s.at
      /\ t.loaded = s.loaded /\ t.quiet = s.quiet /\ t.alone = s.alone
      /\ \A q \in Provers \ {p} : KeptAs(prover[q], prover'[q])
  BY RecordTyped
<1>2. e \in Entries /\ e.op = "proof.run"
  BY <1>1 DEF Entries, ProofRun
<1>3. /\ DOMAIN ledger' = DOMAIN ledger \cup {n} /\ ledger'[n] = e
      /\ Extends(ledger, ledger')
  BY <1>1, <1>2, Grown
<1>4. UNCHANGED <<file, tree, torn>> /\ Code' = Code
  BY DEF Record, Code
<1>5. Sound(ledger')
  BY <1>1, <1>2, ProofRunDigested, StillSound
<1>6. At(t) = Current(p)
  BY <1>1, CurrentIsAt DEF At
<1>7. e.claim = Current(p) /\ e.passed = s.passed
  BY DEF ProofRun
<1>8. Cites(t, ledger')
  <2> HIDE DEF s, t, e, n
  <2> QED BY <1>1, <1>2, <1>3, <1>6, <1>7 DEF Cites, IsRun
<1>9. e.definition.scope \subseteq file[Current(p)].scope
  BY DEF ProofRun, ReadDefinition, Unread, DefinitionOf
<1>10. s.pc = "record" /\ Knows(s, ledger, file, Code, torn)
  BY DEF Record, Proofs
<1>11. Knows(t, ledger', file', Code', torn')
  <2> HIDE DEF s, t, e, n
  <2> QED BY <1>1, <1>3, <1>4, <1>6, <1>9, <1>10 DEF Knows
<1>12. \A q \in Provers \ {p} :
         Cites(prover'[q], ledger') /\ Knows(prover'[q], ledger', file', Code', torn')
  BY <1>1, <1>3, <1>4, OthersStill
<1>13. \A c \in Claims : \A r \in file[c].proofs : Citable(ledger', c, r)
  BY <1>3, StillCitable DEF Proofs
<1> QED BY <1>4, <1>5, <1>8, <1>11, <1>12, <1>13 DEF Proofs

\* The pinned scope holds what an undisturbed run was about.
LEMMA PinProofs ==
  ASSUME Typed, Proofs, NEW p \in Provers, Pin(p)
  PROVE  Proofs'
<1> DEFINE s == prover[p]
           t == prover'[p]
           c == Current(p)
           n == Len(ledger) + 1
<1>1. PICK e \in ScopeRecord :
        /\ e.claim = c /\ e.scope = file[c].scope
        /\ e.of = s.ref /\ e.quiet = (s.quiet /\ s.alone)
        /\ ledger' = Append(ledger, e)
  BY PinTyped
<1>2. e \in Entries /\ e.op = "claim.scope"
  BY DEF Entries, ScopeRecord
<1>3. /\ DOMAIN ledger' = DOMAIN ledger \cup {n} /\ ledger'[n] = e
      /\ Extends(ledger, ledger') /\ \A i \in DOMAIN ledger : n > i
  BY <1>1, <1>2, Grown
<1>4. UNCHANGED <<file, tree, torn>> /\ Code' = Code /\ ~torn /\ s.pc = "pin"
  BY DEF Pin, Code
<1>5. Cites(s, ledger) /\ Knows(s, ledger, file, Code, torn) /\ c = At(s)
  BY CurrentIsAt DEF Proofs
<1>6. IsRun(ledger, s.ref) /\ ledger[s.ref].claim = c /\ ledger[s.ref].passed = s.passed
  BY <1>4, <1>5 DEF Cites
<1>7. Bounds(e, ledger)
  <2>1. e.quiet => s.quiet /\ s.alone
    BY <1>1, AtClaim, Shape DEF Pin
  <2>2. e.quiet => ledger[s.ref].definition.scope \subseteq file[c].scope
    BY <1>4, <1>5, <2>1 DEF Knows
  <2> QED BY <1>1, <1>6, <2>2 DEF Bounds
<1>8. Sound(ledger')
  BY <1>1, <1>2, <1>7, StillSound
<1>9. ASSUME s.passed
      PROVE  Cites(t, ledger') /\ Knows(t, ledger', file', Code', torn')
  <2>1. /\ t.pc = "load" /\ t.at = s.at /\ t.ref = s.ref /\ t.passed
        /\ t.loaded = s.loaded /\ t.quiet = s.quiet /\ t.alone = s.alone
    BY <1>9, PinTyped
  <2>2. At(t) = c
    BY <1>5, <2>1 DEF At
  <2>3. IsRun(ledger', s.ref) /\ ledger'[s.ref] = ledger[s.ref] /\ n > s.ref
    BY <1>3, <1>6 DEF Extends, IsRun
  <2>4. Pins(ledger', c, s.ref)
    BY <1>1, <1>2, <1>3, <2>3 DEF Pins
  <2>5. s.passed = TRUE /\ t.passed = TRUE
    BY <1>9, <2>1, PinTyped, AtClaim, Shape DEF Pin, CiteState, Typed, Fits, Active
  <2>6. Cites(t, ledger')
    <3> HIDE DEF s, t, c, n
    <3> QED BY <1>6, <2>1, <2>2, <2>3, <2>4, <2>5 DEF Cites
  <2>7. Knows(t, ledger', file', Code', torn')
    <3> HIDE DEF s, t, c, n
    <3> QED BY <1>4, <1>5, <2>1 DEF Knows
  <2> QED BY <2>6, <2>7
<1>10. ASSUME ~s.passed
      PROVE  Cites(t, ledger') /\ Knows(t, ledger', file', Code', torn')
  <2>1. t = Advanced(p, TRUE)
    BY <1>10, PinTyped
  <2>2. s \in Active /\ InOrder(s)
    BY AtClaim DEF Pin
  <2>3. Cites(t, ledger') /\ Knows(t, ledger', file', Code, torn)
    BY <1>4, <1>5, <2>1, <2>2, AdvancedKnows
  <2> QED BY <1>4, <2>3
<1>11. Cites(t, ledger') /\ Knows(t, ledger', file', Code', torn')
  BY <1>9, <1>10
<1>12. \A q \in Provers \ {p} :
         Cites(prover'[q], ledger') /\ Knows(prover'[q], ledger', file', Code', torn')
  BY <1>3, <1>4, PinTyped, OthersStill
<1>13. \A d \in Claims : \A r \in file[d].proofs : Citable(ledger', d, r)
  BY <1>3, StillCitable DEF Proofs
<1> QED BY <1>4, <1>8, <1>11, <1>12, <1>13 DEF Proofs

\* The document that will be written cites only proofs.
LEMMA LoadProofs ==
  ASSUME Typed, Proofs, NEW p \in Provers, Load(p)
  PROVE  Proofs'
<1> DEFINE s == prover[p]
           t == prover'[p]
<1>1. /\ t.pc = "truncate" /\ t.loaded = s.loaded /\ t.quiet = s.quiet
      /\ \A c \in Claims : t.doc[c].proofs =
           IF c = Current(p) THEN {s.ref} ELSE file[c].proofs
      /\ \A q \in Provers \ {p} : KeptAs(prover[q], prover'[q])
  BY LoadTyped
<1>2. UNCHANGED <<file, tree, torn, ledger>> /\ Code' = Code /\ s.pc = "load"
  BY DEF Load, Code
<1>3. Cites(s, ledger) /\ Knows(s, ledger, file, Code, torn) /\ Current(p) = At(s)
  BY CurrentIsAt DEF Proofs
<1>4. Citable(ledger, Current(p), s.ref)
  BY <1>2, <1>3 DEF Cites, Citable
<1>5. \A c \in Claims : \A r \in t.doc[c].proofs : Citable(ledger, c, r)
  BY <1>1, <1>4 DEF Proofs
<1>6. Cites(t, ledger') /\ Knows(t, ledger', file', Code', torn')
  <2> HIDE DEF s, t
  <2> QED BY <1>1, <1>2, <1>3, <1>5 DEF Cites, Knows
<1>7. \A q \in Provers \ {p} :
        Cites(prover'[q], ledger') /\ Knows(prover'[q], ledger', file', Code', torn')
  BY <1>1, <1>2, SameLog, OthersStill
<1> QED BY <1>2, <1>6, <1>7 DEF Proofs

\* Emptying the file leaves the document to be written as it was.
LEMMA TruncateProofs ==
  ASSUME Typed, Proofs, NEW p \in Provers, Truncate(p)
  PROVE  Proofs'
<1> DEFINE s == prover[p]
           t == prover'[p]
<1>1. /\ t.pc = "write" /\ t.doc = s.doc /\ t.loaded = s.loaded /\ t.quiet = s.quiet
      /\ \A q \in Provers \ {p} :
           KeptAs(prover[q], prover'[q]) /\ (prover[q].pc # "idle" => ~prover'[q].alone)
  BY TruncateTyped
<1>2. UNCHANGED <<file, tree, ledger>> /\ Code' = Code /\ s.pc = "truncate"
  BY DEF Truncate, Code
<1>3. Cites(s, ledger) /\ Knows(s, ledger, file, Code, torn)
  BY DEF Proofs
<1>4. Cites(t, ledger') /\ Knows(t, ledger', file', Code', torn')
  <2> HIDE DEF s, t
  <2> QED BY <1>1, <1>2, <1>3 DEF Cites, Knows
<1>5. \A q \in Provers \ {p} :
        Cites(prover'[q], ledger') /\ Knows(prover'[q], ledger', file', Code', torn')
  BY <1>1, <1>2, SameLog, OneStill
<1> QED BY <1>2, <1>4, <1>5 DEF Proofs

\* The written document cites only proofs, however stale it is.
LEMMA WriteProofs ==
  ASSUME Typed, Proofs, NEW p \in Provers, Write(p)
  PROVE  Proofs'
<1> DEFINE s == prover[p]
           t == prover'[p]
<1>1. /\ t = Advanced(p, TRUE)
      /\ \A q \in Provers \ {p} :
           KeptAs(prover[q], prover'[q]) /\ (prover[q].pc # "idle" => ~prover'[q].alone)
  BY WriteTyped
<1>2. UNCHANGED <<tree, ledger>> /\ Code' = Code /\ file' = s.doc /\ ~torn' /\ s.pc = "write"
  BY DEF Write, Code
<1>3. Cites(s, ledger) /\ Knows(s, ledger, file, Code, torn)
  BY DEF Proofs
<1>4. \A c \in Claims : \A r \in file'[c].proofs : Citable(ledger', c, r)
  BY <1>2, <1>3 DEF Cites
<1>5. s \in Active /\ InOrder(s)
  BY AtClaim DEF Write
<1>6. Cites(t, ledger') /\ Knows(t, ledger', file', Code, torn')
  BY <1>1, <1>2, <1>3, <1>5, AdvancedKnows
<1>7. \A q \in Provers \ {p} :
        Cites(prover'[q], ledger') /\ Knows(prover'[q], ledger', file', Code', torn')
  BY <1>1, <1>2, SameLog, OneStill
<1>8. Sound(ledger')
  BY <1>2 DEF Proofs
<1> QED BY <1>2, <1>4, <1>6, <1>7, <1>8 DEF Proofs

\* A dead prover cites nothing.
LEMMA EndProofs ==
  ASSUME Typed, Proofs, NEW p \in Provers, Refused(p) \/ Kill(p)
  PROVE  Proofs'
<1>1. prover'[p] = Idle /\ \A q \in Provers \ {p} : KeptAs(prover[q], prover'[q])
  BY EndTyped
<1>2. UNCHANGED <<file, tree, torn, ledger>>
  BY DEF Refused, Kill
<1>3. Cites(Idle, ledger') /\ Knows(Idle, ledger', file', Code', torn')
  BY DEF Idle, Cites, Knows
<1>4. \A q \in Provers \ {p} :
        Cites(prover'[q], ledger') /\ Knows(prover'[q], ledger', file', Code', torn')
  BY <1>1, <1>2, SameLog, OthersStill
<1> QED BY <1>1, <1>2, <1>3, <1>4 DEF Proofs

\* A retraction is neither a run nor a scope.
LEMMA RetractProofs ==
  ASSUME Typed, Proofs, NEW c \in Claims, NEW x \in Items, Retract(c, {x})
  PROVE  Proofs'
<1>1. PICK e \in RetractRecord : ledger' = Append(ledger, e)
  BY RetractTyped
<1>2. e \in Entries /\ e.op = "claim.scope.retract"
  BY DEF Entries, RetractRecord
<1>3. Extends(ledger, ledger')
  BY <1>1, <1>2, Grown
<1>4. UNCHANGED <<file, tree, torn>> /\ \A q \in Provers : KeptAs(prover[q], prover'[q])
  BY RetractTyped DEF Retract
<1>5. \A q \in Provers :
        Cites(prover'[q], ledger') /\ Knows(prover'[q], ledger', file', Code', torn')
  BY <1>3, <1>4, OneStill
<1>6. Sound(ledger')
  BY <1>1, <1>2, StillSound
<1>7. \A d \in Claims : \A r \in file[d].proofs : Citable(ledger', d, r)
  BY <1>3, StillCitable DEF Proofs
<1> QED BY <1>4, <1>5, <1>6, <1>7 DEF Proofs

\* An edit changes no citation, and disturbs every prover.
LEMMA EditProofs ==
  ASSUME Typed, Proofs, Edit
  PROVE  Proofs'
<1>1. /\ ledger' = ledger /\ \A c \in Claims : file'[c].proofs = file[c].proofs
      /\ torn' = torn
      /\ \A q \in Provers :
           KeptAs(prover[q], prover'[q]) /\ (prover[q].pc # "idle" => ~prover'[q].quiet)
  BY EditTyped, AllDisturbed
<1>2. \A q \in Provers :
        Cites(prover'[q], ledger') /\ Knows(prover'[q], ledger', file', Code', torn')
  BY <1>1, SameLog, OneStill
<1> QED BY <1>1, <1>2 DEF Proofs

\* A restored file is the last one that was written.
LEMMA RestoreProofs ==
  ASSUME Typed, Proofs, Restore
  PROVE  Proofs'
<1>1. UNCHANGED <<file, tree, ledger>> /\ ~torn'
  BY DEF Restore
<1>2. \A q \in Provers :
        Cites(prover'[q], ledger') /\ Knows(prover'[q], ledger', file', Code', torn')
  BY <1>1, RestoreTyped, SameLog, OneStill
<1> QED BY <1>1, <1>2 DEF Proofs

\* What the records and the provers know is kept by every step.
THEOREM ProofsAreInductive ==
  ASSUME Typed, Proofs, [Next]_vars
  PROVE  Proofs'
<1>1. ASSUME NEW p \in Provers, Prove(p)
      PROVE  Proofs'
  <2>1. ASSUME NEW span \in {<<i, i>> : i \in DOMAIN Order} \cup {<<1, Len(Order)>>},
               Begin(p, span[1], span[2])
        PROVE  Proofs'
    BY <2>1, BeginProofs
  <2>2. ASSUME NEW said \in BOOLEAN, NEW reach \in Reaches,
               NEW driven \in SUBSET (Hooks \cup Clis), Observe(p, said, reach, driven)
        PROVE  Proofs'
    BY <2>2, ObserveProofs
  <2>3. CASE NoProcedure(p)
    BY <2>3, NoProcedureProofs
  <2>4. CASE Record(p)
    BY <2>4, RecordProofs
  <2>5. CASE Pin(p)
    BY <2>5, PinProofs
  <2>6. CASE Load(p)
    BY <2>6, LoadProofs
  <2>7. CASE Truncate(p)
    BY <2>7, TruncateProofs
  <2>8. CASE Write(p)
    BY <2>8, WriteProofs
  <2>9. CASE Refused(p) \/ Kill(p)
    BY <2>9, EndProofs
  <2> QED BY <1>1, <2>1, <2>2, <2>3, <2>4, <2>5, <2>6, <2>7, <2>8, <2>9 DEF Prove, Steps
<1>2. ASSUME NEW c \in Claims, NEW x \in Items, Retract(c, {x})
      PROVE  Proofs'
  BY <1>2, RetractProofs
<1>3. CASE Edit
  BY <1>3, EditProofs
<1>4. CASE Restore
  BY <1>4, RestoreProofs
<1>5. CASE UNCHANGED vars
  BY <1>5 DEF vars, Proofs, Code
<1> QED BY <1>1, <1>2, <1>3, <1>4, <1>5 DEF Next

\* Every reachable state has its type and knows what it should.
THEOREM ProofsAlways == Spec => [](Typed /\ Proofs)
<1>1. Typed /\ Proofs /\ [Next]_vars => (Typed /\ Proofs)'
  BY TypedIsInductive, ProofsAreInductive
<1> QED BY <1>1, TypedInit, ProofsInit, PTL DEF Spec

-----------------------------------------------------------------------------
(* What `claims check` may conclude *)

\* A set of references has a largest.
LEMMA LargestExists ==
  ASSUME NEW n \in Nat, NEW S \in SUBSET (1..n), S # {}
  PROVE  Max(S) \in S
<1> DEFINE below == OpToRel(<, Nat)
           T == {m \in Nat : n - m \in S}
<1>1. T \in SUBSET Nat /\ T # {}
  <2>1. PICK x \in S : x \in 1..n
    OBVIOUS
  <2>2. n - x \in Nat /\ n - (n - x) = x
    BY <2>1
  <2> QED BY <2>1, <2>2
<1>2. PICK d \in T : \A y \in T : ~(<<y, d>> \in below)
  BY <1>1, NatLessThanWellFounded, WFMin
<1>3. \A y \in T : ~(y < d)
  BY <1>1, <1>2 DEF OpToRel
<1>4. n - d \in S /\ d \in Nat
  BY <1>2
<1>5. ASSUME NEW y \in S
      PROVE  n - d >= y
  <2>1. n - y \in Nat /\ n - (n - y) = y
    BY S \subseteq 1..n
  <2>2. ~(n - y < d)
    BY <1>3, <2>1
  <2> QED BY <1>4, <2>1, <2>2
<1> QED BY <1>4, <1>5 DEF Max

\* A claim's latest live proof is one, and is a passing run of that claim.
LEMMA LatestIsLive ==
  ASSUME Typed, NEW c \in Claims, LiveProofs(c) # {}
  PROVE  /\ Latest(c) \in LiveProofs(c) /\ Latest(c) \in Runs /\ Latest(c) > 0
         /\ ledger[Latest(c)].passed /\ ledger[Latest(c)].claim = c
<1>1. LiveProofs(c) \in SUBSET (1..Len(ledger)) /\ Len(ledger) \in Nat
  BY DEF Typed, LiveProofs, Runs
<1>2. Latest(c) \in LiveProofs(c)
  BY <1>1, LargestExists DEF Latest
<1> QED BY <1>1, <1>2 DEF LiveProofs

\* The invariant says of every citation what CitedIsProof asks.
LEMMA CitedIsCitable ==
  ASSUME Proofs
  PROVE  CitedIsProof
BY DEF Proofs, Citable, Pins, IsRun, CitedIsProof, Runs, Of

\* A cited proof is a recorded run of its claim that passed and whose scope was
\* pinned after it, whatever overlaps, is edited or is killed.
THEOREM AlwaysCitedIsProof == Spec => []CitedIsProof
BY ProofsAlways, CitedIsCitable, PTL

\* What is live and undisturbed is what ran.
LEMMA LiveRan ==
  ASSUME Typed, Proofs, NEW c \in Claims, Proven(c),
         ledger[Latest(c)].quiet, ledger[Latest(c)].alone
  PROVE  LET e == ledger[Latest(c)] IN
         /\ e.ran.definition = DefinitionOf(c)
         /\ e.ran.procedure = tree.procedure[c]
         /\ c \in Subprocess \/ tree.implementation \in {Deleted, e.ran.implementation}
<1> DEFINE e == ledger[Latest(c)]
<1>1. /\ LiveProofs(c) # {} /\ tree.procedure[c] # Absent
  BY DEF Proven, KindMatches
<1>2. /\ Latest(c) \in Runs /\ e.claim = c
      /\ DefinitionHolds(e) /\ ImplementationHolds(e) /\ ProcedureHolds(e)
      /\ Witnessed(c, e.reach, file[c].text)
  BY <1>1, LatestIsLive DEF LiveProofs
<1>3. /\ e.definition = e.ran.definition /\ e.definition.text \in Texts
      /\ e.procedure = e.ran.procedure /\ e.procedure # Absent
      /\ e.implementation = e.ran.implementation
      /\ e.pinned = (e.claim \notin Subprocess /\ e.reach \in {"part", "full"})
  BY <1>2 DEF Proofs, Sound, Runs, Digested
<1>4. e.definition # Unread
  BY <1>3, ClaimsAssumption DEF Unread
<1>5. e.ran.definition = DefinitionOf(c)
  BY <1>2, <1>3, <1>4 DEF DefinitionHolds
<1>6. e.ran.procedure = tree.procedure[c]
  BY <1>1, <1>2, <1>3 DEF ProcedureHolds
<1>7. c \in Subprocess \/ tree.implementation \in {Deleted, e.ran.implementation}
  BY <1>2, <1>3 DEF Witnessed, ImplementationHolds
<1> QED BY <1>5, <1>6, <1>7

\* A proven claim's latest proof, if its run was undisturbed, ran the text, the
\* procedure and the code that are on the disk, if there is code on the disk.
THEOREM AlwaysProvenMeansRan == Spec => []ProvenMeansRan
<1>1. Typed /\ Proofs => ProvenMeansRan
  BY LiveRan DEF ProvenMeansRan
<1> QED BY <1>1, ProofsAlways, PTL

\* What the high-water mark holds is asserted or excused.
LEMMA NarrowedWasRetracted ==
  ASSUME Typed, Proofs
  PROVE  NarrowedOnlyByRetraction
<1> SUFFICES ASSUME NEW c \in Claims, Proven(c), NEW s \in Of("claim.scope", c),
                    ledger[s].quiet
             PROVE  ledger[ledger[s].of].definition.scope \ file[c].scope \subseteq Excused(c)
  BY DEF NarrowedOnlyByRetraction
<1>1. Bounds(ledger[s], ledger)
  BY DEF Proofs, Sound, Of
<1>2. ledger[ledger[s].of].definition.scope \subseteq ledger[s].scope
  BY <1>1 DEF Bounds
<1>3. ledger[s].scope \subseteq HighWater(c)
  BY DEF HighWater
<1>4. HighWater(c) \ file[c].scope \subseteq Excused(c)
  BY DEF Proven, Findings, Unexplained
<1> QED BY <1>2, <1>3, <1>4

\* What an undisturbed run proved and the claim no longer asserts is named by a
\* recorded retraction, before the claim counts as proven again.
THEOREM AlwaysNarrowedOnlyByRetraction == Spec => []NarrowedOnlyByRetraction
BY ProofsAlways, NarrowedWasRetracted, PTL

-----------------------------------------------------------------------------
(* The refinement of ProofStore *)

Passes == [r \in {n \in Runs : ledger[n].passed} |-> ledger[r].claim]
LiveOf == [c \in Claims |-> IF LiveProofs(c) = {} THEN 0 ELSE Latest(c)]
ProvenOnes == {c \in Claims : Proven(c)}

\* What a reader makes of a state is a sound review of it
SoundlyReviewed ==
  /\ DOMAIN LiveOf = Claims
  /\ \A c \in Claims :
       LiveOf[c] = 0 \/ (LiveOf[c] \in DOMAIN Passes /\ Passes[LiveOf[c]] = c)
  /\ ProvenOnes \subseteq {c \in Claims : LiveOf[c] # 0}

\* A live proof is a passing run of its claim, and what is proven has one.
LEMMA SoundReview == Typed => SoundlyReviewed
<1> SUFFICES ASSUME Typed
             PROVE  SoundlyReviewed
  OBVIOUS
<1>1. ASSUME NEW c \in Claims, LiveProofs(c) # {}
      PROVE  /\ LiveOf[c] \in DOMAIN Passes /\ Passes[LiveOf[c]] = c /\ LiveOf[c] # 0
  <2>1. LiveOf[c] = Latest(c)
    BY <1>1 DEF LiveOf
  <2> QED BY <1>1, <2>1, LatestIsLive DEF Passes
<1>2. \A c \in Claims : LiveProofs(c) = {} => LiveOf[c] = 0
  BY DEF LiveOf
<1>3. \A c \in ProvenOnes : c \in Claims /\ LiveProofs(c) # {}
  BY DEF ProvenOnes, Proven
<1>4. DOMAIN LiveOf = Claims
  BY DEF LiveOf
<1> QED BY <1>1, <1>2, <1>3, <1>4 DEF SoundlyReviewed

\* The same of the state a step leads to.
LEMMA SoundReviewNext == Typed' => SoundlyReviewed'
BY SoundReview, PTL

\* A step that records no passing run is a review.
LEMMA ReviewStep ==
  ASSUME Typed', Passes' = Passes
  PROVE  Store!Review
<1>1. SoundlyReviewed'
  BY SoundReviewNext
<1>2. /\ DOMAIN LiveOf' = Claims
      /\ \A c \in Claims :
           LiveOf'[c] = 0 \/ (LiveOf'[c] \in DOMAIN Passes' /\ Passes'[LiveOf'[c]] = c)
      /\ ProvenOnes' \subseteq {c \in Claims : LiveOf'[c] # 0}
  BY <1>1 DEF SoundlyReviewed
<1> QED BY <1>2 DEF Store!Review, Store!Sound, Passes, LiveOf, ProvenOnes

\* A run's new record is not cited yet: nothing `claims check` says changes.
LEMMA RecordLeavesVerdicts ==
  ASSUME Typed, Proofs, NEW p \in Provers, Record(p)
  PROVE  LiveOf' = LiveOf /\ ProvenOnes' = ProvenOnes
<1> DEFINE n == Len(ledger) + 1
           e == ProofRun(p)
<1>1. e \in ProofRecord /\ ledger' = Append(ledger, e)
  BY RecordTyped
<1>2. e \in Entries /\ e.op = "proof.run"
  BY <1>1 DEF Entries, ProofRun
<1>3. /\ DOMAIN ledger' = DOMAIN ledger \cup {n} /\ n \notin DOMAIN ledger
      /\ ledger'[n] = e /\ \A r \in DOMAIN ledger : ledger'[r] = ledger[r]
  BY <1>1, <1>2, Grown DEF Extends
<1>4. UNCHANGED <<file, tree, torn, usable>>
  BY DEF Record
<1>5. \A c \in Claims : file[c].proofs \subseteq Runs /\ file[c].proofs \subseteq DOMAIN ledger
  BY DEF Proofs, Citable, IsRun, Runs
<1>6. \A c \in Claims : file'[c].proofs \cap Runs' = file[c].proofs \cap Runs
  BY <1>3, <1>4, <1>5 DEF Runs
<1> HIDE DEF n, e
<1>7. ASSUME NEW c \in Claims
      PROVE  /\ LiveProofs(c)' = LiveProofs(c) /\ Exercised(c)' = Exercised(c)
             /\ HighWater(c)' = HighWater(c) /\ Excused(c)' = Excused(c)
  <2>1. LiveProofs(c)' = LiveProofs(c)
    BY <1>3, <1>4, <1>5, <1>6
    DEF LiveProofs, DefinitionHolds, DefinitionOf, ImplementationHolds, ProcedureHolds,
        SubjectHolds, Witnessed
  <2>2. Exercised(c)' = Exercised(c)
    BY <1>3, <1>5, <1>6 DEF Exercised
  <2>3. Of("claim.scope", c)' = Of("claim.scope", c)
        /\ Of("claim.scope.retract", c)' = Of("claim.scope.retract", c)
    BY <1>2, <1>3 DEF Of
  <2>4. HighWater(c)' = HighWater(c)
    BY <1>3, <2>3 DEF HighWater, Of
  <2>5. Excused(c)' = Excused(c)
    BY <1>3, <2>3 DEF Excused, Of
  <2> QED BY <2>1, <2>2, <2>4, <2>5
<1>8. LiveOf' = LiveOf
  BY <1>7 DEF LiveOf, Latest
<1>9. \A c \in Claims : Proven(c)' = Proven(c)
  BY <1>4, <1>7 DEF Proven, KindMatches, Findings, Undriven, Unwired, Unexplained
<1>10. ProvenOnes' = ProvenOnes
  BY <1>9 DEF ProvenOnes
<1> QED BY <1>8, <1>10

\* The record of a passing run is a Pass of its claim, and any other a review.
LEMMA RecordStep ==
  ASSUME Typed, Proofs, Typed', NEW p \in Provers, Record(p)
  PROVE  Store!StoreNext
<1> DEFINE n == Len(ledger) + 1
           e == ProofRun(p)
<1>1. e \in ProofRecord /\ ledger' = Append(ledger, e)
  BY RecordTyped
<1>2. e \in Entries /\ e.op = "proof.run" /\ e.claim \in Claims /\ e.passed \in BOOLEAN
  BY <1>1 DEF Entries, ProofRun, ProofRecord
<1>3. /\ DOMAIN ledger' = DOMAIN ledger \cup {n} /\ n \notin DOMAIN ledger /\ n \in Nat
      /\ ledger'[n] = e
      /\ \A r \in DOMAIN ledger : ledger'[r] = ledger[r] /\ r \in Nat /\ r < n
  BY <1>1, <1>2, Grown DEF Extends
<1> HIDE DEF n, e
<1>4. CASE e.passed
  <2>1. DOMAIN Passes' = DOMAIN Passes \cup {n}
    BY <1>2, <1>3, <1>4 DEF Passes, Runs
  <2>2. \A r \in DOMAIN Passes : r < n /\ Passes'[r] = Passes[r] /\ r # n
    BY <1>3, <2>1 DEF Passes, Runs
  <2>3. Passes'[n] = e.claim
    BY <1>3, <2>1 DEF Passes
  <2>4. Passes' = [r \in DOMAIN Passes \cup {n} |-> IF r = n THEN e.claim ELSE Passes[r]]
    BY <2>1, <2>2, <2>3 DEF Passes
  <2>5. n > 0 /\ \A r \in DOMAIN Passes : n > r
    BY <1>3, <2>2 DEF n, Typed
  <2>6. LiveOf' = LiveOf /\ ProvenOnes' = ProvenOnes
    BY RecordLeavesVerdicts
  <2>7. PICK c \in Claims, ref \in Nat : c = e.claim /\ ref = n
    BY <1>2, <1>3
  <2>8. Store!Pass(c, ref)
    BY <2>4, <2>5, <2>6, <2>7 DEF Store!Pass, Passes, LiveOf, ProvenOnes
  <2>9. ref \in DOMAIN Passes'
    BY <2>1, <2>7
  <2> QED BY <2>8, <2>9 DEF Store!StoreNext, Passes
<1>5. CASE ~e.passed
  <2>1. DOMAIN Passes' = DOMAIN Passes
    BY <1>3, <1>5 DEF Passes, Runs
  <2>2. \A r \in DOMAIN Passes : Passes'[r] = Passes[r]
    BY <1>3, <2>1 DEF Passes, Runs
  <2>3. Passes' = Passes
    BY <2>1, <2>2 DEF Passes
  <2> QED BY <2>3, ReviewStep DEF Store!StoreNext
<1> QED BY <1>2, <1>4, <1>5

\* A record of another kind is no proof.
LEMMA OtherRecords ==
  ASSUME Typed, NEW e \in ScopeRecord \cup RetractRecord, ledger' = Append(ledger, e)
  PROVE  Passes' = Passes
<1>1. e \in Entries /\ e.op # "proof.run"
  BY DEF Entries, ScopeRecord, RetractRecord
<1>2. /\ DOMAIN ledger' = DOMAIN ledger \cup {Len(ledger) + 1}
      /\ ledger'[Len(ledger) + 1] = e /\ \A r \in DOMAIN ledger : ledger'[r] = ledger[r]
  BY <1>1, Grown DEF Extends
<1>3. Runs' = Runs /\ \A r \in Runs : ledger'[r] = ledger[r]
  BY <1>1, <1>2 DEF Runs
<1> QED BY <1>3 DEF Passes

\* Every step is one of ProofStore, or none.
LEMMA StepRefines ==
  ASSUME Typed, Proofs, [Next]_vars
  PROVE  [Store!StoreNext]_(Store!storevars)
<1>1. Typed'
  BY TypedIsInductive
<1>2. CASE ledger' = ledger
  <2>1. Passes' = Passes
    BY <1>2 DEF Passes, Runs
  <2> QED BY <1>1, <2>1, ReviewStep DEF Store!StoreNext
<1>3. ASSUME NEW e \in ScopeRecord \cup RetractRecord, ledger' = Append(ledger, e)
      PROVE  Store!StoreNext
  BY <1>1, <1>3, OtherRecords, ReviewStep DEF Store!StoreNext
<1>4. ASSUME NEW p \in Provers, Prove(p)
      PROVE  ledger' = ledger \/ Store!StoreNext
  <2>1. CASE Record(p)
    BY <1>1, <2>1, RecordStep
  <2>2. CASE Pin(p)
    BY <1>3, <2>2, PinTyped
  <2>3. CASE ~Record(p) /\ ~Pin(p)
    BY <1>4, <2>3
    DEF Prove, Steps, Begin, NoProcedure, Observe, Load, Truncate, Write, Refused, Kill
  <2> QED BY <2>1, <2>2, <2>3
<1>5. ASSUME NEW c \in Claims, NEW x \in Items, Retract(c, {x})
      PROVE  Store!StoreNext
  BY <1>3, <1>5, RetractTyped
<1>6. Edit \/ Restore \/ UNCHANGED vars => ledger' = ledger
  BY EditTyped DEF Restore, vars
<1> QED BY <1>2, <1>4, <1>5, <1>6 DEF Next

\* The ledger and the file start as ProofStore does.
LEMMA InitRefines ==
  ASSUME Init
  PROVE  Store!StoreInit
<1>1. Runs = {} /\ \A c \in Claims : LiveProofs(c) = {}
  BY DEF Init, Runs, LiveProofs
<1>2. Passes = [r \in {} |-> 0]
  BY <1>1 DEF Passes
<1>3. LiveOf = [c \in Claims |-> 0]
  BY <1>1 DEF LiveOf
<1>4. ProvenOnes = {}
  BY <1>1 DEF ProvenOnes, Proven
<1> QED BY <1>2, <1>3, <1>4 DEF Store!StoreInit, Passes, LiveOf, ProvenOnes

\* The ledger and the file keep ProofStore's promises to their readers: passing
\* proofs accumulate, and a live proof is a passing one of its claim.
THEOREM ClaimsImplementProofStore == Spec => ImplementsProofStore
<1>1. Typed /\ Proofs /\ [Next]_vars => [Store!StoreNext]_(Store!storevars)
  BY StepRefines
<1> QED BY <1>1, InitRefines, ProofsAlways, PTL DEF Spec, ImplementsProofStore, Store!StoreSpec

-----------------------------------------------------------------------------
(* What an undisturbed run leaves behind *)

\* Record e stands for claim c with that text and scope, as the tree is now
Stands(e, c, claim, now) ==
  /\ e.op = "proof.run" /\ e.claim = c /\ e.passed
  /\ e.definition = [text |-> claim.text, scope |-> claim.scope]
  /\ e.implementation = now.implementation /\ e.procedure = now.procedure[c]
  /\ e.subject = now.subject
  /\ Witnessed(c, e.reach, claim.text)

\* An undisturbed prover's passing run stands, in what it will write back too
Fresh(s, log, claims, now) ==
  s.pc # "idle" /\ s.quiet /\ s.alone =>
    /\ s.pc = "record" /\ s.passed => Witnessed(At(s), s.reach, claims[At(s)].text)
    /\ s.pc \in {"pin", "load"} /\ s.passed =>
         Stands(log[s.ref], At(s), claims[At(s)], now)
    /\ s.pc \in {"truncate", "write"} =>
         Stands(log[s.ref], At(s), s.doc[At(s)], now) /\ s.ref \in s.doc[At(s)].proofs

AllFresh == \A p \in Provers : Fresh(prover[p], ledger, file, tree)

\* What another did leaves an undisturbed run standing.
LEMMA OneStillFresh ==
  ASSUME Typed, AllFresh, Extends(ledger, ledger'), NEW q \in Provers,
         KeptAs(prover[q], prover'[q]),
         prover[q].pc # "idle" => ~prover'[q].quiet \/ tree' = tree,
         prover[q].pc # "idle" => ~prover'[q].quiet \/ ~prover'[q].alone \/ file' = file
  PROVE  Fresh(prover'[q], ledger', file', tree')
<1> DEFINE s == prover[q]
           t == prover'[q]
<1> SUFFICES ASSUME t.pc # "idle", t.quiet, t.alone
             PROVE  Fresh(t, ledger', file', tree')
  BY DEF Fresh
<1>1. Fresh(s, ledger, file, tree)
  BY DEF AllFresh
<1>2. /\ s.pc = t.pc /\ s.quiet /\ s.alone /\ tree' = tree /\ file' = file
      /\ s.pc \in {"record", "pin", "load", "truncate", "write"} => t.passed = s.passed
      /\ s.pc = "record" => t.reach = s.reach
      /\ s.pc \in {"pin", "load", "truncate", "write"} => t.ref = s.ref
      /\ s.pc \in {"truncate", "write"} => t.doc = s.doc
  BY DEF KeptAs
<1>3. At(t) = At(s)
  BY <1>2 DEF KeptAs, At
<1>4. s.pc \in {"pin", "load", "truncate", "write"} => ledger'[s.ref] = ledger[s.ref]
  BY DEF Typed, Fits, Extends
<1> HIDE DEF s, t
<1> QED BY <1>1, <1>2, <1>3, <1>4 DEF Fresh

\* The same, for all the others of a step that changes neither file nor tree.
LEMMA OthersStillFresh ==
  ASSUME Typed, AllFresh, Extends(ledger, ledger'), NEW p \in Provers,
         UNCHANGED <<file, tree>>,
         \A q \in Provers \ {p} : KeptAs(prover[q], prover'[q])
  PROVE  \A q \in Provers \ {p} : Fresh(prover'[q], ledger', file', tree')
BY OneStillFresh

\* A prover that has run nothing yet has nothing to lose.
LEMMA StartFresh ==
  ASSUME NEW s, s.pc \in {"idle", "run"}, NEW log, NEW claims, NEW now
  PROVE  Fresh(s, log, claims, now)
BY DEF Fresh

\* A run that passed has done the work that the text asks for.
LEMMA ObserveFresh ==
  ASSUME Typed, Proofs, AllFresh, NEW p \in Provers, NEW said \in BOOLEAN,
         NEW reach \in Reaches, NEW driven \in SUBSET (Hooks \cup Clis),
         Observe(p, said, reach, driven)
  PROVE  AllFresh'
<1> DEFINE s == prover[p]
           t == prover'[p]
           passed == said /\ Witnessed(Current(p), reach, ReadDefinition(Current(p)).text)
<1>1. /\ t.pc = "record" /\ t.at = s.at /\ t.quiet = s.quiet /\ t.alone = s.alone
      /\ t.passed = passed /\ t.reach = IF passed THEN reach ELSE "raised"
      /\ \A q \in Provers \ {p} : KeptAs(prover[q], prover'[q])
  BY Moved DEF Observe
<1>2. UNCHANGED <<file, tree, ledger>>
  BY DEF Observe
<1>3. At(t) = At(s) /\ Current(p) = At(s)
  BY <1>1, CurrentIsAt DEF At
<1>4. t.alone => ~torn
  BY <1>1 DEF Observe, Proofs, Knows
<1>5. t.alone /\ t.passed => Witnessed(At(t), t.reach, file'[At(t)].text)
  BY <1>1, <1>2, <1>3, <1>4 DEF ReadDefinition, DefinitionOf
<1>6. Fresh(t, ledger', file', tree')
  <2> HIDE DEF s, t, passed
  <2> QED BY <1>1, <1>5 DEF Fresh
<1>7. \A q \in Provers \ {p} : Fresh(prover'[q], ledger', file', tree')
  BY <1>1, <1>2, SameLog, OthersStillFresh
<1> QED BY <1>6, <1>7 DEF AllFresh

\* The record of an undisturbed passing run stands as it is written.
LEMMA RecordFresh ==
  ASSUME Typed, Proofs, AllFresh, NEW p \in Provers, Record(p)
  PROVE  AllFresh'
<1> DEFINE s == prover[p]
           t == prover'[p]
           c == Current(p)
           e == ProofRun(p)
<1>1. /\ e \in ProofRecord /\ ledger' = Append(ledger, e)
      /\ t.pc = "pin" /\ t.ref = Len(ledger) + 1 /\ t.passed = s.passed /\ t.at = s.at
      /\ t.quiet = s.quiet /\ t.alone = s.alone
      /\ \A q \in Provers \ {p} : KeptAs(prover[q], prover'[q])
  BY RecordTyped
<1>2. Extends(ledger, ledger') /\ ledger'[t.ref] = e
  BY <1>1, Grown DEF Entries
<1>3. UNCHANGED <<file, tree>> /\ s.pc = "record"
  BY DEF Record
<1>4. At(t) = c /\ At(s) = c
  BY <1>1, CurrentIsAt DEF At
<1>5. ASSUME s.quiet, s.alone, s.passed
      PROVE  Stands(e, c, file[c], tree)
  <2>1. ~torn /\ Witnessed(c, s.reach, file[c].text)
    BY <1>3, <1>4, <1>5 DEF Proofs, Knows, AllFresh, Fresh
  <2>2. e.definition = [text |-> file[c].text, scope |-> file[c].scope]
    BY <2>1 DEF ProofRun, ReadDefinition, DefinitionOf
  <2>3. /\ e.op = "proof.run" /\ e.claim = c /\ e.passed = s.passed
        /\ e.implementation = tree.implementation /\ e.procedure = tree.procedure[c]
        /\ e.subject = tree.subject /\ e.reach = s.reach
    BY DEF ProofRun, Manifest, Subject
  <2> QED BY <1>5, <2>1, <2>2, <2>3 DEF Stands
<1>6. Fresh(t, ledger', file', tree')
  <2> HIDE DEF s, t, c, e
  <2> QED BY <1>1, <1>2, <1>3, <1>4, <1>5 DEF Fresh
<1>7. \A q \in Provers \ {p} : Fresh(prover'[q], ledger', file', tree')
  BY <1>1, <1>2, <1>3, OthersStillFresh
<1> QED BY <1>6, <1>7 DEF AllFresh

\* Pinning the scope leaves the run standing.
LEMMA PinFresh ==
  ASSUME Typed, AllFresh, NEW p \in Provers, Pin(p)
  PROVE  AllFresh'
<1> DEFINE s == prover[p]
           t == prover'[p]
<1>1. PICK e \in ScopeRecord : ledger' = Append(ledger, e)
  BY PinTyped
<1>2. Extends(ledger, ledger')
  BY <1>1, Grown DEF Entries
<1>3. UNCHANGED <<file, tree>> /\ s.pc = "pin" /\ ledger'[s.ref] = ledger[s.ref]
  BY <1>2 DEF Pin, Typed, Fits, Extends
<1>4. ASSUME s.passed
      PROVE  Fresh(t, ledger', file', tree')
  <2>1. /\ t.pc = "load" /\ t.at = s.at /\ t.ref = s.ref
        /\ t.quiet = s.quiet /\ t.alone = s.alone
    BY <1>4, PinTyped
  <2>2. At(t) = At(s)
    BY <2>1 DEF At
  <2>3. Fresh(s, ledger, file, tree)
    BY DEF AllFresh
  <2> HIDE DEF s, t
  <2> QED BY <1>3, <1>4, <2>1, <2>2, <2>3 DEF Fresh
<1>5. ASSUME ~s.passed
      PROVE  Fresh(t, ledger', file', tree')
  <2>1. t = Advanced(p, TRUE) /\ s \in Active /\ InOrder(s)
    BY <1>5, PinTyped, AtClaim DEF Pin
  <2>2. t.pc \in {"idle", "run"}
    BY <2>1, AdvancedFits
  <2> HIDE DEF t
  <2> QED BY <2>2 DEF Fresh
<1>6. \A q \in Provers \ {p} : Fresh(prover'[q], ledger', file', tree')
  BY <1>2, <1>3, PinTyped, OthersStillFresh
<1> QED BY <1>4, <1>5, <1>6 DEF AllFresh

\* The document cites the run that stands, under the text it stands for.
LEMMA LoadFresh ==
  ASSUME Typed, Proofs, AllFresh, NEW p \in Provers, Load(p)
  PROVE  AllFresh'
<1> DEFINE s == prover[p]
           t == prover'[p]
           c == Current(p)
<1>1. /\ t.pc = "truncate" /\ t.at = s.at /\ t.ref = s.ref
      /\ t.quiet = s.quiet /\ t.alone = s.alone
      /\ \A q \in Provers \ {p} : KeptAs(prover[q], prover'[q])
  BY LoadTyped
<1>2. UNCHANGED <<file, tree, ledger>> /\ s.pc = "load"
  BY DEF Load
<1>3. At(t) = c /\ At(s) = c /\ c \in Claims
  BY <1>1, <1>2, CurrentIsAt, AtClaim DEF At
<1>4. t.doc[c].text = file[c].text /\ t.doc[c].scope = file[c].scope /\ t.doc[c].proofs = {s.ref}
  BY <1>3, LoadTyped
<1>5. Fresh(s, ledger, file, tree) /\ s.passed
  BY <1>2 DEF AllFresh, Proofs, Cites
<1>6. Fresh(t, ledger', file', tree')
  <2> HIDE DEF s, t, c
  <2> QED BY <1>1, <1>2, <1>3, <1>4, <1>5 DEF Fresh, Stands
<1>7. \A q \in Provers \ {p} : Fresh(prover'[q], ledger', file', tree')
  BY <1>1, <1>2, SameLog, OthersStillFresh
<1> QED BY <1>6, <1>7 DEF AllFresh

\* Emptying the file leaves the document to be written as it was.
LEMMA TruncateFresh ==
  ASSUME Typed, AllFresh, NEW p \in Provers, Truncate(p)
  PROVE  AllFresh'
<1> DEFINE s == prover[p]
           t == prover'[p]
<1>1. /\ t.pc = "write" /\ t.doc = s.doc /\ t.at = s.at /\ t.ref = s.ref
      /\ t.quiet = s.quiet /\ t.alone = s.alone
      /\ \A q \in Provers \ {p} : KeptAs(prover[q], prover'[q])
  BY TruncateTyped
<1>2. UNCHANGED <<file, tree, ledger>> /\ s.pc = "truncate"
  BY DEF Truncate
<1>3. At(t) = At(s)
  BY <1>1 DEF At
<1>4. Fresh(s, ledger, file, tree)
  BY DEF AllFresh
<1>5. Fresh(t, ledger', file', tree')
  <2> HIDE DEF s, t
  <2> QED BY <1>1, <1>2, <1>3, <1>4 DEF Fresh
<1>6. \A q \in Provers \ {p} : Fresh(prover'[q], ledger', file', tree')
  BY <1>1, <1>2, SameLog, OthersStillFresh
<1> QED BY <1>5, <1>6 DEF AllFresh

\* A prover that starts, goes on to the next claim or ends has nothing to write.
LEMMA OthersFresh ==
  ASSUME Typed, AllFresh, NEW p \in Provers,
         \/ \E first, last : Begin(p, first, last)
         \/ NoProcedure(p) \/ Write(p) \/ Refused(p) \/ Kill(p)
  PROVE  AllFresh'
<1>1. prover'[p].pc \in {"idle", "run"}
  <2>1. CASE \E first, last : Begin(p, first, last)
    BY <2>1, Moved DEF Begin
  <2>2. CASE NoProcedure(p)
    <3>1. prover'[p] = Advanced(p, ~torn) /\ torn \in BOOLEAN
      BY <2>2, Moved DEF NoProcedure, Typed
    <3> QED BY <2>2, <3>1, AtClaim, AdvancedFits DEF NoProcedure
  <2>3. CASE Write(p)
    BY <2>3, WriteTyped, AtClaim, AdvancedFits DEF Write
  <2>4. CASE Refused(p) \/ Kill(p)
    BY <2>4, EndTyped DEF Idle
  <2> QED BY <2>1, <2>2, <2>3, <2>4
<1>2. /\ ledger' = ledger /\ tree' = tree
      /\ \A q \in Provers \ {p} :
           /\ KeptAs(prover[q], prover'[q])
           /\ prover[q].pc # "idle" => ~prover'[q].alone \/ file' = file
  <2>1. CASE \E first, last : Begin(p, first, last)
    BY <2>1, Moved DEF Begin
  <2>2. CASE NoProcedure(p)
    BY <2>2, Moved DEF NoProcedure
  <2>3. CASE Write(p)
    BY <2>3, WriteTyped DEF Write
  <2>4. CASE Refused(p) \/ Kill(p)
    BY <2>4, EndTyped DEF Refused, Kill
  <2> QED BY <2>1, <2>2, <2>3, <2>4
<1>3. \A q \in Provers \ {p} : Fresh(prover'[q], ledger', file', tree')
  BY <1>2, SameLog, OneStillFresh
<1> QED BY <1>1, <1>3, StartFresh DEF AllFresh

\* An undisturbed run keeps standing until its prover is done.
THEOREM FreshIsInductive ==
  ASSUME Typed, Proofs, AllFresh, [Next]_vars
  PROVE  AllFresh'
<1>1. ASSUME NEW p \in Provers, Prove(p)
      PROVE  AllFresh'
  <2>1. ASSUME NEW said \in BOOLEAN, NEW reach \in Reaches,
               NEW driven \in SUBSET (Hooks \cup Clis), Observe(p, said, reach, driven)
        PROVE  AllFresh'
    BY <2>1, ObserveFresh
  <2>2. CASE Record(p)
    BY <2>2, RecordFresh
  <2>3. CASE Pin(p)
    BY <2>3, PinFresh
  <2>4. CASE Load(p)
    BY <2>4, LoadFresh
  <2>5. CASE Truncate(p)
    BY <2>5, TruncateFresh
  <2>6. ASSUME NEW span \in {<<i, i>> : i \in DOMAIN Order} \cup {<<1, Len(Order)>>},
               Begin(p, span[1], span[2])
        PROVE  AllFresh'
    BY <2>6, OthersFresh
  <2>7. CASE NoProcedure(p) \/ Write(p) \/ Refused(p) \/ Kill(p)
    BY <2>7, OthersFresh
  <2> QED BY <1>1, <2>1, <2>2, <2>3, <2>4, <2>5, <2>6, <2>7 DEF Prove, Steps
<1>2. ASSUME NEW c \in Claims, NEW x \in Items, Retract(c, {x})
      PROVE  AllFresh'
  <2>1. PICK e \in RetractRecord : ledger' = Append(ledger, e)
    BY <1>2, RetractTyped
  <2>2. Extends(ledger, ledger')
    BY <2>1, Grown DEF Entries
  <2>3. UNCHANGED <<file, tree>> /\ \A q \in Provers : KeptAs(prover[q], prover'[q])
    BY <1>2, RetractTyped DEF Retract
  <2> QED BY <2>2, <2>3, OneStillFresh DEF AllFresh
<1>3. CASE Edit
  <2>1. /\ ledger' = ledger
        /\ \A q \in Provers :
             KeptAs(prover[q], prover'[q]) /\ (prover[q].pc # "idle" => ~prover'[q].quiet)
    BY <1>3, EditTyped, AllDisturbed
  <2> QED BY <2>1, SameLog, OneStillFresh DEF AllFresh
<1>4. CASE Restore
  BY <1>4 DEF Restore, AllFresh
<1>5. CASE UNCHANGED vars
  BY <1>5 DEF vars, AllFresh
<1> QED BY <1>1, <1>2, <1>3, <1>4, <1>5 DEF Next

\* Only a write and a restoration end a truncation, and they change no record.
LEMMA WholeAgain ==
  ASSUME [Next]_vars, Typed, torn, ~torn'
  PROVE  UNCHANGED <<ledger, tree>>
<1>1. ASSUME NEW p \in Provers, Prove(p)
      PROVE  UNCHANGED <<ledger, tree>>
  BY <1>1
  DEF Prove, Steps, Begin, NoProcedure, Observe, Record, Pin, Load, Truncate, Write, Refused, Kill
<1>2. ~(\E c \in Claims, x \in Items : Retract(c, {x})) /\ ~Edit
  BY EditTyped DEF Retract
<1>3. CASE Restore
  BY <1>3 DEF Restore
<1> QED BY <1>1, <1>2, <1>3 DEF Next, vars

\* The write of an undisturbed passing run makes it a live proof.
LEMMA UndisturbedStep ==
  ASSUME Typed, AllFresh, [Next]_vars, NEW p \in Provers, NEW c \in Claims,
         prover[p].pc = "write", c = Current(p), prover[p].quiet, prover[p].alone,
         torn, ~torn', file' = prover[p].doc
  PROVE  prover[p].ref \in LiveProofs(c)'
<1> DEFINE e == ledger[prover[p].ref]
<1>1. UNCHANGED <<ledger, tree>>
  BY WholeAgain
<1>2. Stands(e, c, file'[c], tree) /\ prover[p].ref \in file'[c].proofs
  BY CurrentIsAt DEF AllFresh, Fresh
<1>3. prover[p].ref \in DOMAIN ledger
  BY DEF Typed, Fits
<1>4. prover[p].ref \in Runs'
  BY <1>1, <1>2, <1>3 DEF Runs, Stands
<1>5. e.definition = DefinitionOf(c)' /\ e.claim = c
  BY <1>2 DEF Stands, DefinitionOf
<1>6. e.procedure = tree'.procedure[c] /\ e.implementation = tree'.implementation
      /\ e.subject = tree'.subject /\ e.passed /\ Witnessed(c, e.reach, file'[c].text)
  BY <1>1, <1>2 DEF Stands
<1>7. ledger'[prover[p].ref] = e
  BY <1>1
<1> HIDE DEF e
<1> QED BY <1>2, <1>4, <1>5, <1>6, <1>7
        DEF LiveProofs, DefinitionHolds, ImplementationHolds, ProcedureHolds, SubjectHolds

\* A passing run that nobody disturbed leaves a live proof behind when it writes
\* the claims back: nothing it records or writes, and no order of its steps, kills it.
THEOREM UndisturbedProofStaysLive == Spec => UndisturbedProofIsLive
<1>1. Init => AllFresh
  BY StartFresh DEF Init, Idle, AllFresh
<1>2. Typed /\ Proofs /\ AllFresh /\ [Next]_vars => AllFresh'
  BY FreshIsInductive
<1>3. Typed /\ AllFresh /\ [Next]_vars =>
        [\A p \in Provers, c \in Claims :
           /\ prover[p].pc = "write" /\ c = Current(p)
           /\ prover[p].quiet /\ prover[p].alone
           /\ torn /\ ~torn' /\ file' = prover[p].doc
           => prover[p].ref \in LiveProofs(c)']_vars
  BY UndisturbedStep
<1> QED BY <1>1, <1>2, <1>3, ProofsAlways, PTL DEF Spec, UndisturbedProofIsLive

=============================================================================

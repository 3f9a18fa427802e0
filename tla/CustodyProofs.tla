---------------------------- MODULE CustodyProofs ----------------------------
(***************************************************************************)
(* The label lattice of taint/labels.py and the custody of a session.      *)
(*                                                                         *)
(* The lattice: the join is a least upper bound, and a set that dominates  *)
(* a classified one is classified, so that a session's taint, the join of  *)
(* all it touched, does not go down.                                       *)
(*                                                                         *)
(* The session: while there is one ledger, what a gate has let through is  *)
(* in it before the lock is free again, and so in the state of every later *)
(* gate; what a gate holds back for is decided under the lock.             *)
(***************************************************************************)
EXTENDS Custody, FiniteSetTheorems, SequenceTheorems, WellFoundedInduction, TLAPS

----------------------------------------------------------------------------
(* Labels *)

\* The sensitivity of a set is one, and no sensitivity in the set is higher.
LEMMA SensitivityIsHighest ==
  ASSUME NEW ls
  PROVE  /\ SensitivityOf(ls) \in SENSITIVITY
         /\ \A s \in ls \cap SENSITIVITY : RANK[s] <= RANK[SensitivityOf(ls)]
         /\ ls \cap SENSITIVITY # {} => SensitivityOf(ls) \in ls
<1> DEFINE present == ls \cap SENSITIVITY
           Highest(s) == s \in present /\ \A r \in present : RANK[r] <= RANK[s]
<1>1. CASE present = {}
  BY <1>1 DEF SensitivityOf, SENSITIVITY
<1>2. CASE present # {}
  <2>1. \E s : Highest(s)
    <3>1. CASE "restricted" \in present
      BY <3>1 DEF RANK, SENSITIVITY
    <3>2. CASE "restricted" \notin present /\ "confidential" \in present
      BY <3>2 DEF RANK, SENSITIVITY
    <3>3. CASE present \subseteq {"public", "internal"} /\ "internal" \in present
      BY <3>3 DEF RANK
    <3>4. CASE present \subseteq {"public"}
      BY <3>4, <1>2 DEF RANK
    <3> QED BY <3>1, <3>2, <3>3, <3>4 DEF SENSITIVITY
  <2>2. SensitivityOf(ls) = CHOOSE s \in present : \A r \in present : RANK[r] <= RANK[s]
    BY <1>2 DEF SensitivityOf
  <2>3. Highest(SensitivityOf(ls))
    BY <2>1, <2>2
  <2> QED BY <2>3
<1> QED BY <1>1, <1>2

\* Ranks are naturals and tell sensitivities apart.
LEMMA RankFacts ==
  /\ \A s \in SENSITIVITY : RANK[s] \in Nat
  /\ \A r, s \in SENSITIVITY : RANK[r] = RANK[s] => r = s
  /\ \A s \in SENSITIVITY : RANK["public"] <= RANK[s]
BY DEF RANK, SENSITIVITY

\* What a join says of itself: one sensitivity, the highest below it, and the flags.
LEMMA JoinReads ==
  ASSUME NEW sets
  PROVE  /\ SensitivityOf(Join(sets)) = SensitivityOf(UNION sets)
         /\ FlagsOf(Join(sets)) = FlagsOf(UNION sets)
<1> DEFINE s == SensitivityOf(UNION sets)
<1>1. s \in SENSITIVITY
  BY SensitivityIsHighest
<1>2. Join(sets) \cap SENSITIVITY = {s}
  BY <1>1 DEF Join, FlagsOf
<1>3. SensitivityOf(Join(sets)) \in Join(sets) \cap SENSITIVITY
  BY <1>2, SensitivityIsHighest
<1>4. FlagsOf(Join(sets)) = FlagsOf(UNION sets)
  BY <1>1 DEF Join, FlagsOf
<1> QED BY <1>2, <1>3, <1>4

\* join() of label sets is a label set.
THEOREM JoinType ==
  ASSUME NEW sets \in SUBSET LabelSets
  PROVE  Join(sets) \in LabelSets
BY SensitivityIsHighest DEF Join, FlagsOf, LabelSets, Label

\* join() is an upper bound: what it is made from never carries more than it, so a
\* state that touches an artifact dominates the artifact and itself before.
THEOREM JoinIsUpperBound ==
  ASSUME NEW sets, NEW ls \in sets
  PROVE  Dominates(Join(sets), ls)
<1>1. SensitivityOf(ls) \in SENSITIVITY /\ SensitivityOf(UNION sets) \in SENSITIVITY
  BY SensitivityIsHighest
<1>2. RANK[SensitivityOf(ls)] <= RANK[SensitivityOf(UNION sets)]
  <2>1. CASE ls \cap SENSITIVITY = {}
    BY <2>1, <1>1, RankFacts DEF SensitivityOf
  <2>2. CASE ls \cap SENSITIVITY # {}
    BY <2>2, <1>1, SensitivityIsHighest
  <2> QED BY <2>1, <2>2
<1>3. FlagsOf(ls) \subseteq FlagsOf(UNION sets)
  BY DEF FlagsOf
<1> QED BY <1>1, <1>2, <1>3, JoinReads, RankFacts DEF Dominates

\* join() is the least upper bound: whatever dominates all it is made from
\* dominates it, so joining adds no obligation of its own.
THEOREM JoinIsLeast ==
  ASSUME NEW sets, NEW bound, \A ls \in sets : Dominates(bound, ls)
  PROVE  Dominates(bound, Join(sets))
<1>1. SensitivityOf(UNION sets) \in SENSITIVITY /\ SensitivityOf(bound) \in SENSITIVITY
  BY SensitivityIsHighest
<1>2. RANK[SensitivityOf(UNION sets)] <= RANK[SensitivityOf(bound)]
  <2>1. CASE (UNION sets) \cap SENSITIVITY = {}
    BY <2>1, <1>1, RankFacts DEF SensitivityOf
  <2>2. CASE (UNION sets) \cap SENSITIVITY # {}
    <3>1. PICK ls \in sets : SensitivityOf(UNION sets) \in ls
      BY <2>2, SensitivityIsHighest
    <3>2. SensitivityOf(ls) \in SENSITIVITY
      BY SensitivityIsHighest
    <3>3. RANK[SensitivityOf(UNION sets)] <= RANK[SensitivityOf(ls)]
      BY <3>1, <1>1, SensitivityIsHighest
    <3>4. RANK[SensitivityOf(ls)] <= RANK[SensitivityOf(bound)]
      BY <3>1, <3>2, <1>1, RankFacts DEF Dominates
    <3> QED BY <3>2, <3>3, <3>4, <1>1, RankFacts
  <2> QED BY <2>1, <2>2
<1>3. FlagsOf(UNION sets) \subseteq FlagsOf(bound)
  <2>1. \A ls \in sets : FlagsOf(ls) \subseteq FlagsOf(bound)
    BY DEF Dominates
  <2> QED BY <2>1 DEF FlagsOf
<1> QED BY <1>1, <1>2, <1>3, JoinReads, RankFacts DEF Dominates

\* is_classified() cannot be lost going up: a session that touched one classified
\* artifact stays classified whatever else it touches.
THEOREM ClassifiedIsMonotone ==
  ASSUME NEW a, NEW b, Dominates(a, b), IsClassified(b)
  PROVE  IsClassified(a)
<1>1. SensitivityOf(a) \in SENSITIVITY /\ SensitivityOf(b) \in SENSITIVITY
  BY SensitivityIsHighest
<1>2. RANK["confidential"] \in Nat
  BY RankFacts DEF SENSITIVITY
<1> QED BY <1>1, <1>2, RankFacts DEF Dominates, IsClassified

\* There are finitely many labels, and every set of them has a size.
LEMMA LabelSetsAreFinite ==
  /\ IsFiniteSet(Label) /\ Cardinality(Label) \in Nat
  /\ \A ls \in LabelSets : /\ IsFiniteSet(ls) /\ Cardinality(ls) \in Nat
                           /\ Cardinality(ls) <= Cardinality(Label)
<1>1. IsFiniteSet(SENSITIVITY)
  <2>1. IsFiniteSet({"public"})
    BY FS_Singleton
  <2>2. IsFiniteSet({"public"} \cup {"internal"})
    BY <2>1, FS_AddElement
  <2>3. IsFiniteSet(({"public"} \cup {"internal"}) \cup {"confidential"})
    BY <2>2, FS_AddElement
  <2>4. IsFiniteSet((({"public"} \cup {"internal"}) \cup {"confidential"}) \cup {"restricted"})
    BY <2>3, FS_AddElement
  <2>5. SENSITIVITY = (({"public"} \cup {"internal"}) \cup {"confidential"}) \cup {"restricted"}
    BY DEF SENSITIVITY
  <2> QED BY <2>4, <2>5
<1>2. IsFiniteSet(Label)
  BY <1>1, FlagsAssumption, FS_Union DEF Label
<1> QED BY <1>2, FS_Subset, FS_CardinalityType DEF LabelSets

----------------------------------------------------------------------------
(* The session's state, and the artifact a decision turns on *)

\* touch() and _unsafe_state() keep the type of a state.
LEMMA FreshType == Fresh \in State /\ Unsafe \in State
BY DEF Fresh, Unsafe, State, LabelSets, Label, SENSITIVITY

\* A call that touches something has a classified artifact with the most labels, and
\* its decision turns on that one.
LEMMA WorstIsClassified ==
  ASSUME TypeOK, NEW t \in Calls, Touches(t), tool[t] # None
  PROVE  Worst(t) \in ClassifiedIn(t) /\ Worst(t) \in Artifacts /\ Classified(Worst(t))
<1> DEFINE size(p) == Cardinality(Labelling[p])
           most == Cardinality(Label)
           T == {most - size(p) : p \in ClassifiedIn(t)}
           below == OpToRel(<, Nat)
<1>0. ClassifiedIn(t) \subseteq Artifacts
  BY DEF TypeOK, Tool, ClassifiedIn
<1>1. most \in Nat /\ \A p \in ClassifiedIn(t) : size(p) \in Nat /\ size(p) <= most
  BY <1>0, LabelSetsAreFinite, CustodyAssumption
<1>2. T \in SUBSET Nat /\ T # {}
  BY <1>1 DEF Touches
<1>3. PICK d \in T : \A y \in T : ~ (<<y, d>> \in below)
  BY <1>2, NatLessThanWellFounded, WFMin
<1>4. PICK w \in ClassifiedIn(t) : d = most - size(w)
  BY <1>3
<1>5. \A q \in ClassifiedIn(t) : size(q) <= size(w)
  <2> SUFFICES ASSUME NEW q \in ClassifiedIn(t) PROVE size(q) <= size(w)
    OBVIOUS
  <2>1. most - size(q) \in T
    OBVIOUS
  <2>2. ~ (most - size(q) < most - size(w))
    BY <1>2, <1>3, <1>4, <2>1 DEF OpToRel
  <2> QED BY <1>1, <2>2
<1>6. Worst(t) \in ClassifiedIn(t)
  BY <1>4, <1>5 DEF Worst
<1> QED BY <1>0, <1>6 DEF ClassifiedIn

----------------------------------------------------------------------------
(* What the ledger says: rebuild() on a ledger l *)

\* Record i of l is replayed, as Counts(i) of the ledger
CountsIn(l, i) ==
  /\ l[i].outcome # "deny"
  /\ ~ \E j \in 1 .. (i - 1) : l[j].call = l[i].call /\ l[j].op = l[i].op

\* A replayed record of l names artifact id with labels that classify it
Shown(l, id) ==
  \E i \in DOMAIN l : /\ CountsIn(l, i)
                      /\ \E r \in l[i].refs : r.id = id /\ IsClassified(r.labels)

\* No record of l is of call t
Unheard(l, t) == \A i \in DOMAIN l : l[i].call # t

\* What the ledger shows is in the state rebuilt from it.
LEMMA ShownIsRebuilt ==
  ASSUME NEW id, Shown(ledger, id)
  PROVE  id \in Rebuilt.sources /\ ledger # << >>
<1>1. PICK i \in DOMAIN ledger :
        CountsIn(ledger, i) /\ \E r \in ledger[i].refs : r.id = id /\ IsClassified(r.labels)
  BY DEF Shown
<1>2. Counts(i)
  BY <1>1 DEF Counts, CountsIn
<1>3. ledger[i].refs \subseteq Replayed
  BY <1>2 DEF Replayed
<1> QED BY <1>1, <1>3 DEF Rebuilt

\* Appending a record takes nothing from what is shown.
LEMMA ShownStays ==
  ASSUME NEW l \in Seq(Record), NEW r \in Record, NEW id, Shown(l, id)
  PROVE  Shown(Append(l, r), id)
<1>1. PICK i \in DOMAIN l :
        CountsIn(l, i) /\ \E ref \in l[i].refs : ref.id = id /\ IsClassified(ref.labels)
  BY DEF Shown
<1>2. /\ i \in DOMAIN Append(l, r)
      /\ \A j \in 1 .. i : Append(l, r)[j] = l[j]
  BY AppendProperties
<1>3. i \in 1 .. i /\ 1 .. (i - 1) \subseteq 1 .. i
  BY LenProperties
<1>4. CountsIn(Append(l, r), i)
  BY <1>1, <1>2, <1>3 DEF CountsIn
<1> QED BY <1>1, <1>2, <1>3, <1>4 DEF Shown

\* The first record of a call shows what it names, unless it is a deny.
LEMMA NewIsShown ==
  ASSUME NEW l \in Seq(Record), NEW r \in Record, r.outcome # "deny", Unheard(l, r.call),
         NEW ref \in r.refs, IsClassified(ref.labels)
  PROVE  Shown(Append(l, r), ref.id)
<1> DEFINE n == Len(l) + 1
           m == Append(l, r)
<1>1. n \in DOMAIN m /\ m[n] = r /\ \A j \in DOMAIN l : m[j] = l[j]
  BY AppendProperties
<1>2. 1 .. (n - 1) = DOMAIN l
  BY LenProperties
<1>3. CountsIn(m, n)
  BY <1>1, <1>2 DEF CountsIn, Unheard
<1> QED BY <1>1, <1>3 DEF Shown

\* A lifecycle record is one, and so it is noted as one.
LEMMA NotedType ==
  ASSUME ledger \in Seq(Record)
  PROVE  Lifecycle \in Record /\ Noted \in Seq(Record)
<1>1. Lifecycle \in Record
  BY DEF Lifecycle, Record, Ops
<1> QED BY <1>1 DEF Noted

\* Noting one changes nothing that is shown, heard of a call, or said of results.
LEMMA NotedShows ==
  ASSUME TypeOK
  PROVE  /\ \A id : Shown(ledger, id) => Shown(Noted, id)
         /\ \A t \in Calls : Unheard(ledger, t) => Unheard(Noted, t)
<1>1. Noted = ledger \/ (ledger = << >> /\ Noted = <<Lifecycle>>)
  BY DEF Noted
<1>2. \A id : ~ Shown(<< >>, id)
  BY DEF Shown
<1>3. \A t \in Calls : Unheard(<<Lifecycle>>, t)
  BY CustodyAssumption DEF Unheard, Lifecycle
<1> QED BY <1>1, <1>2, <1>3

\* What is rebuilt from the ledger is a state.
LEMMA RebuiltType ==
  ASSUME TypeOK
  PROVE  Rebuilt \in State
<1>1. Replayed \subseteq Ref
  <2>1. \A i \in DOMAIN ledger : ledger[i] \in Record
    BY DEF TypeOK
  <2>2. \A i \in DOMAIN ledger : ledger[i].refs \subseteq Ref
    BY <2>1 DEF Record
  <2> QED BY <2>2 DEF Replayed
<1>2. {{"public"}} \cup {r.labels : r \in Replayed} \in SUBSET LabelSets
  BY <1>1 DEF Ref, LabelSets, Label, SENSITIVITY
<1>3. {r.id : r \in {r \in Replayed : IsClassified(r.labels)}} \in SUBSET (Artifacts \cup {Unnamed})
  BY <1>1 DEF Ref
<1> QED BY <1>2, <1>3, JoinType DEF Rebuilt, State

\* What a hook is told, and what it leaves in the cache, are states.
LEMMA StateForType ==
  ASSUME TypeOK, NEW s \in StateFor
  PROVE  s[1] \in State /\ s[2] \in State
BY RebuiltType, FreshType DEF StateFor, Told, Reconciled, Cached, TypeOK

\* With no recorder, on a whole ledger that shows something, a hook is told all
\* that is shown.
LEMMA StateForShows ==
  ASSUME NEW id, Shown(ledger, id), ~ torn, NEW s \in StateFor
  PROVE  id \in s[1].sources
BY ShownIsRebuilt DEF StateFor, Told, Reconciled

----------------------------------------------------------------------------
(* What the hooks write *)

ResultOps == {"tool.result", "artifact.derive"}

\* touch() makes a state of a state.
LEMMA TouchType ==
  ASSUME NEW st \in State, NEW p \in Artifacts
  PROVE  /\ Touch(st, p, Labelling[p]) \in State
         /\ st.sources \subseteq Touch(st, p, Labelling[p]).sources
<1>1. Labelling[p] \in LabelSets
  BY CustodyAssumption
<1>2. {st.labels, Labelling[p]} \in SUBSET LabelSets
  BY <1>1 DEF State
<1>3. Join({st.labels, Labelling[p]}) \in LabelSets
  BY <1>2, JoinType
<1> QED BY <1>3 DEF Touch, State

\* So does a list of touches.
LEMMA TouchAllType ==
  ASSUME NEW st \in State, NEW ps \in SUBSET Artifacts
  PROVE  TouchAll(st, ps) \in State
<1>1. {st.labels} \cup {Labelling[p] : p \in ps} \in SUBSET LabelSets
  BY CustodyAssumption DEF State
<1> QED BY <1>1, JoinType DEF TouchAll, State

\* The record of a decision names the artifact the decision turned on, and is of
\* another kind than the record of a result.
LEMMA DecisionRecordType ==
  ASSUME TypeOK, NEW t \in Calls, tool[t] # None, NEW r \in DecisionRecords(t)
  PROVE  /\ r \in Record /\ r.call = t /\ r.op \notin ResultOps /\ r.outcome = Outcome(t)
         /\ Touches(t) => \E ref \in r.refs : ref.id = Worst(t) /\ IsClassified(ref.labels)
<1>1. PICK ps \in SUBSET ClassifiedIn(t) : r = DecisionRecord(t, ps)
  BY DEF DecisionRecords
<1>2. tool[t] \in Tool /\ ClassifiedIn(t) \subseteq Artifacts
  BY DEF TypeOK, Tool, ClassifiedIn
<1>3. \A p \in Artifacts : Labelling[p] \in LabelSets
  BY CustodyAssumption
<1> DEFINE worst == IF Touches(t) THEN {[id |-> Worst(t), labels |-> Labelling[Worst(t)]]} ELSE {}
           unnamed == {[id |-> Unnamed, labels |-> Labelling[p]] : p \in ps}
<1>4. worst \subseteq Ref
  BY <1>2, <1>3, WorstIsClassified DEF Ref
<1>5. unnamed \subseteq Ref
  BY <1>1, <1>2, <1>3 DEF Ref
<1>6. GateOp(t) \in Ops \ ResultOps
  BY DEF GateOp, Ops, ResultOps
<1>7. Outcome(t) \in {"allow", "ask", "deny", "none"}
  BY DEF Outcome, TypeOK
<1>8. r = [call |-> t, op |-> GateOp(t), outcome |-> Outcome(t), refs |-> worst \cup unnamed]
  BY <1>1 DEF DecisionRecord
<1>9. r \in Record /\ r.call = t /\ r.op \notin ResultOps /\ r.outcome = Outcome(t)
      /\ r.refs = worst \cup unnamed
  BY <1>4, <1>5, <1>6, <1>7, <1>8 DEF Record
<1>10. ASSUME Touches(t)
       PROVE  \E ref \in r.refs : ref.id = Worst(t) /\ IsClassified(ref.labels)
  <2>1. [id |-> Worst(t), labels |-> Labelling[Worst(t)]] \in r.refs
    BY <1>9, <1>10
  <2>2. IsClassified(Labelling[Worst(t)])
    BY <1>10, WorstIsClassified DEF Classified
  <2> QED BY <2>1, <2>2
<1> QED BY <1>9, <1>10

\* What a write inherits is a label set, and so is what anything else keeps.
LEMMA ResultRefsType ==
  ASSUME TypeOK, NEW t \in Calls, tool[t] # None
  PROVE  ResultRefs(t) \subseteq Ref
<1>1. tool[t].paths \subseteq Artifacts /\ view[t].labels \in LabelSets
  BY DEF TypeOK, Tool, State
<1>2. \A p \in Artifacts : Labelling[p] \in LabelSets
  BY CustodyAssumption
<1>3. \A p \in tool[t].paths : Join({Labelling[p], view[t].labels}) \in LabelSets
  <2> TAKE p \in tool[t].paths
  <2>1. {Labelling[p], view[t].labels} \in SUBSET LabelSets
    BY <1>1, <1>2
  <2> QED BY <2>1, JoinType
<1> DEFINE kept(p) == IF tool[t].name = "Write" THEN Join({Labelling[p], view[t].labels})
                                                ELSE Labelling[p]
<1>4. \A p \in tool[t].paths : p \in Artifacts /\ kept(p) \in LabelSets
  BY <1>1, <1>2, <1>3
<1>5. ResultRefs(t) = {[id |-> p, labels |-> kept(p)] : p \in tool[t].paths}
  BY DEF ResultRefs
<1> HIDE DEF kept
<1> QED BY <1>4, <1>5 DEF Ref

\* The record of a result is of its call, and is no decision's.
LEMMA ResultRecordType ==
  ASSUME TypeOK, NEW t \in Calls, tool[t] # None
  PROVE  ResultRecord(t) \in Record /\ ResultRecord(t).call = t
         /\ ResultRecord(t).outcome = "none"
BY ResultRefsType DEF ResultRecord, Record, ResultOp, Ops

\* What hook_post saves is a state.
LEMMA PostTouchType ==
  ASSUME TypeOK, NEW t \in Calls, PostTouch(t)
  PROVE  cache' \in State
<1>1. tool[t] # None
  BY DEF TypeOK, PostTouch
<1> DEFINE touched == {r \in ResultRefs(t) : tool[t].name = "Write" \/ IsClassified(r.labels)}
<1>2. touched \subseteq Ref
  BY <1>1, ResultRefsType
<1>3. view[t] \in State
  BY DEF TypeOK
<1>4. {view[t].labels} \cup {r.labels : r \in touched} \in SUBSET LabelSets
  BY <1>2, <1>3 DEF Ref, State
<1>5. Join({view[t].labels} \cup {r.labels : r \in touched}) \in LabelSets
  BY <1>4, JoinType
<1>6. view[t].sources \cup {r.id : r \in {r \in touched : IsClassified(r.labels)}}
        \in SUBSET (Artifacts \cup {Unnamed})
  BY <1>2, <1>3 DEF Ref, State
<1>7. cache' = [labels  |-> Join({view[t].labels} \cup {r.labels : r \in touched}),
                sources |-> view[t].sources \cup
                              {r.id : r \in {r \in touched : IsClassified(r.labels)}}]
  BY DEF PostTouch, Save
<1> QED BY <1>5, <1>6, <1>7 DEF State

\* A verdict is one of three, and a handler's answer the fourth decision.
LEMMA DecisionType ==
  ASSUME NEW t, NEW st
  PROVE  /\ Downgraded(t, st) \in {"allow", "ask", "deny"}
         /\ \A a \in Answers(t, Downgraded(t, st)) :
              a = Downgraded(t, st) \/ (a = "delegated" /\ Downgraded(t, st) = "allow")
BY DEF Downgraded, Verdict, Answers

----------------------------------------------------------------------------
(* Types *)

\* Every action leaves every variable of its type.
LEMMA TypeStep ==
  ASSUME TypeOK, [Next]_vars
  PROVE  TypeOK'
<1> USE DEF hooks, bounds, At, Exits
<1>0. \A t \in Calls : tool[t] # None => tool[t] \in Tool
  BY DEF TypeOK
<1>1. ASSUME NEW t \in Calls, NEW x \in Requests, Call(t, x) PROVE TypeOK'
  <2>1. x \in Tool /\ x # None
    BY CustodyAssumption
  <2> QED BY <1>1, <2>1 DEF TypeOK, Call, PCs
<1>2. ASSUME NEW t \in Calls, Enter(t) PROVE TypeOK'
  <2>1. PICK s \in StateFor : view' = [view EXCEPT ![t] = s[1]] /\ cache' = s[2]
    BY <1>2 DEF Enter, Save
  <2>2. s[1] \in State /\ s[2] \in State
    BY StateForType
  <2> QED BY <1>2, <2>1, <2>2, CustodyAssumption DEF TypeOK, Enter, PCs
<1>3. ASSUME NEW t \in Calls, Pass(t) PROVE TypeOK'
  BY <1>3, FreshType, CustodyAssumption DEF TypeOK, Pass, PCs
<1>4. ASSUME NEW t \in Calls, Decide(t) PROVE TypeOK'
  <2> DEFINE d  == Downgraded(t, view[t])
             st == IF Touches(t) /\ d # "deny"
                     THEN Touch(view[t], Worst(t), Labelling[Worst(t)]) ELSE view[t]
  <2>1. pc[t] = "deciding" /\ tool[t] # None
    BY <1>4 DEF Decide, TypeOK
  <2>2. st \in State
    BY <2>1, WorstIsClassified, TouchType DEF TypeOK
  <2>3. PICK a \in Answers(t, d) : decision' = [decision EXCEPT ![t] = a]
    BY <1>4 DEF Decide
  <2>4. a \in {"allow", "ask", "deny", "delegated"}
    BY DecisionType
  <2>5. /\ view' = [view EXCEPT ![t] = st] /\ cache' \in {cache, st}
        /\ pc' = [pc EXCEPT ![t] = "recording"]
        /\ UNCHANGED <<setting, tool, lock, ledger, torn, daemon, bounds>>
    BY <1>4 DEF Decide, Save
  <2> HIDE DEF d, st
  <2> QED BY <2>1, <2>2, <2>3, <2>4, <2>5 DEF TypeOK, PCs
<1>5. ASSUME NEW t \in Calls, Record_(t) PROVE TypeOK'
  <2>1. pc[t] = "recording" /\ tool[t] # None
    BY <1>5 DEF Record_, TypeOK
  <2>2. ledger' \in Seq(Record)
    BY <1>5, <2>1, DecisionRecordType DEF Record_, GateAppend, TypeOK
  <2>3. Decided(t) \in {"asked", "running", "done"}
    BY DEF Decided
  <2> QED BY <1>5, <2>1, <2>2, <2>3, FreshType, CustodyAssumption DEF TypeOK, Record_, PCs
<1>6. ASSUME NEW t \in Calls, Approve(t) \/ Run(t) PROVE TypeOK'
  BY <1>6 DEF TypeOK, Approve, Run, PCs
<1>7. ASSUME NEW t \in Calls, Abort(t) PROVE TypeOK'
  BY <1>7, NotedType DEF TypeOK, Abort, PCs
<1>8. ASSUME NEW t \in Calls, PostRead(t) PROVE TypeOK'
  <2>1. PICK s \in StateFor : view' = [view EXCEPT ![t] = s[1]] /\ cache' = s[2]
    BY <1>8 DEF PostRead, Save
  <2>2. s[1] \in State /\ s[2] \in State
    BY StateForType
  <2> QED BY <1>8, <2>1, <2>2 DEF TypeOK, PostRead, PCs
<1>9. ASSUME NEW t \in Calls, PostTouch(t) PROVE TypeOK'
  <2>1. cache' \in State
    BY <1>9, PostTouchType
  <2> QED BY <1>9, <2>1 DEF TypeOK, PostTouch, PCs
<1>10. ASSUME NEW t \in Calls, PostRecord(t) PROVE TypeOK'
  <2>1. tool[t] # None
    BY <1>10 DEF PostRecord, TypeOK
  <2>2. ledger' \in Seq(Record)
    BY <1>10, <2>1, ResultRecordType, NotedType DEF PostRecord, Loss, TypeOK
  <2> QED BY <1>10, <2>2, FreshType DEF TypeOK, PostRecord, PCs
<1>11. ASSUME NEW t \in Calls, PostRaises(t) PROVE TypeOK'
  BY <1>11, NotedType, FreshType DEF TypeOK, PostRaises, Gap, PCs
<1>12. ASSUME NEW t \in Calls, Die(t) PROVE TypeOK'
  <2>1. tool[t] # None
    BY <1>12 DEF Die, TypeOK
  <2>2. ledger' \in Seq(Record) /\ torn' \in BOOLEAN
    <3>1. \A r \in DecisionRecords(t) : r \in Record
      BY <2>1, DecisionRecordType
    <3>2. ResultRecord(t) \in Record
      BY <2>1, ResultRecordType
    <3>3. ASSUME NEW r \in Record, Leftover(r)
          PROVE  ledger' \in Seq(Record) /\ torn' \in BOOLEAN
      <4>1. torn' \in BOOLEAN
        <5>1. torn' = torn \/ torn' = TRUE
          BY <3>3 DEF Leftover, Gap
        <5> QED BY <5>1 DEF TypeOK
      <4>2. ledger' \in {ledger, Noted, Append(ledger, r)}
        BY <3>3 DEF Leftover, Gap
      <4> QED BY <4>1, <4>2, NotedType DEF TypeOK
    <3>4. Gap => ledger' \in Seq(Record) /\ torn' \in BOOLEAN
      BY NotedType DEF Gap, TypeOK
    <3> QED BY <1>12, <3>1, <3>2, <3>3, <3>4 DEF Die
  <2>3. /\ decision' \in [Calls -> {"none", "allow", "ask", "deny", "delegated"}]
        /\ Resumes(t) \in {"running", "done"}
    BY <1>12 DEF Die, Resumes, TypeOK
  <2>4. /\ pc' = [pc EXCEPT ![t] = Resumes(t)] /\ view' = [view EXCEPT ![t] = Fresh]
        /\ deaths' = deaths + 1 /\ lock' = IF lock = t THEN None ELSE lock
        /\ UNCHANGED <<setting, tool, cache, daemon, recorders, seals>>
    BY <1>12 DEF Die
  <2> QED BY <2>1, <2>2, <2>3, <2>4, FreshType, CustodyAssumption DEF TypeOK, PCs
<1>13. CASE DaemonStart \/ DaemonStop
  <2>1. daemon' \in BOOLEAN
    BY <1>13 DEF DaemonStart, DaemonStop
  <2>2. torn' \in BOOLEAN
    BY <1>13 DEF DaemonStart, DaemonStop, TypeOK
  <2>3. /\ UNCHANGED <<setting, hooks, lock, cache, ledger, deaths, seals>>
        /\ recorders' = recorders + 1 \/ recorders' = recorders
    BY <1>13 DEF DaemonStart, DaemonStop
  <2> QED BY <2>1, <2>2, <2>3 DEF TypeOK
<1>14. CASE Seal
  BY <1>14, NotedType DEF TypeOK, Seal
<1>15. CASE Note \/ SessionEnd
  BY <1>15, NotedType DEF TypeOK, Note, SessionEnd
<1>16. CASE Compact
  <2>1. cache' \in State
    BY <1>16, StateForType DEF Compact, Save
  <2> QED BY <1>16, <2>1, NotedType DEF TypeOK, Compact
<1>17. CASE SubagentStop
  <2>1. cache' \in State
    BY <1>17, TouchAllType, CustodyAssumption DEF SubagentStop, Save, Cached, TypeOK
  <2> QED BY <1>17, <2>1, NotedType DEF TypeOK, SubagentStop
<1>18. CASE RebuildCache
  BY <1>18, RebuiltType DEF TypeOK, RebuildCache, Save
<1>19. CASE UNCHANGED vars
  BY <1>19 DEF TypeOK, vars
<1> QED BY <1>1, <1>2, <1>3, <1>4, <1>5, <1>6, <1>7, <1>8, <1>9, <1>10, <1>11, <1>12,
           <1>13, <1>14, <1>15, <1>16, <1>17, <1>18, <1>19 DEF Next

\* A session begins with every variable of its type.
LEMMA InitTypes == Init => TypeOK
<1> SUFFICES ASSUME Init PROVE TypeOK
  OBVIOUS
<1>1. torn \in BOOLEAN /\ daemon \in BOOLEAN
  BY DEF Init
<1>2. << >> \in Seq(Record)
  OBVIOUS
<1> QED BY <1>1, <1>2, FreshType, CustodyAssumption DEF Init, TypeOK, PCs

\* Every state of every run of a session is of its type (TypeOK).
THEOREM CustodyTypes == Spec => []TypeOK
<1>1. TypeOK /\ [Next]_vars => TypeOK'
  BY TypeStep
<1> QED BY <1>1, InitTypes, PTL DEF Spec

----------------------------------------------------------------------------
(* What a step does, by its call *)

GateDone == {"asked", "running", "posting", "touching", "resulting", "done"}

\* A step of the gate, the tool or the recorder of call t
StepOf(t) ==
  \/ \E x \in Requests : Call(t, x)
  \/ Enter(t) \/ Pass(t) \/ Decide(t) \/ Record_(t) \/ Approve(t) \/ Run(t) \/ Abort(t)
  \/ PostRead(t) \/ PostTouch(t) \/ PostRecord(t) \/ PostRaises(t) \/ Die(t)

\* A step of no call
StepOfNone ==
  \/ DaemonStart \/ DaemonStop \/ Seal \/ Note \/ SessionEnd \/ Compact \/ SubagentStop
  \/ RebuildCache

\* Every step is of one call, of none, or a stutter.
LEMMA StepIsOfOne ==
  ASSUME [Next]_vars
  PROVE  (\E t \in Calls : StepOf(t)) \/ StepOfNone \/ UNCHANGED vars
BY DEF Next, StepOf, StepOfNone

\* The steps of a call leave the other calls, and what the call does, alone.
LEMMA OthersStay ==
  ASSUME TypeOK, NEW t \in Calls, StepOf(t)
  PROVE  /\ setting' = setting
         /\ \A u \in Calls \ {t} : /\ pc'[u] = pc[u] /\ decision'[u] = decision[u]
                                   /\ tool'[u] = tool[u] /\ view'[u] = view[u]
         /\ pc[t] # "idle" => tool'[t] = tool[t]
<1> USE DEF TypeOK, hooks, bounds, At, Exits
<1>1. ASSUME NEW x \in Requests, Call(t, x) PROVE UNCHANGED <<setting, view, decision>>
        /\ pc[t] = "idle" /\ pc' = [pc EXCEPT ![t] = "waiting"] /\ tool' = [tool EXCEPT ![t] = x]
  BY <1>1 DEF Call
<1>2. CASE \E x \in Requests : Call(t, x)
  BY <1>1, <1>2
<1>3. CASE Enter(t)
  BY <1>3 DEF Enter
<1>4. CASE Pass(t)
  BY <1>4 DEF Pass
<1>5. CASE Decide(t)
  <2>1. \E a, s : decision' = [decision EXCEPT ![t] = a] /\ view' = [view EXCEPT ![t] = s]
    BY <1>5 DEF Decide
  <2>2. pc' = [pc EXCEPT ![t] = "recording"] /\ UNCHANGED <<setting, tool>>
    BY <1>5 DEF Decide
  <2> QED BY <2>1, <2>2
<1>6. CASE Record_(t)
  BY <1>6 DEF Record_
<1>7. CASE Approve(t) \/ Run(t) \/ Abort(t)
  BY <1>7 DEF Approve, Run, Abort
<1>8. CASE PostRead(t)
  BY <1>8 DEF PostRead
<1>9. CASE PostTouch(t) \/ PostRecord(t) \/ PostRaises(t)
  BY <1>9 DEF PostTouch, PostRecord, PostRaises
<1>10. CASE Die(t)
  BY <1>10 DEF Die
<1> QED BY <1>2, <1>3, <1>4, <1>5, <1>6, <1>7, <1>8, <1>9, <1>10 DEF StepOf

\* What is of no call leaves every call alone.
LEMMA NoneStays ==
  ASSUME StepOfNone \/ UNCHANGED vars
  PROVE  UNCHANGED <<setting, hooks, lock>>
BY DEF StepOfNone, DaemonStart, DaemonStop, Seal, Note, SessionEnd, Compact, SubagentStop,
       RebuildCache, vars

\* How far a call has come is never taken back.
LEMMA CallsGoOn ==
  ASSUME TypeOK, [Next]_vars, NEW u \in Calls
  PROVE  /\ pc[u] \in GateDone => pc'[u] \in GateDone
         /\ pc[u] = "done" => pc'[u] = "done"
         /\ pc[u] # "idle" => tool'[u] = tool[u]
<1>1. CASE StepOfNone \/ UNCHANGED vars
  BY <1>1, NoneStays DEF hooks
<1>2. ASSUME NEW t \in Calls, StepOf(t), u # t
      PROVE  pc'[u] = pc[u] /\ tool'[u] = tool[u]
  BY <1>2, OthersStay
<1>3. ASSUME StepOf(u)
      PROVE  /\ pc[u] \in GateDone => pc'[u] \in GateDone
             /\ pc[u] # "done"
             /\ pc[u] # "idle" => tool'[u] = tool[u]
  <2>1. pc[u] # "idle" => tool'[u] = tool[u]
    BY <1>3, OthersStay
  <2>2. pc[u] # "done"
    BY <1>3 DEF StepOf, Call, Enter, Pass, Decide, Record_, Approve, Run, Abort, PostRead,
                PostTouch, PostRecord, PostRaises, Die
  <2>3. pc[u] \in GateDone => pc'[u] \in GateDone
    <3> SUFFICES ASSUME pc[u] \in GateDone PROVE pc'[u] \in GateDone
      OBVIOUS
    <3>1. Approve(u) \/ Run(u) \/ Abort(u) \/ PostRead(u) \/ PostTouch(u) \/ PostRecord(u)
            \/ PostRaises(u) \/ Die(u)
      BY <1>3 DEF GateDone, StepOf, Call, Enter, Pass, Decide, Record_
    <3>2. \E where \in GateDone : pc' = [pc EXCEPT ![u] = where]
      BY <3>1 DEF Approve, Run, Abort, PostRead, PostTouch, PostRecord, PostRaises, Die, At,
                  Exits, Resumes, GateDone
    <3> QED BY <3>2 DEF TypeOK
  <2> QED BY <2>1, <2>2, <2>3
<1> QED BY <1>1, <1>2, <1>3, StepIsOfOne

\* What a step may put into the ledger: nothing, a lifecycle record, the decision of a
\* call whose gate is then over or the result of one that is then done; or a seal
\* takes the records away.
LEMMA LedgerStep ==
  ASSUME TypeOK, [Next]_vars
  PROVE  \/ ledger' = ledger \/ ledger' = Noted
         \/ ledger' = <<Lifecycle>> /\ seals' = seals + 1
         \/ \E t \in Calls, r \in Record :
              /\ ledger' = Append(ledger, r) /\ r.call = t
              /\ \/ /\ pc[t] = "recording" /\ pc'[t] \in GateDone /\ r.op \notin ResultOps
                 \/ pc[t] = "resulting" /\ pc'[t] = "done" /\ r.outcome = "none"
<1> DEFINE Kept == ledger' = ledger \/ ledger' = Noted
           Wrote(t) == \E r \in Record :
              /\ ledger' = Append(ledger, r) /\ r.call = t
              /\ \/ /\ pc[t] = "recording" /\ pc'[t] \in GateDone /\ r.op \notin ResultOps
                 \/ pc[t] = "resulting" /\ pc'[t] = "done" /\ r.outcome = "none"
<1>1. CASE StepOfNone \/ UNCHANGED vars
  BY <1>1 DEF StepOfNone, DaemonStart, DaemonStop, Seal, Note, SessionEnd, Compact,
              SubagentStop, RebuildCache, vars, Noted
<1>2. ASSUME NEW t \in Calls, StepOf(t) PROVE Kept \/ Wrote(t)
  <2>0. \A x \in Requests : Call(t, x) => Kept
    BY DEF Call
  <2>1. CASE Enter(t) \/ Pass(t) \/ Decide(t) \/ Approve(t) \/ Run(t) \/ Abort(t)
    BY <2>1 DEF Enter, Pass, Decide, Approve, Run, Abort
  <2>2. CASE PostRead(t) \/ PostTouch(t) \/ PostRaises(t)
    BY <2>2 DEF PostRead, PostTouch, PostRaises, Gap
  <2>3. CASE Record_(t)
    <3>1. pc[t] = "recording" /\ tool[t] # None /\ pc'[t] \in GateDone
      BY <2>3 DEF Record_, TypeOK, Exits, At, Decided, GateDone
    <3>2. ledger' = ledger \/ \E r \in DecisionRecords(t) : ledger' = Append(ledger, r)
      BY <2>3 DEF Record_, GateAppend
    <3> QED BY <3>1, <3>2, DecisionRecordType
  <2>4. CASE PostRecord(t)
    <3>1. pc[t] = "resulting" /\ tool[t] # None /\ pc'[t] = "done"
      BY <2>4 DEF PostRecord, TypeOK, Exits, At
    <3>2. ledger' = Noted \/ ledger' = Append(ledger, ResultRecord(t))
      BY <2>4 DEF PostRecord, Loss
    <3> QED BY <3>1, <3>2, ResultRecordType
  <2>5. CASE Die(t)
    <3>1. tool[t] # None /\ pc' = [pc EXCEPT ![t] = Resumes(t)] /\ Resumes(t) \in GateDone
      BY <2>5 DEF Die, TypeOK, Exits, At, Resumes, GateDone
    <3>2. pc'[t] = Resumes(t)
      BY <3>1 DEF TypeOK
    <3>3. \A r : Leftover(r) => Kept \/ ledger' = Append(ledger, r)
      BY DEF Leftover, Gap
    <3>4. CASE pc[t] = "recording"
      <4>1. \E r \in DecisionRecords(t) : Leftover(r)
        BY <2>5, <3>4 DEF Die
      <4> QED BY <3>1, <3>2, <3>3, <3>4, <4>1, DecisionRecordType
    <3>5. CASE pc[t] = "resulting"
      <4>1. Leftover(ResultRecord(t)) \/ Gap
        BY <2>5, <3>5 DEF Die
      <4>2. pc'[t] = "done"
        BY <3>2, <3>5 DEF Resumes
      <4> QED BY <3>1, <3>3, <3>5, <4>1, <4>2, ResultRecordType DEF Gap
    <3>6. CASE pc[t] \notin {"recording", "resulting"}
      BY <2>5, <3>6 DEF Die, Gap
    <3> QED BY <3>4, <3>5, <3>6
  <2> QED BY <1>2, <2>0, <2>1, <2>2, <2>3, <2>4, <2>5 DEF StepOf
<1> QED BY <1>1, <1>2, StepIsOfOne

----------------------------------------------------------------------------
(* The invariant *)

\* A recorder that answers was started
DaemonCounted == daemon => recorders > 0

\* A call whose gate is not over is in no record, and has no decision before one is
\* taken.
Undecided ==
  \A t \in Calls :
    /\ pc[t] \in {"idle", "waiting", "deciding"} => decision[t] = "none"
    /\ pc[t] \notin GateDone => Unheard(ledger, t)

\* A call has one result, and it is over then.
ResultsOnce ==
  \A i \in DOMAIN ledger : ledger[i].op \in ResultOps =>
    /\ ledger[i].outcome = "none"
    /\ \E t \in Calls : t = ledger[i].call /\ pc[t] = "done"
    /\ \A j \in DOMAIN ledger :
         ledger[j].call = ledger[i].call /\ ledger[j].op \in ResultOps => j = i

\* Only DaemonStart makes a recorder answer, and it counts it.
LEMMA DaemonCountedStep ==
  ASSUME TypeOK, DaemonCounted, [Next]_vars
  PROVE  DaemonCounted'
<1> USE DEF TypeOK, DaemonCounted, bounds, hooks
<1>1. \A t \in Calls : StepOf(t) => UNCHANGED <<daemon, recorders>>
  BY DEF StepOf, Call, Enter, Pass, Decide, Record_, Approve, Run, Abort, PostRead, PostTouch,
         PostRecord, PostRaises, Die
<1>2. DaemonStart => recorders' > 0
  BY DEF DaemonStart
<1>3. DaemonStop => ~ daemon'
  BY DEF DaemonStop
<1>4. Seal \/ Note \/ SessionEnd \/ Compact \/ SubagentStop \/ RebuildCache
        => UNCHANGED <<daemon, recorders>>
  BY DEF Seal, Note, SessionEnd, Compact, SubagentStop, RebuildCache
<1> QED BY <1>1, <1>2, <1>3, <1>4, StepIsOfOne DEF vars, StepOfNone

\* A gate's own steps decide and record, and those end its call's waiting.
LEMMA UndecidedStep ==
  ASSUME TypeOK, Undecided, [Next]_vars
  PROVE  Undecided'
<1> SUFFICES ASSUME NEW u \in Calls
             PROVE  /\ pc'[u] \in {"idle", "waiting", "deciding"} => decision'[u] = "none"
                    /\ pc'[u] \notin GateDone => Unheard(ledger', u)
  BY DEF Undecided
<1>1. ASSUME pc'[u] \in {"idle", "waiting", "deciding"}
      PROVE  decision'[u] = "none"
  <2>1. CASE StepOfNone \/ UNCHANGED vars
    BY <1>1, <2>1, NoneStays DEF hooks, Undecided
  <2>2. CASE \E t \in Calls \ {u} : StepOf(t)
    BY <1>1, <2>2, OthersStay DEF Undecided
  <2>3. CASE StepOf(u)
    <3>1. pc[u] \notin GateDone
      BY <1>1, CallsGoOn DEF GateDone
    <3>2. pc'[u] \in {"waiting", "deciding"} /\ UNCHANGED decision
            /\ pc[u] \in {"idle", "waiting"}
      BY <1>1, <2>3, <3>1 DEF GateDone, TypeOK, StepOf, Call, Enter, Pass, Decide, Record_,
         Approve, Run, Abort, PostRead, PostTouch, PostRecord, PostRaises, Die, At, Exits,
         Decided, Resumes
    <3> QED BY <3>2 DEF Undecided
  <2> QED BY <2>1, <2>2, <2>3, StepIsOfOne
<1>2. ASSUME pc'[u] \notin GateDone
      PROVE  Unheard(ledger', u)
  <2>1. pc[u] \notin GateDone
    BY <1>2, CallsGoOn
  <2>2. Unheard(ledger, u)
    BY <2>1 DEF Undecided
  <2>3. CASE ledger' = <<Lifecycle>>
    BY <2>3, CustodyAssumption DEF Unheard, Lifecycle
  <2>4. ASSUME NEW r \in Record, ledger' = Append(ledger, r), r.call # u
        PROVE  Unheard(ledger', u)
    <3>1. \A i \in DOMAIN ledger' : ledger'[i] = r \/ (i \in DOMAIN ledger /\ ledger'[i] = ledger[i])
      BY <2>4, AppendProperties DEF TypeOK
    <3> QED BY <2>2, <2>4, <3>1 DEF Unheard
  <2>5. ASSUME NEW t \in Calls, pc'[t] \in GateDone \/ pc'[t] = "done" PROVE t # u
    BY <1>2, <2>5 DEF GateDone
  <2> QED BY <2>2, <2>3, <2>4, <2>5, LedgerStep, NotedShows
<1> QED BY <1>1, <1>2

\* A result is recorded by the step that ends its call.
LEMMA ResultsOnceStep ==
  ASSUME TypeOK, ResultsOnce, [Next]_vars
  PROVE  ResultsOnce'
<1> DEFINE Fine(l, i) ==
      /\ l[i].outcome = "none"
      /\ \E t \in Calls : t = l[i].call /\ pc'[t] = "done"
      /\ \A j \in DOMAIN l : l[j].call = l[i].call /\ l[j].op \in ResultOps => j = i
<1> SUFFICES \A i \in DOMAIN ledger' : ledger'[i].op \in ResultOps => Fine(ledger', i)
  BY DEF ResultsOnce
<1>1. \A i \in DOMAIN ledger : ledger[i].op \in ResultOps => Fine(ledger, i)
  BY CallsGoOn DEF ResultsOnce
<1>2. CASE ledger' = ledger
  BY <1>1, <1>2
<1>3. CASE ledger' = <<Lifecycle>>
  BY <1>3 DEF Lifecycle, ResultOps
<1>4. ASSUME NEW t \in Calls, NEW r \in Record, ledger' = Append(ledger, r), r.call = t,
             \/ pc[t] = "recording" /\ r.op \notin ResultOps
             \/ pc[t] = "resulting" /\ pc'[t] = "done" /\ r.outcome = "none",
             NEW i \in DOMAIN ledger', ledger'[i].op \in ResultOps
      PROVE  Fine(ledger', i)
  <2> DEFINE n == Len(ledger) + 1
  <2>1. /\ DOMAIN ledger' = DOMAIN ledger \cup {n} /\ ledger'[n] = r
        /\ \A j \in DOMAIN ledger : ledger'[j] = ledger[j]
    BY <1>4, AppendProperties DEF TypeOK
  <2>2. \A j \in DOMAIN ledger : ledger[j].op \in ResultOps => ledger[j].call # t
    BY <1>4 DEF ResultsOnce
  <2>3. CASE i = n
    <3>1. pc'[t] = "done" /\ r.outcome = "none"
      BY <1>4, <2>1, <2>3
    <3> QED BY <1>4, <2>1, <2>2, <2>3, <3>1
  <2>4. CASE i \in DOMAIN ledger
    BY <1>1, <1>4, <2>1, <2>2, <2>4
  <2> QED BY <2>1, <2>3, <2>4
<1> HIDE DEF Fine
<1> QED BY <1>2, <1>3, <1>4, LedgerStep DEF Noted

\* A session's one ledger was its one ledger before, and it was not sealed since.
LEMMA OneLedgerBefore ==
  ASSUME TypeOK, DaemonCounted, [Next]_vars, OneLedger'
  PROVE  OneLedger /\ ~ daemon /\ seals' = seals
<1> USE DEF TypeOK, DaemonCounted, bounds, hooks, OneLedger
<1>1. ASSUME NEW t \in Calls, StepOf(t) PROVE (torn => torn') /\ UNCHANGED <<recorders, seals>>
  <2>1. Gap => UNCHANGED torn
    BY DEF Gap
  <2>2. \A r : Leftover(r) => torn' = torn \/ torn' = TRUE
    BY <2>1 DEF Leftover
  <2>3. Die(t) => torn' = torn \/ torn' = TRUE
    BY <2>1, <2>2 DEF Die
  <2>4. PostRaises(t) => torn' = torn
    BY <2>1 DEF PostRaises
  <2>5. UNCHANGED <<recorders, seals>>
    BY <1>1 DEF StepOf, Call, Enter, Pass, Decide, Record_, Approve, Run, Abort, PostRead,
           PostTouch, PostRecord, PostRaises, Die
  <2>6. Die(t) \/ PostRaises(t) \/ torn' = torn
    BY <1>1 DEF StepOf, Call, Enter, Pass, Decide, Record_, Approve, Run, Abort, PostRead,
           PostTouch, PostRecord
  <2> QED BY <2>3, <2>4, <2>5, <2>6
<1>2. CASE StepOfNone
  <2>1. torn' = torn
    BY <1>2 DEF StepOfNone, DaemonStart, DaemonStop, Seal, Note, SessionEnd, Compact,
                SubagentStop, RebuildCache
  <2>2. /\ recorders' = recorders \/ recorders' = recorders + 1
        /\ seals' = seals \/ seals' = seals + 1
    BY <1>2 DEF StepOfNone, DaemonStart, DaemonStop, Seal, Note, SessionEnd, Compact,
                SubagentStop, RebuildCache
  <2> QED BY <2>1, <2>2
<1> QED BY <1>1, <1>2, StepIsOfOne DEF vars

\* What a gate has let through, or asked about, is in the session's one ledger.
TouchedIsShown == OneLedger => \A u \in Calls : Touched(u) => Shown(ledger, Worst(u))

\* A gate at work has seen all that gates before it let through.
Holding(t) == pc[t] \in {"deciding", "recording"}
HolderSees ==
  OneLedger => \A t, u \in Calls : Holding(t) /\ Touched(u) => Worst(u) \in view[t].sources

\* A decision that is taken and not recorded yet still is what the policies say of all
\* that was let through.
Pending(t, a) == pc[t] = "recording" /\ decision[t] = a
OthersTouched(t) == {Worst(u) : u \in {u \in Calls \ {t} : Touched(u)}}
NoneLeaves(t) ==
  Pending(t, "allow") /\ tool[t].egress /\ Enforced => \A u \in Calls : ~ Touched(u)
FewTouched(t) ==
  (Pending(t, "allow") \/ Pending(t, "ask")) /\ Touches(t) /\ Enforced
    => Cardinality(OthersTouched(t)) < setting.limit
FirstTouch(t) ==
  Pending(t, "ask") /\ setting.posture = "steer"
    => \A u \in Calls : Touched(u) => Worst(u) # Worst(t)
PendingIsRight ==
  OneLedger => \A t \in Calls : NoneLeaves(t) /\ FewTouched(t) /\ FirstTouch(t)

\* All of it: with what the runs check, what makes that inductive.
IInv ==
  /\ TypeOK /\ DaemonCounted /\ Undecided /\ ResultsOnce
  /\ TouchedIsShown /\ HolderSees /\ PendingIsRight /\ AskedOnce

\* What a call touches depends on what it does.
LEMMA SameTouch ==
  ASSUME NEW u, tool'[u] = tool[u]
  PROVE  Worst(u)' = Worst(u) /\ (Touches(u)' <=> Touches(u))
BY DEF Worst, Touches, ClassifiedIn

\* A call comes to be touched by the record of its decision, and by nothing else.
LEMMA NewlyTouched ==
  ASSUME TypeOK, Undecided, [Next]_vars, NEW u \in Calls, Touched(u)'
  PROVE  /\ tool'[u] = tool[u] /\ Worst(u)' = Worst(u) /\ decision'[u] = decision[u]
         /\ tool[u] # None
         /\ \/ Touched(u)
            \/ Record_(u) /\ decision[u] \in {"allow", "ask"} /\ Touches(u)
<1>1. pc'[u] \in GateDone /\ decision'[u] \in {"allow", "ask"} /\ Touches(u)'
  BY DEF Touched, GateDone
<1>2. ASSUME tool'[u] = tool[u], decision'[u] = decision[u], pc[u] \in GateDone
      PROVE  Touched(u) /\ Worst(u)' = Worst(u) /\ tool[u] # None
  <2>1. pc[u] # "idle"
    BY <1>2 DEF GateDone
  <2> QED BY <1>1, <1>2, <2>1, SameTouch DEF Touched, GateDone, TypeOK
<1>3. CASE StepOfNone \/ UNCHANGED vars
  BY <1>1, <1>2, <1>3, NoneStays DEF hooks
<1>4. CASE \E t \in Calls \ {u} : StepOf(t)
  BY <1>1, <1>2, <1>4, OthersStay
<1>5. CASE StepOf(u)
  <2>1. pc[u] # "idle"
    <3> SUFFICES ASSUME pc[u] = "idle" PROVE FALSE
      OBVIOUS
    <3>1. \E x \in Requests : Call(u, x)
      BY <1>5 DEF StepOf, Enter, Pass, Decide, Record_, Approve, Run, Abort, PostRead,
                  PostTouch, PostRecord, PostRaises, Die
    <3>2. pc'[u] = "waiting"
      BY <3>1 DEF Call, At, TypeOK
    <3> QED BY <1>1, <3>2 DEF GateDone
  <2>2. tool'[u] = tool[u]
    BY <2>1, <1>5, OthersStay
  <2>3. tool[u] # None /\ Touches(u)
    BY <1>1, <2>1, <2>2, SameTouch DEF TypeOK
  <2>4. CASE pc[u] \in GateDone
    <3>1. decision' = decision
      BY <1>5, <2>4 DEF GateDone, StepOf, Call, Enter, Pass, Decide, Record_, Approve, Run,
         Abort, PostRead, PostTouch, PostRecord, PostRaises, Die
    <3> QED BY <1>2, <2>2, <2>4, <3>1
  <2>5. CASE pc[u] \notin GateDone
    <3>1. Pass(u) \/ Record_(u) \/ Die(u)
      <4>1. ASSUME pc'[u] \in {"waiting", "deciding", "recording"} PROVE FALSE
        BY <1>1, <4>1 DEF GateDone
      <4> QED BY <1>5, <2>5, <4>1 DEF GateDone, TypeOK, StepOf, Call, Enter, Decide, Approve,
         Run, Abort, PostRead, PostTouch, PostRecord, PostRaises, At
    <3>2. ~ Pass(u)
      BY <1>1 DEF Pass, Undecided
    <3>3. ~ Die(u)
      <4> SUFFICES ASSUME Die(u) PROVE FALSE
        OBVIOUS
      <4>1. CASE pc[u] = "recording"
        BY <1>1, <4>1 DEF Die, TypeOK
      <4>2. CASE pc[u] # "recording"
        <5>1. pc[u] \in {"waiting", "deciding"} /\ decision' = decision
          BY <2>5, <4>2 DEF Die, GateDone
        <5> QED BY <1>1, <5>1 DEF Undecided
      <4> QED BY <4>1, <4>2
    <3>4. Record_(u) /\ decision' = decision
      BY <3>1, <3>2, <3>3 DEF Record_
    <3> QED BY <1>1, <2>2, <2>3, <3>4, SameTouch
  <2> QED BY <2>4, <2>5
<1> QED BY <1>3, <1>4, <1>5, StepIsOfOne

\* While a gate is at work no call comes to be touched.
LEMMA NoneNewWhileHeld ==
  ASSUME TypeOK, TypeOK', Undecided, [Next]_vars,
         NEW t \in Calls, Holding(t)', NEW u \in Calls, Touched(u)'
  PROVE  Touched(u) /\ Worst(u)' = Worst(u) /\ u # t
<1>1. lock' = t
  BY DEF TypeOK, Holding
<1>2. ~ Record_(u)
  BY <1>1, CustodyAssumption DEF Record_
<1>3. pc'[u] \notin {"deciding", "recording"} /\ pc'[t] \in {"deciding", "recording"}
  BY DEF Touched, Holding
<1> QED BY <1>2, <1>3, NewlyTouched

\* A gate is at work because it was, or has entered; only its own steps change what it
\* holds.
LEMMA HolderStep ==
  ASSUME TypeOK, [Next]_vars, NEW t \in Calls, Holding(t)'
  PROVE  /\ setting' = setting
         /\ \/ Enter(t) \/ Decide(t)
            \/ /\ Holding(t) /\ pc'[t] = pc[t] /\ view'[t] = view[t]
               /\ decision'[t] = decision[t] /\ tool'[t] = tool[t]
<1>1. CASE StepOfNone \/ UNCHANGED vars
  BY <1>1, NoneStays DEF hooks, Holding
<1>2. CASE \E s \in Calls \ {t} : StepOf(s)
  BY <1>2, OthersStay DEF Holding
<1>3. CASE StepOf(t)
  <2>1. \A where \in GateDone \cup {"waiting"} : pc' # [pc EXCEPT ![t] = where]
    BY DEF GateDone, Holding, TypeOK
  <2>2. Enter(t) \/ Decide(t)
    <3>1. \A x \in Requests : ~ Call(t, x)
      BY <2>1 DEF Call, At
    <3>2. ~ Pass(t) /\ ~ Record_(t)
      BY <2>1 DEF Pass, Record_, Decided, At, Exits, GateDone
    <3>3. ~ Approve(t) /\ ~ Run(t) /\ ~ Abort(t)
      BY <2>1 DEF Approve, Run, Abort, At, GateDone
    <3>4. ~ PostRead(t) /\ ~ PostTouch(t) /\ ~ PostRecord(t) /\ ~ PostRaises(t)
      BY <2>1 DEF PostRead, PostTouch, PostRecord, PostRaises, At, Exits, GateDone
    <3>5. ~ Die(t)
      BY <2>1 DEF Die, Resumes, At, Exits, GateDone
    <3> QED BY <1>3, <3>1, <3>2, <3>3, <3>4, <3>5 DEF StepOf
  <2> QED BY <1>3, <2>2, OthersStay
<1> QED BY <1>1, <1>2, <1>3, StepIsOfOne

\* The record of a decision to let through, or to ask, shows what it is about.
LEMMA RecordShows ==
  ASSUME TypeOK, Undecided, ~ daemon, ~ torn,
         NEW u \in Calls, Record_(u), decision[u] \in {"allow", "ask"}, Touches(u)
  PROVE  Shown(ledger', Worst(u))
<1>1. pc[u] = "recording" /\ tool[u] # None
  BY DEF Record_, TypeOK
<1>2. PICK r \in DecisionRecords(u) : ledger' = Append(ledger, r)
  BY DEF Record_, GateAppend
<1>3. /\ r \in Record /\ r.call = u /\ r.outcome # "deny"
      /\ \E ref \in r.refs : ref.id = Worst(u) /\ IsClassified(ref.labels)
  BY <1>1, DecisionRecordType DEF Outcome
<1>4. Unheard(ledger, r.call)
  BY <1>1, <1>3 DEF Undecided, GateDone
<1> QED BY <1>2, <1>3, <1>4, NewIsShown DEF TypeOK

\* What is shown stays shown, and what comes to be touched is recorded in that step.
LEMMA TouchedIsShownStep ==
  ASSUME IInv, [Next]_vars
  PROVE  TouchedIsShown'
<1> USE DEF IInv
<1> SUFFICES ASSUME OneLedger', NEW u \in Calls, Touched(u)'
             PROVE  Shown(ledger', Worst(u)')
  BY DEF TouchedIsShown, Shown, CountsIn
<1>1. OneLedger /\ ~ daemon /\ ~ torn /\ seals' = seals
  BY OneLedgerBefore DEF OneLedger
<1>2. CASE Touched(u)
  <2>1. Shown(ledger, Worst(u))
    BY <1>1, <1>2 DEF TouchedIsShown
  <2>2. Shown(Noted, Worst(u)) /\ \A r \in Record : Shown(Append(ledger, r), Worst(u))
    BY <2>1, NotedShows, ShownStays DEF TypeOK
  <2>3. seals' # seals + 1
    BY <1>1 DEF TypeOK
  <2> QED BY <2>1, <2>2, <2>3, LedgerStep, NewlyTouched
<1>3. CASE Record_(u) /\ decision[u] \in {"allow", "ask"} /\ Touches(u)
  BY <1>1, <1>3, RecordShows, NewlyTouched
<1> QED BY <1>2, <1>3, NewlyTouched

\* A gate that enters is told all that is shown, and nothing is added while it holds
\* the lock.
LEMMA HolderSeesStep ==
  ASSUME IInv, [Next]_vars
  PROVE  HolderSees'
<1> USE DEF IInv
<1> SUFFICES ASSUME OneLedger', NEW t \in Calls, Holding(t)', NEW u \in Calls, Touched(u)'
             PROVE  Worst(u)' \in view'[t].sources
  BY DEF HolderSees
<1>1. OneLedger /\ ~ torn
  BY OneLedgerBefore DEF OneLedger
<1>2. Touched(u) /\ Worst(u)' = Worst(u)
  BY TypeStep, NoneNewWhileHeld
<1>3. CASE Enter(t)
  <2>1. PICK s \in StateFor : view' = [view EXCEPT ![t] = s[1]]
    BY <1>3 DEF Enter
  <2>2. Shown(ledger, Worst(u))
    BY <1>1, <1>2 DEF TouchedIsShown
  <2>3. view'[t] = s[1]
    BY <2>1 DEF TypeOK
  <2> QED BY <1>1, <1>2, <2>2, <2>3, StateForShows
<1>4. CASE Decide(t)
  <2>1. Worst(u) \in view[t].sources
    BY <1>1, <1>2, <1>4 DEF HolderSees, Holding, Decide
  <2>2. tool[t] # None /\ view[t] \in State
    BY <1>4 DEF Decide, TypeOK
  <2>3. Touches(t) => view[t].sources \subseteq Touch(view[t], Worst(t), Labelling[Worst(t)]).sources
    BY <2>2, WorstIsClassified, TouchType
  <2>4. \/ view'[t] = view[t]
        \/ Touches(t) /\ view'[t] = Touch(view[t], Worst(t), Labelling[Worst(t)])
    BY <1>4 DEF Decide, TypeOK
  <2> QED BY <1>2, <2>1, <2>3, <2>4
<1>5. CASE Holding(t) /\ view'[t] = view[t]
  BY <1>1, <1>2, <1>5 DEF HolderSees
<1> QED BY <1>3, <1>4, <1>5, HolderStep

\* What others have touched is finite, and what is touched after a step under the lock
\* was before it.
LEMMA OthersTouchedFinite ==
  ASSUME TypeOK, NEW t \in Calls
  PROVE  OthersTouched(t) \subseteq Artifacts /\ IsFiniteSet(OthersTouched(t))
<1>1. \A u \in Calls : Touched(u) => Worst(u) \in Artifacts
  BY WorstIsClassified DEF Touched, TypeOK
<1> QED BY <1>1, FS_Subset, CustodyAssumption DEF OthersTouched

\* A decision is taken on a state that holds all that was let through, and nothing is
\* let through until it is recorded.
LEMMA PendingIsRightStep ==
  ASSUME IInv, [Next]_vars
  PROVE  PendingIsRight'
<1> USE DEF IInv
<1> SUFFICES ASSUME OneLedger', NEW t \in Calls
             PROVE  (NoneLeaves(t) /\ FewTouched(t) /\ FirstTouch(t))'
  BY DEF PendingIsRight
<1>1. OneLedger
  BY OneLedgerBefore
<1>2. CASE pc'[t] # "recording"
  BY <1>2 DEF NoneLeaves, FewTouched, FirstTouch, Pending
<1>3. CASE pc'[t] = "recording"
  <2>1. Holding(t)' /\ setting' = setting /\ (Enforced' <=> Enforced)
    BY <1>3, HolderStep DEF Holding, Enforced
  <2>2. \A u \in Calls : Touched(u)' => Touched(u) /\ Worst(u)' = Worst(u) /\ u # t
    BY <2>1, TypeStep, NoneNewWhileHeld
  <2>3. OthersTouched(t)' \subseteq OthersTouched(t)
    BY <2>2 DEF OthersTouched
  <2>4. IsFiniteSet(OthersTouched(t)) /\ Cardinality(OthersTouched(t)) \in Nat
          /\ Cardinality(OthersTouched(t)') \in Nat
          /\ Cardinality(OthersTouched(t)') <= Cardinality(OthersTouched(t))
    BY <2>3, OthersTouchedFinite, FS_Subset, FS_CardinalityType
  <2>5. setting.limit \in Nat
    BY CustodyAssumption DEF TypeOK, Setting
  <2>6. CASE Decide(t)
    <3> DEFINE d == Downgraded(t, view[t])
    <3>1. pc[t] = "deciding" /\ tool' = tool /\ Holding(t)
      BY <2>6 DEF Decide, Holding
    <3>2. decision'[t] \in Answers(t, d)
      BY <2>6 DEF Decide, TypeOK
    <3>3. decision'[t] \in {"allow", "ask"} => d = decision'[t] /\ ~ Forbidden(t, view[t])
      BY <3>2, DecisionType DEF Downgraded, Verdict
    <3>4. decision'[t] = "ask" => Asked(t, view[t])
      BY <3>2, DecisionType DEF Downgraded, Verdict
    <3>5. \A u \in Calls : Touched(u) => Worst(u) \in view[t].sources
      BY <1>1, <3>1 DEF HolderSees
    <3>6. NoneLeaves(t)'
      BY <2>1, <2>2, <3>1, <3>3, <3>5 DEF NoneLeaves, Pending, Forbidden
    <3>7. FewTouched(t)'
      <4> SUFFICES ASSUME decision'[t] \in {"allow", "ask"}, Touches(t)', Enforced
                   PROVE  Cardinality(OthersTouched(t)') < setting.limit
        BY <2>1 DEF FewTouched, Pending
      <4>1. Touches(t)
        BY <3>1, SameTouch
      <4>2. ~ (Cardinality(view[t].sources) >= setting.limit)
        BY <3>3, <4>1 DEF Forbidden
      <4>3. OthersTouched(t) \subseteq view[t].sources
        BY <3>5 DEF OthersTouched
      <4>4. IsFiniteSet(view[t].sources)
        <5>1. IsFiniteSet(Artifacts \cup {Unnamed})
          BY CustodyAssumption, FS_AddElement
        <5>2. view[t].sources \in SUBSET (Artifacts \cup {Unnamed})
          BY DEF TypeOK, State
        <5> QED BY <5>1, <5>2, FS_Subset
      <4>5. Cardinality(OthersTouched(t)) <= Cardinality(view[t].sources)
              /\ Cardinality(view[t].sources) \in Nat
        BY <4>3, <4>4, FS_Subset, FS_CardinalityType
      <4> QED BY <2>4, <2>5, <4>2, <4>5
    <3>8. FirstTouch(t)'
      <4> SUFFICES ASSUME decision'[t] = "ask", NEW u \in Calls, Touched(u)'
                   PROVE  Worst(u)' # Worst(t)'
        BY DEF FirstTouch, Pending
      <4>1. Worst(t)' = Worst(t) /\ Worst(u)' = Worst(u) /\ Touched(u)
        BY <2>2, <3>1, SameTouch
      <4>2. Worst(t) \notin view[t].sources
        BY <3>4 DEF Asked
      <4> QED BY <3>5, <4>1, <4>2
    <3> QED BY <3>6, <3>7, <3>8
  <2>7. CASE /\ Holding(t) /\ pc'[t] = pc[t]
             /\ decision'[t] = decision[t] /\ tool'[t] = tool[t]
    <3>1. NoneLeaves(t) /\ FewTouched(t) /\ FirstTouch(t)
      BY <1>1 DEF PendingIsRight
    <3>2. NoneLeaves(t)'
      BY <2>1, <2>2, <2>7, <3>1 DEF NoneLeaves, Pending
    <3>3. FewTouched(t)'
      BY <2>1, <2>4, <2>5, <2>7, <3>1, SameTouch DEF FewTouched, Pending
    <3>4. FirstTouch(t)'
      BY <2>1, <2>2, <2>7, <3>1, SameTouch DEF FirstTouch, Pending
    <3> QED BY <3>2, <3>3, <3>4
  <2>8. ~ Enter(t)
    BY <1>3 DEF Enter, At, TypeOK
  <2> QED BY <2>1, <2>6, <2>7, <2>8, HolderStep
<1> QED BY <1>2, <1>3

\* The second to ask about an artifact would have seen the first.
LEMMA AskedOnceStep ==
  ASSUME IInv, [Next]_vars
  PROVE  AskedOnce'
<1> USE DEF IInv
<1> SUFFICES ASSUME setting'.posture = "steer", OneLedger', NEW t \in Calls, NEW u \in Calls,
                    t # u, Touched(t)', Touched(u)', decision'[t] = "ask", decision'[u] = "ask"
             PROVE  Worst(t)' # Worst(u)'
  BY DEF AskedOnce
<1>1. OneLedger /\ setting' = setting
  BY OneLedgerBefore, OthersStay, NoneStays, StepIsOfOne
<1>2. /\ Worst(t)' = Worst(t) /\ Worst(u)' = Worst(u)
      /\ decision[t] = "ask" /\ decision[u] = "ask"
      /\ Touched(t) \/ Record_(t)
      /\ Touched(u) \/ Record_(u)
  BY NewlyTouched
<1>3. \A a, b \in Calls : Record_(a) /\ Touched(b) /\ decision[a] = "ask" => Worst(b) # Worst(a)
  BY <1>1 DEF PendingIsRight, FirstTouch, Pending, Record_
<1>4. ~ (Record_(t) /\ Record_(u))
  BY DEF Record_, TypeOK
<1>5. Touched(t) /\ Touched(u) => Worst(t) # Worst(u)
  BY <1>1, <1>2 DEF AskedOnce
<1> QED BY <1>2, <1>3, <1>4, <1>5

\* The invariant is inductive.
LEMMA Inductive == IInv /\ [Next]_vars => IInv'
BY TypeStep, DaemonCountedStep, UndecidedStep, ResultsOnceStep, TouchedIsShownStep,
   HolderSeesStep, PendingIsRightStep, AskedOnceStep DEF IInv

\* It holds of a session that has just begun.
LEMMA Initial == Init => IInv
<1> SUFFICES ASSUME Init PROVE IInv
  OBVIOUS
<1>1. TypeOK
  BY InitTypes
<1>2. \A t \in Calls : pc[t] = "idle" /\ decision[t] = "none" /\ ~ Touched(t)
  BY DEF Init, Touched
<1> QED BY <1>1, <1>2 DEF Init, IInv, DaemonCounted, Undecided, ResultsOnce, TouchedIsShown,
        HolderSees, PendingIsRight, NoneLeaves, FewTouched, FirstTouch, Pending, AskedOnce,
        Holding, Unheard

\* It holds of every run.
LEMMA Invariant == Spec => []IInv
BY Initial, Inductive, PTL DEF Spec

----------------------------------------------------------------------------
(* The properties *)

\* Under steer the operator is asked about an artifact once, however many calls open it
\* together (AskedOnce).
THEOREM CustodyAsksOnce == Spec => []AskedOnce
<1>1. IInv => AskedOnce
  BY DEF IInv
<1> QED BY <1>1, Invariant, PTL

\* A decision a gate leaves with is the one it held.
LEMMA LeavesPending ==
  ASSUME TypeOK, [Next]_vars, NEW t \in Calls, NEW a \in {"allow", "ask"}, Leaves(t, a)
  PROVE  Pending(t, a)
<1>1. CASE StepOfNone \/ UNCHANGED vars
  BY <1>1, NoneStays DEF Leaves, hooks
<1>2. CASE \E s \in Calls \ {t} : StepOf(s)
  BY <1>2, OthersStay DEF Leaves
<1>3. CASE StepOf(t)
  <2>1. Record_(t) \/ Die(t)
    BY <1>3 DEF Leaves, StepOf, Call, Enter, Pass, Decide, Approve, Run, Abort, PostRead,
       PostTouch, PostRecord, PostRaises
  <2>2. Die(t) => decision'[t] = "none"
    BY DEF Die, Leaves, TypeOK
  <2> QED BY <2>1, <2>2 DEF Leaves, Pending, Record_
<1> QED BY <1>1, <1>2, <1>3, StepIsOfOne

\* Once a gate has let a classified artifact through, or asked about one, no gate of
\* the session lets data leave (NoEgressAfterRead).
THEOREM CustodyStopsEgress == Spec => NoEgressAfterRead
<1> DEFINE Step == \A t \in Calls :
        Leaves(t, "allow") /\ tool[t].egress /\ Enforced /\ OneLedger
          => \A u \in Calls \ {t} : ~ Touched(u)
<1>1. IInv /\ [Next]_vars => Step
  <2> SUFFICES ASSUME IInv, [Next]_vars, NEW t \in Calls,
                      Leaves(t, "allow"), tool[t].egress, Enforced, OneLedger
               PROVE  \A u \in Calls \ {t} : ~ Touched(u)
    OBVIOUS
  <2>1. Pending(t, "allow")
    BY LeavesPending DEF IInv
  <2>2. NoneLeaves(t)
    BY DEF IInv, PendingIsRight
  <2> QED BY <2>1, <2>2 DEF NoneLeaves
<1> QED BY <1>1, Invariant, PTL DEF Spec, NoEgressAfterRead

\* Once the threshold's number of artifacts have been decided about, a gate lets
\* nothing classified through, nor asks about it (AccumulationStops).
THEOREM CustodyStopsAccumulation == Spec => AccumulationStops
<1> DEFINE Step == \A t \in Calls :
        (Leaves(t, "allow") \/ Leaves(t, "ask")) /\ Touches(t) /\ Enforced /\ OneLedger
          => Cardinality({Worst(u) : u \in {u \in Calls \ {t} : Touched(u)}})
               < setting.limit
<1>1. IInv /\ [Next]_vars => Step
  <2> SUFFICES ASSUME IInv, [Next]_vars, NEW t \in Calls,
                      Leaves(t, "allow") \/ Leaves(t, "ask"), Touches(t), Enforced, OneLedger
               PROVE  Cardinality(OthersTouched(t)) < setting.limit
    BY DEF OthersTouched
  <2>1. Pending(t, "allow") \/ Pending(t, "ask")
    BY LeavesPending DEF IInv
  <2>2. FewTouched(t)
    BY DEF IInv, PendingIsRight
  <2> QED BY <2>1, <2>2 DEF FewTouched
<1> QED BY <1>1, Invariant, PTL DEF Spec, AccumulationStops

\* What the ledger's results name is in the state a gate decides on (ResultsAreSeen).
THEOREM CustodySeesResults == Spec => ResultsAreSeen
<1> DEFINE Step == \A t \in Calls :
        pc[t] = "waiting" /\ pc'[t] = "deciding" /\ ~ torn
          => \A i \in DOMAIN ledger : ledger[i].op \in {"tool.result", "artifact.derive"}
               => \A r \in ledger[i].refs :
                    IsClassified(r.labels) => r.id \in view'[t].sources
<1>1. IInv /\ [Next]_vars => Step
  <2> SUFFICES ASSUME IInv, [Next]_vars, NEW t \in Calls,
                      pc[t] = "waiting", pc'[t] = "deciding", ~ torn,
                      NEW i \in DOMAIN ledger, ledger[i].op \in ResultOps,
                      NEW r \in ledger[i].refs, IsClassified(r.labels)
               PROVE  r.id \in view'[t].sources
    BY DEF ResultOps
  <2> USE DEF IInv
  <2>1. Enter(t)
    <3>1. Holding(t)' /\ ~ Holding(t)
      BY DEF Holding
    <3> QED BY <3>1, HolderStep DEF Decide
  <2>2. PICK s \in StateFor : view'[t] = s[1]
    BY <2>1 DEF Enter, TypeOK
  <2>3. CountsIn(ledger, i)
    <3>1. ledger[i].outcome # "deny"
      BY DEF ResultsOnce
    <3>2. \A j \in 1 .. (i - 1) : j \in DOMAIN ledger /\ j # i
      BY LenProperties DEF TypeOK
    <3>3. \A j \in 1 .. (i - 1) :
            ~ (ledger[j].call = ledger[i].call /\ ledger[j].op = ledger[i].op)
      BY <3>2 DEF ResultsOnce
    <3> QED BY <3>1, <3>3 DEF CountsIn
  <2>4. Shown(ledger, r.id)
    BY <2>3 DEF Shown
  <2> QED BY <2>2, <2>4, StateForShows
<1> QED BY <1>1, Invariant, PTL DEF Spec, ResultsAreSeen

=============================================================================

------------------------------ MODULE Custody -------------------------------
(***************************************************************************)
(* The custody of one session: the gate before a tool call (cli/gate.py,   *)
(* cli/hook_gate.py), the recorder of its result after it                  *)
(* (cli/hook_post.py), and the session state both derive from the ledger   *)
(* (taint/state.py, taint/persist.py), under the shipped policies          *)
(* (data/policy, policy/engine.py).                                        *)
(*                                                                         *)
(* The host runs tool calls in parallel, each with hook processes of its   *)
(* own.  A gate holds the session's lock from reading the state to its     *)
(* append; hook_post reads the state, saves the cache and appends without  *)
(* that lock.  The ledger here is one session's records, each with what    *)
(* rebuild() reads of it; the counters and edges of the state, which no    *)
(* policy looks at, are left out.                                          *)
(***************************************************************************)
EXTENDS Labels, Sequences

CONSTANTS
  Calls,        \* tool calls, by their tool_use_id
  Artifacts,
  Labelling,    \* what classify_path() says of each
  Handled,      \* those with a registered handler
  Protected,    \* those that are the custody ledger, with protect_ledger on
  ChildTouched, \* the sources in the saved state of a subagent
  Requests,     \* what the model asks of the host
  Settings,     \* the settings sessions are held under
  Unnamed,      \* the artifact_id "" of an additional classified input
  None,
  MaxMishaps    \* bound: hooks killed, recorders started and segments sealed

Postures == {"observe", "steer", "bar"}
\* limit: the taint_depth of forbid-accumulation-threshold (4 as shipped).
\* bypass: permission_mode is bypassPermissions or acceptEdits.
\* imported: record_result() is called in a hook_post.py that was imported, as the
\* tests do.  The installed hooks run the file (python3 -m), which calls main()
\* before it defines what record_result() needs last.
Setting  == [posture : Postures, limit : Nat, bypass : BOOLEAN, imported : BOOLEAN]
Tool     == [name : {"Read", "Write", "Bash"}, paths : SUBSET Artifacts, egress : BOOLEAN]
State    == [labels : LabelSets, sources : SUBSET (Artifacts \cup {Unnamed})]
Ref      == [id : Artifacts \cup {Unnamed}, labels : LabelSets]
Ops      == {"artifact.read", "artifact.write", "artifact.egress", "artifact.derive",
             "tool.result", "lifecycle"}
Record   == [call : Calls \cup {None}, op : Ops, outcome : {"allow", "ask", "deny", "none"},
             refs : SUBSET Ref]

ASSUME CustodyAssumption ==
  /\ IsFiniteSet(Artifacts)
  /\ Labelling \in [Artifacts -> LabelSets]
  /\ Handled \subseteq Artifacts /\ Protected \subseteq Artifacts
  /\ ChildTouched \subseteq {p \in Artifacts : IsClassified(Labelling[p])}
  /\ Unnamed \notin Artifacts /\ None \notin Calls
  /\ Requests \subseteq Tool /\ None \notin Requests
  \* file tools name one file, and only a command can be an egress
  /\ \A x \in Requests : x.name # "Bash" => ~ x.egress /\ Cardinality(x.paths) = 1
  /\ Settings \subseteq Setting
  /\ MaxMishaps \in Nat

VARIABLES
  setting,
  tool,       \* what each call does
  pc,         \* where it is: in the gate, with the host, in hook_post
  view,       \* the state its hook derived
  decision,   \* what its gate decided
  lock,       \* the holder of the session's lock
  cache,      \* the state file
  ledger,
  torn,       \* the ledger's last line is torn: it no longer verifies
  daemon,     \* a recorder answers
  recorders, deaths, seals

hooks  == <<tool, pc, view, decision>>
bounds == <<recorders, deaths, seals>>
vars   == <<setting, hooks, lock, cache, ledger, torn, daemon, bounds>>

Mishaps == recorders + deaths + seals

PCs == {"idle", "waiting", "deciding", "recording", "asked", "running", "posting",
        "touching", "resulting", "done"}

TypeOK ==
  /\ setting \in Settings
  /\ tool \in [Calls -> Tool \cup {None}]
  /\ pc \in [Calls -> PCs]
  /\ view \in [Calls -> State]
  /\ decision \in [Calls -> {"none", "allow", "ask", "deny", "delegated"}]
  /\ lock \in Calls \cup {None}
  /\ cache \in State
  /\ ledger \in Seq(Record)
  /\ torn \in BOOLEAN /\ daemon \in BOOLEAN
  /\ recorders \in Nat /\ deaths \in Nat /\ seals \in Nat
  \* a call under way does something; a gate at work has the session's lock
  /\ \A t \in Calls : /\ pc[t] # "idle" => tool[t] # None
                      /\ pc[t] \in {"deciding", "recording"} <=> lock = t

Fresh == [labels |-> {"public"}, sources |-> {}]

Init ==
  /\ setting \in Settings
  /\ tool = [t \in Calls |-> None]
  /\ pc = [t \in Calls |-> "idle"]
  /\ view = [t \in Calls |-> Fresh]
  /\ decision = [t \in Calls |-> "none"]
  /\ lock = None
  /\ cache = Fresh
  /\ ledger = << >>
  /\ torn = FALSE /\ daemon = FALSE
  /\ recorders = 0 /\ deaths = 0 /\ seals = 0

-----------------------------------------------------------------------------
(* taint/state.py *)

Classified(p) == IsClassified(Labelling[p])

\* touch()
Touch(st, id, ls) ==
  [labels  |-> Join({st.labels, ls}),
   sources |-> IF IsClassified(ls) THEN st.sources \cup {id} ELSE st.sources]

TouchAll(st, ps) ==
  [labels  |-> Join({st.labels} \cup {Labelling[p] : p \in ps}),
   sources |-> st.sources \cup {p \in ps : Classified(p)}]

\* Mutants: rebuild() pairs records by their call alone; it takes an ask for
\* something that did not happen.
CountsOnePerCall(i) ==
  /\ ledger[i].outcome # "deny"
  /\ ~ \E j \in 1 .. (i - 1) : ledger[j].call = ledger[i].call

CountsNoAsk(i) ==
  /\ ledger[i].outcome \notin {"deny", "ask"}
  /\ ~ \E j \in 1 .. (i - 1) : ledger[j].call = ledger[i].call /\ ledger[j].op = ledger[i].op

\* rebuild() replays a record unless it was a deny, or one with the same call
\* and the same op came before it.
Counts(i) ==
  /\ ledger[i].outcome # "deny"
  /\ ~ \E j \in 1 .. (i - 1) : ledger[j].call = ledger[i].call /\ ledger[j].op = ledger[i].op

Replayed == UNION {ledger[i].refs : i \in {i \in DOMAIN ledger : Counts(i)}}

Rebuilt ==
  [labels  |-> Join({{"public"}} \cup {r.labels : r \in Replayed}),
   sources |-> {r.id : r \in {r \in Replayed : IsClassified(r.labels)}}]

-----------------------------------------------------------------------------
(* persist.py and state_for() *)

\* load() and save(): the file of the session is whole, and its own
Cached   == cache
Save(st) == cache' = st

\* _unsafe_state()
Unsafe == [labels |-> {"restricted"}, sources |-> {}]

\* What the recorder answers: op_state() looks at the chain, and not whether its
\* last line is torn.
Told == IF daemon THEN {Rebuilt} ELSE {}

\* reconcile_with_ledger(): the ledger wins, and the cache is what it says
Reconciled == <<Rebuilt, Rebuilt>>

\* What a hook is told, with the cache as that leaves it: by the recorder, or by
\* its own reading of the ledger when none answers (in time), which saves what it
\* rebuilt.
StateFor ==
  {<<st, Cached>> : st \in Told}
  \cup (IF torn THEN {<<Unsafe, Cached>>}
        ELSE IF ledger = << >> THEN {<<Cached, Cached>>}
        ELSE {Reconciled})

\* A record that names no artifact: a lifecycle event, a failure, another
\* session's record, the genesis of a segment.
Lifecycle == [call |-> None, op |-> "lifecycle", outcome |-> "none", refs |-> {}]

\* The ledger after such a record.  Only the first shows: it makes the ledger, and
\* no longer the cache, the state.
Noted == IF torn \/ ledger # << >> THEN ledger ELSE <<Lifecycle>>

-----------------------------------------------------------------------------
(* The policies, as engine.evaluate() weighs them: forbid over ask over     *)
(* permit, and deny when nothing permits.                                   *)

ClassifiedIn(t) == {p \in tool[t].paths : Classified(p)}

\* The decision turns on the classified candidate with the most labels.
Worst(t) ==
  CHOOSE p \in ClassifiedIn(t) :
    \A q \in ClassifiedIn(t) : Cardinality(Labelling[q]) <= Cardinality(Labelling[p])

Touches(t) == ClassifiedIn(t) # {}
Enforced   == setting.posture \in {"steer", "bar"}

\* Mutant: the threshold is one artifact too high.
ForbiddenOneLater(t, st) ==
  \/ Enforced /\ tool[t].egress /\ st.sources # {}
  \/ Enforced /\ tool[t].egress /\ "credential" \in st.labels
  \/ Enforced /\ Touches(t) /\ Cardinality(st.sources) > setting.limit
  \/ setting.posture = "bar" /\ Touches(t)
  \/ tool[t].name = "Write" /\ Touches(t) /\ Worst(t) \in Protected

Forbidden(t, st) ==
  \/ Enforced /\ tool[t].egress /\ st.sources # {}
  \/ Enforced /\ tool[t].egress /\ "credential" \in st.labels
  \/ Enforced /\ Touches(t) /\ Cardinality(st.sources) >= setting.limit
  \/ setting.posture = "bar" /\ Touches(t)
  \/ tool[t].name = "Write" /\ Touches(t) /\ Worst(t) \in Protected

Asked(t, st) == setting.posture = "steer" /\ Touches(t) /\ Worst(t) \notin st.sources

Permitted(t, st) ==
  \/ setting.posture = "observe"
  \/ ~ Touches(t)
  \/ setting.posture = "steer" /\ Worst(t) \in st.sources

Verdict(t, st) ==
  IF Forbidden(t, st) THEN "deny"
  ELSE IF Asked(t, st) THEN "ask"
  ELSE IF Permitted(t, st) THEN "allow"
  ELSE "deny"

\* An ask is not put to an operator who asked not to be interrupted.
Downgraded(t, st) == IF Verdict(t, st) = "ask" /\ setting.bypass THEN "allow" ELSE Verdict(t, st)

GateOp(t) ==
  IF tool[t].egress THEN "artifact.egress"
  ELSE IF tool[t].name = "Write" THEN "artifact.write"
  ELSE "artifact.read"

-----------------------------------------------------------------------------
(* PreToolUse: hook_gate.main() and decide() *)

At(t, where) == pc' = [pc EXCEPT ![t] = where]

\* The hook at work for t ends, and with it what it has read.
Exits(t, where) == At(t, where) /\ view' = [view EXCEPT ![t] = Fresh]

Call(t, x) ==
  /\ pc[t] = "idle"
  /\ tool' = [tool EXCEPT ![t] = x]
  /\ At(t, "waiting")
  /\ UNCHANGED <<setting, view, decision, lock, cache, ledger, torn, daemon, bounds>>

\* Mutant: the session's lock is not taken.
EnterUnlocked(t) ==
  /\ pc[t] = "waiting"
  /\ lock' = t
  /\ \E s \in StateFor : view' = [view EXCEPT ![t] = s[1]] /\ Save(s[2])
  /\ At(t, "deciding")
  /\ UNCHANGED <<setting, tool, decision, ledger, torn, daemon, bounds>>

\* _session_lock() and state_for().
Enter(t) ==
  /\ pc[t] = "waiting"
  /\ lock = None
  /\ lock' = t
  /\ \E s \in StateFor : view' = [view EXCEPT ![t] = s[1]] /\ Save(s[2])
  /\ At(t, "deciding")
  /\ UNCHANGED <<setting, tool, decision, ledger, torn, daemon, bounds>>

\* Nothing classified and no egress: decide() returns None and records nothing.
Pass(t) ==
  /\ pc[t] = "deciding"
  /\ ~ Touches(t) /\ ~ tool[t].egress
  /\ lock' = None
  /\ Exits(t, "running")
  /\ UNCHANGED <<setting, tool, decision, cache, ledger, torn, daemon, bounds>>

\* A handler that is there runs unless the policy denies; when its answer is
\* usable and no prompt is pending, that answer takes the place of the read.
Answers(t, d) ==
  IF tool[t].name = "Read" /\ tool[t].paths \subseteq Handled /\ d = "allow" /\ Touches(t)
    THEN {d, "delegated"} ELSE {d}

\* The verdict; the touch it implies goes into the state and the cache.
Decide(t) ==
  LET d  == Downgraded(t, view[t])
      st == IF Touches(t) /\ d # "deny" THEN Touch(view[t], Worst(t), Labelling[Worst(t)])
                                        ELSE view[t]
  IN  /\ pc[t] = "deciding"
      /\ Touches(t) \/ tool[t].egress
      /\ \E a \in Answers(t, d) : decision' = [decision EXCEPT ![t] = a]
      /\ view' = [view EXCEPT ![t] = st]
      /\ IF d = "deny" \/ (d = "ask" /\ ~ Touches(t)) THEN UNCHANGED cache ELSE Save(st)
      /\ At(t, "recording")
      /\ UNCHANGED <<setting, tool, lock, ledger, torn, daemon, bounds>>

\* _substituted(): the answer of a handler is recorded as a deny.
Outcome(t) == IF decision[t] = "delegated" THEN "deny" ELSE decision[t]

\* The record of a decision.  The other classified inputs have no artifact_id,
\* nor has the first when the call spells its path another way.
DecisionRecord(t, unnamed) ==
  [call    |-> t, op |-> GateOp(t), outcome |-> Outcome(t),
   refs    |-> (IF Touches(t) THEN {[id |-> Worst(t), labels |-> Labelling[Worst(t)]]} ELSE {})
               \cup {[id |-> Unnamed, labels |-> Labelling[p]] : p \in unnamed}]

DecisionRecords(t) ==
  {DecisionRecord(t, ps) : ps \in {ClassifiedIn(t), {p \in ClassifiedIn(t) : p # Worst(t)}}}

\* client.append(): the recorder refuses a decision, which has no known_gaps; the
\* hook's own append (no recorder, or none in time) is refused by a torn ledger.
GateAppend(t) ==
  \/ daemon /\ UNCHANGED ledger
  \/ torn /\ UNCHANGED ledger
  \/ ~ torn /\ \E r \in DecisionRecords(t) : ledger' = Append(ledger, r)

Decided(t) == CASE decision[t] = "ask" -> "asked"
                [] decision[t] = "allow" -> "running"
                [] OTHER -> "done"

\* The append, whatever comes of it, and the return of the decision to the host.
Record_(t) ==
  /\ pc[t] = "recording"
  /\ GateAppend(t)
  /\ lock' = None
  /\ Exits(t, Decided(t))
  /\ UNCHANGED <<setting, tool, decision, cache, torn, daemon, bounds>>

-----------------------------------------------------------------------------
(* The host *)

\* The operator answers the prompt.
Approve(t) ==
  /\ pc[t] = "asked"
  /\ pc' \in {[pc EXCEPT ![t] = "running"], [pc EXCEPT ![t] = "done"]}
  /\ UNCHANGED <<setting, tool, view, decision, lock, cache, ledger, torn, daemon, bounds>>

\* The tool runs; PostToolUse hears of a success.
Run(t) ==
  /\ pc[t] = "running"
  /\ At(t, "posting")
  /\ UNCHANGED <<setting, tool, view, decision, lock, cache, ledger, torn, daemon, bounds>>

\* It fails, or the host refuses it: PostToolUseFailure, if that comes, names no
\* artifact (tool_failed()).
Abort(t) ==
  /\ pc[t] = "running"
  /\ At(t, "done")
  /\ ledger' \in {ledger, Noted}
  /\ UNCHANGED <<setting, tool, view, decision, lock, cache, torn, daemon, bounds>>

-----------------------------------------------------------------------------
(* PostToolUse: record_result() *)

PostRead(t) ==
  /\ pc[t] = "posting"
  /\ \E s \in StateFor : view' = [view EXCEPT ![t] = s[1]] /\ Save(s[2])
  /\ At(t, "touching")
  /\ UNCHANGED <<setting, tool, decision, lock, ledger, torn, daemon, bounds>>

\* What is written inherits the labels of the state; what is read keeps its own.
ResultRefs(t) ==
  {[id |-> p, labels |-> IF tool[t].name = "Write" THEN Join({Labelling[p], view[t].labels})
                                                  ELSE Labelling[p]] : p \in tool[t].paths}

\* The touches of a result, under persist.exclusive(), which only hook_post takes:
\* what is saved builds on the state read before that lock.
PostTouch(t) ==
  LET touched == {r \in ResultRefs(t) : tool[t].name = "Write" \/ IsClassified(r.labels)}
  IN  /\ pc[t] = "touching"
      /\ Save([labels  |-> Join({view[t].labels} \cup {r.labels : r \in touched}),
               sources |-> view[t].sources \cup
                             {r.id : r \in {r \in touched : IsClassified(r.labels)}}])
      /\ At(t, "resulting")
      /\ UNCHANGED <<setting, tool, view, decision, lock, ledger, torn, daemon, bounds>>

\* A write is a derivation when the state it inherits from has sources.
ResultOp(t) ==
  IF tool[t].name # "Write" THEN "tool.result"
  ELSE IF view[t].sources # {} THEN "artifact.derive"
  ELSE "artifact.write"

ResultRecord(t) ==
  [call |-> t, op |-> ResultOp(t), outcome |-> "none", refs |-> ResultRefs(t)]

\* What a hook that raised has noted of it (_record_gap()).
Gap == ledger' \in {ledger, Noted} /\ UNCHANGED torn

\* _record_loss(): what the ledger did not take, it is asked to take as a gap.
Loss == Noted

\* The recorder takes a result, and so does the hook's own append.
PostRecord(t) ==
  /\ pc[t] = "resulting" /\ setting.imported
  /\ ledger' = IF torn THEN Loss ELSE Append(ledger, ResultRecord(t))
  /\ Exits(t, "done")
  /\ UNCHANGED <<setting, tool, decision, lock, cache, torn, daemon, bounds>>

\* The installed hook has no _content_binding() yet: main() reports a gap.
PostRaises(t) ==
  /\ pc[t] = "resulting" /\ ~ setting.imported
  /\ Gap
  /\ Exits(t, "done")
  /\ UNCHANGED <<setting, tool, decision, lock, cache, daemon, bounds>>

-----------------------------------------------------------------------------
(* What else happens in a session. *)

\* Where a call whose gate or hook_post is gone goes on: the host fails open.
Resumes(t) == IF pc[t] \in {"waiting", "deciding", "recording"} THEN "running" ELSE "done"

\* The record a hook that ends early had in hand: not written, written, or torn.
Leftover(r) ==
  \/ Gap
  \/ ~ torn /\ ledger' = Append(ledger, r) /\ UNCHANGED torn
  \/ ~ daemon /\ torn' = TRUE /\ UNCHANGED ledger

\* A hook is killed, or raises (main() reports nothing then, and the host goes on).
Die(t) ==
  /\ Mishaps < MaxMishaps
  /\ deaths' = deaths + 1
  /\ pc[t] \in {"waiting", "deciding", "recording", "posting", "touching", "resulting"}
  /\ CASE pc[t] = "recording" -> \E r \in DecisionRecords(t) : Leftover(r)
       [] pc[t] = "resulting" /\ setting.imported -> Leftover(ResultRecord(t))
       [] OTHER -> Gap
  /\ Exits(t, Resumes(t))
  /\ decision' = IF pc[t] = "recording" THEN [decision EXCEPT ![t] = "none"] ELSE decision
  /\ lock' = IF lock = t THEN None ELSE lock
  /\ UNCHANGED <<setting, tool, cache, daemon, recorders, seals>>

DaemonStart ==
  /\ ~ daemon /\ Mishaps < MaxMishaps
  /\ daemon' = TRUE
  /\ recorders' = recorders + 1
  /\ UNCHANGED <<setting, hooks, lock, cache, ledger, torn, deaths, seals>>

DaemonStop ==
  /\ daemon
  /\ daemon' = FALSE
  /\ UNCHANGED <<setting, hooks, lock, cache, ledger, torn, bounds>>

\* seal(): the records go into an archive, which no hook reads.
Seal ==
  /\ Mishaps < MaxMishaps
  /\ ~ torn /\ ledger # << >>
  /\ ledger' = <<Lifecycle>>
  /\ seals' = seals + 1
  /\ UNCHANGED <<setting, hooks, lock, cache, torn, daemon, recorders, deaths>>

\* session_start() and prompt_submit().
Note ==
  /\ ledger' = Noted
  /\ UNCHANGED <<setting, hooks, lock, cache, torn, daemon, bounds>>

\* session_end() does not seal, nor clear the state.
SessionEnd ==
  /\ ledger' = Noted
  /\ UNCHANGED <<setting, hooks, lock, cache, torn, daemon, bounds>>

\* pre_compact(): state_for() may save the cache.
Compact ==
  /\ \E s \in StateFor : Save(s[2])
  /\ ledger' = Noted
  /\ UNCHANGED <<setting, hooks, lock, torn, daemon, bounds>>

\* subagent_stop(): the child's sources join the cached state, with no lock, and
\* its record does not name them.
SubagentStop ==
  /\ Save(TouchAll(Cached, ChildTouched))
  /\ ledger' = Noted
  /\ UNCHANGED <<setting, hooks, lock, torn, daemon, bounds>>

\* `stop-guessing state --rebuild`: the cache from whatever can be read of the
\* ledger, and from nothing when there is none.
RebuildCache ==
  /\ Save(Rebuilt)
  /\ UNCHANGED <<setting, hooks, lock, ledger, torn, daemon, bounds>>

-----------------------------------------------------------------------------
Next ==
  \/ \E t \in Calls : \/ \E x \in Requests : Call(t, x)
                      \/ Enter(t) \/ Pass(t) \/ Decide(t) \/ Record_(t)
                      \/ Approve(t) \/ Run(t) \/ Abort(t)
                      \/ PostRead(t) \/ PostTouch(t) \/ PostRecord(t) \/ PostRaises(t)
                      \/ Die(t)
  \/ DaemonStart \/ DaemonStop \/ Seal \/ Note \/ SessionEnd \/ Compact \/ SubagentStop
  \/ RebuildCache

Spec == Init /\ [][Next]_vars

-----------------------------------------------------------------------------
(* Properties *)

\* What the policies decide on is all in one ledger: no recorder has refused a
\* decision, no segment was sealed, no record was torn.
OneLedger == recorders = 0 /\ seals = 0 /\ ~ torn

Leaves(t, a) == pc[t] = "recording" /\ pc'[t] # "recording" /\ decision'[t] = a

Touched(t) ==
  pc[t] \in {"asked", "running", "posting", "touching", "resulting", "done"}
    /\ decision[t] \in {"allow", "ask"} /\ Touches(t)

\* Once a gate has let a classified artifact through, or asked about one, no gate
\* of the session, however the two overlap, lets data leave under an enforcement
\* posture (_session_lock(), and forbid-tainted-egress).
NoEgressAfterRead ==
  [][ \A t \in Calls :
        Leaves(t, "allow") /\ tool[t].egress /\ Enforced /\ OneLedger
          => \A u \in Calls \ {t} : ~ Touched(u) ]_vars

\* The classified artifacts that results in the ledger name are all in the state
\* the next gate decides on, also when the gate of that call was killed and left
\* no record of it (rebuild(), state_for()).
ResultsAreSeen ==
  [][ \A t \in Calls :
        pc[t] = "waiting" /\ pc'[t] = "deciding" /\ ~ torn
          => \A i \in DOMAIN ledger : ledger[i].op \in {"tool.result", "artifact.derive"}
               => \A r \in ledger[i].refs :
                    IsClassified(r.labels) => r.id \in view'[t].sources ]_vars

\* Under steer the operator is asked about an artifact once, also when the calls
\* that open it come together (classified-first-touch).
AskedOnce ==
  setting.posture = "steer" /\ OneLedger =>
    \A t, u \in Calls :
      t # u /\ Touched(t) /\ Touched(u) /\ decision[t] = "ask" /\ decision[u] = "ask"
        => Worst(t) # Worst(u)

\* Under an enforcement posture a gate lets nothing classified through once the
\* threshold's number of distinct artifacts have been decided about, also when the
\* calls come together (forbid-accumulation-threshold).
AccumulationStops ==
  [][ \A t \in Calls :
        (Leaves(t, "allow") \/ Leaves(t, "ask")) /\ Touches(t) /\ Enforced /\ OneLedger
          => Cardinality({Worst(u) : u \in {u \in Calls \ {t} : Touched(u)}})
               < setting.limit ]_vars

\* PostToolUse answers "did the approved action actually run" (hook_post.py:1): when
\* it has run to its end on a ledger that takes records, the result is there.
ResultsRecorded ==
  [][ \A t \in Calls :
        pc[t] = "resulting" /\ pc'[t] = "done" /\ UNCHANGED deaths /\ ~ torn
          => \E i \in DOMAIN ledger' :
               ledger'[i].call = t /\ ledger'[i].outcome = "none" ]_vars

\* Every decision is in the ledger before the host has it (decide()).
DecisionsRecorded ==
  [][ \A t \in Calls :
        /\ Leaves(t, decision[t]) /\ decision[t] # "none"
        => \E i \in DOMAIN ledger' : ledger'[i].call = t ]_vars
=============================================================================

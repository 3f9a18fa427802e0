------------------------------- MODULE Turns -------------------------------
(***************************************************************************)
(* The end of a turn: turn_stop() reads what the hooks recorded of the     *)
(* session's tool calls and appends one tool.reconcile record, with the    *)
(* findings of ledger/reconcile.py, which alerts.py then classifies.       *)
(*                                                                         *)
(* The gate opens a call with a dispatch record, whatever it decides, and  *)
(* hook_post closes it with a result record under the same id.  A call     *)
(* without a tool_use_id gets one id per session and kind from the gate and *)
(* none from hook_post.  A failed call is recorded by tool_failed(), which *)
(* names no action instance; a result the installed hook_post could not    *)
(* record (see Custody) leaves only the record of that gap.  Any append    *)
(* may be lost.                                                            *)
(***************************************************************************)
EXTENDS Sequences, Integers

CONSTANTS
  Calls,     \* tool calls
  Named,     \* the calls the host gives a tool_use_id
  Own,       \* the calls of the session whose turn ends; the rest are another's
  Tool,      \* the tool of each call
  MaxStops   \* bound: ends of the turn

VARIABLES
  imported,  \* hook_post was imported, and record_result() is whole
  segment,   \* the live segment of the ledger
  call,      \* how far each call is
  stop,      \* what a turn_stop() under way has loaded
  stops,     \* turns ended so far
  notice     \* ghost: the last tool.reconcile record, with what it was made from

turnvars == <<imported, segment, call, stop, stops, notice>>

Gate == "stop-guessing/hook_gate"
Post == "stop-guessing/hook_post"
SessionOf(c) == IF c \in Own THEN "own" ELSE "other"
NoId == << >>
NoStop == [under |-> FALSE]

Init ==
  /\ imported \in BOOLEAN
  /\ segment = << >> /\ call = [c \in Calls |-> "none"]
  /\ stop = NoStop /\ stops = 0 /\ notice = NoStop

\* A record of an action instance; its seq is its position in the chain
Instance_(c, phase, actor, id) ==
  [session |-> SessionOf(c), id |-> id, phase |-> phase, actor |-> actor,
   tool |-> Tool[c]]
Plain == [session |-> "own", id |-> NoId, phase |-> "none", actor |-> Post, tool |-> ""]

\* Appended, or lost on the way
Append_(rec) == segment' \in {segment, Append(segment, rec)}

\* The gate decides and opens the pair; only an allowed call runs
Dispatch(c) ==
  /\ call[c] = "none"
  /\ \E next \in {"running", "denied"} : call' = [call EXCEPT ![c] = next]
  /\ Append_(Instance_(c, "dispatch", Gate,
                       IF c \in Named THEN <<c>> ELSE <<"sg", SessionOf(c), Tool[c]>>))
  /\ UNCHANGED <<imported, stop, stops, notice>>

\* PostToolUse closes the pair, or notes that it could not
Result(c) ==
  /\ call[c] = "running" /\ call' = [call EXCEPT ![c] = "returned"]
  /\ Append_(IF imported THEN Instance_(c, "result", Post, IF c \in Named THEN <<c>> ELSE NoId)
             ELSE Plain)
  /\ UNCHANGED <<imported, stop, stops, notice>>

\* PostToolUseFailure leaves it open: its record has no action instance
Failure(c) ==
  /\ call[c] = "running" /\ call' = [call EXCEPT ![c] = "failed"]
  /\ Append_(Plain)
  /\ UNCHANGED <<imported, stop, stops, notice>>

\* An operator seals the segment
Rotate == /\ segment # << >> /\ segment' = << >> /\ UNCHANGED <<imported, call, stop, stops, notice>>

----------------------------------------------------------------------------
(* turn_stop() *)

\* The session's action instances in what was loaded
Instances(log, phase) ==
  {[seq |-> i, actor |-> log[i].actor, action |-> log[i].tool, nonce |-> log[i].id] :
     i \in {j \in DOMAIN log :
              log[j].session = "own" /\ log[j].id # NoId /\ log[j].phase = phase}}

\* reconcile(): reports are looked up by sequence number
Findings(dispatches, results) ==
  LET seqs == {d.seq : d \in dispatches}
      at(r) == CHOOSE d \in dispatches : d.seq = r.seq
      matched == {r \in results : r.seq \in seqs}
  IN  {<<"never dispatched", r.seq>> : r \in results \ matched}
        \cup {<<"attribution", r.seq>> : r \in {q \in matched : q.actor # at(q).actor}}
        \cup {<<"action", r.seq>> : r \in {q \in matched : q.action # at(q).action}}
        \cup {<<"nonce", r.seq>> : r \in {q \in matched : q.nonce # at(q).nonce}}
        \cup {<<"unreported", s>> : s \in seqs \ {r.seq : r \in results}}

UnclosedByTool(dispatches, results) ==  \* mutant: pairs by the tool's name
  {d.nonce : d \in {e \in dispatches : \A r \in results : r.action # e.action}}

\* The two lists are subtracted by id
Unclosed(dispatches, results) ==
  {d.nonce : d \in dispatches} \ {r.nonce : r \in results}

\* What alerts.classify() makes of an op and its severity
WakeHuman == {"reconciliation-failed", "recorder.selfcheck", "custody.declassify"}
WakeOperator == {"authorization-refused", "artifact.egress", "custody.alteration"}
Routine ==
  {"session.open", "session.close", "prompt.submit", "tool.result", "artifact.read",
   "artifact.write", "artifact.derive", "agent.merge", "custody.checkpoint", "ledger.seal"}
Wakes(op, severity) ==
  IF op \in WakeHuman \/ (severity = "critical" /\ op \notin WakeOperator) THEN "human"
  ELSE IF op \in Routine THEN "nobody" ELSE "operator"

\* The severity of a reconciliation
Severity(dispatches, results) ==
  IF Findings(dispatches, results) # {} THEN "critical"
  ELSE IF dispatches \cup results # {} THEN "info"
  ELSE "warning"

\* The ledger is loaded ...
LoadTurn ==
  /\ stop = NoStop /\ stops < MaxStops /\ stops' = stops + 1
  /\ stop' = [under |-> TRUE, log |-> segment, calls |-> call]
  /\ UNCHANGED <<imported, segment, call, notice>>

\* ... and the record appended, whatever was appended in between
Reconcile ==
  /\ stop # NoStop /\ stop' = NoStop
  /\ LET dispatches == Instances(stop.log, "dispatch")
         results == Instances(stop.log, "result")
         severity == Severity(dispatches, results)
     IN  notice' = [under |-> TRUE, unclosed |-> Unclosed(dispatches, results),
                    severity |-> severity, wakes |-> Wakes("tool.reconcile", severity),
                    log |-> stop.log, calls |-> stop.calls]
  /\ Append_(Plain)
  /\ UNCHANGED <<imported, call, stops>>

Next ==
  \/ \E c \in Calls : Dispatch(c) \/ Result(c) \/ Failure(c)
  \/ Rotate \/ LoadTurn \/ Reconcile

Spec == Init /\ [][Next]_turnvars

----------------------------------------------------------------------------
(* Properties *)

Holds(log, c, phase) ==
  \E i \in DOMAIN log : log[i].id = <<c>> /\ log[i].phase = phase /\ log[i].session = "own"

\* Whatever is lost, sealed away or runs meanwhile, what a Stop names unclosed of
\* its session's calls is what the gate opened and hook_post never closed: every
\* call still running, denied or failed whose dispatch it can read, no call whose
\* result it can read, and nothing of another session; and it wakes a human
UnclosedIsNamed ==
  notice.under =>
    /\ \A c \in Own \cap Named :
         /\ <<c>> \in notice.unclosed <=>
              Holds(notice.log, c, "dispatch") /\ ~Holds(notice.log, c, "result")
         /\ /\ notice.calls[c] \in {"running", "denied", "failed"}
            /\ Holds(notice.log, c, "dispatch")
            => <<c>> \in notice.unclosed
    /\ \A c \in Calls \ Own : <<c>> \notin notice.unclosed
    /\ notice.unclosed # {} => notice.wakes = "human"
=============================================================================

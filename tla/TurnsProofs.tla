---------------------------- MODULE TurnsProofs ----------------------------
(***************************************************************************)
(* What a Stop says of its turn is right, and wakes a human whenever there *)
(* is anything to say: proved for any calls of any sessions, any losses    *)
(* and any number of turns.                                                *)
(***************************************************************************)
EXTENDS Turns, TLAPS

Tools == {Tool[c] : c \in Calls} \cup {""}
Ids ==
  {NoId} \cup {<<c>> : c \in Calls}
    \cup {<<"sg", s, t>> : s \in {"own", "other"}, t \in Tools}
Records ==
  [session : {"own", "other"}, id : Ids, phase : {"dispatch", "result", "none"},
   actor : {Gate, Post}, tool : Tools]

\* A record whose id is a call's is of that call, in its session; and a result is of
\* a call that has returned.
Honest(rec, calls) ==
  \A c \in Calls : rec.id = <<c>> =>
    /\ rec.session = SessionOf(c)
    /\ rec.phase = "result" => calls[c] = "returned"

HonestLog(log, calls) ==
  /\ log \in Seq(Records)
  /\ \A i \in DOMAIN log : Honest(log[i], calls)

\* What a notice was made from is honest, and it says what the two lists say.
NoticeInv ==
  notice.under =>
    /\ HonestLog(notice.log, notice.calls)
    /\ notice.unclosed = Unclosed(Instances(notice.log, "dispatch"),
                                  Instances(notice.log, "result"))
    /\ notice.severity = Severity(Instances(notice.log, "dispatch"),
                                  Instances(notice.log, "result"))
    /\ notice.wakes = Wakes("tool.reconcile", notice.severity)

TurnsInv ==
  /\ call \in [Calls -> {"none", "running", "denied", "returned", "failed"}]
  /\ HonestLog(segment, call)
  /\ stop = NoStop \/ (stop.under /\ HonestLog(stop.log, stop.calls))
  /\ NoticeInv

-----------------------------------------------------------------------------
\* The id the gate makes up is no call's, nor is a missing one.
LEMMA IdsApart ==
  \A c, s, t : << >> # <<c>> /\ <<"sg", s, t>> # <<c>>
<1> SUFFICES ASSUME NEW c, NEW s, NEW t PROVE << >> # <<c>> /\ <<"sg", s, t>> # <<c>>
  OBVIOUS
<1>1. Len(<<"sg", s, t>>) = 3 /\ Len(<<c>>) = 1 /\ Len(<< >>) = 0
  OBVIOUS
<1> QED BY <1>1

\* What is appended, or lost, keeps the log honest.
LEMMA AppendHonest ==
  ASSUME NEW log, NEW calls, HonestLog(log, calls), NEW rec \in Records, Honest(rec, calls),
         NEW new \in {log, Append(log, rec)}
  PROVE  HonestLog(new, calls)
<1>1. CASE new = log
  BY <1>1
<1>2. CASE new = Append(log, rec)
  BY <1>2 DEF HonestLog
<1> QED BY <1>1, <1>2

\* A record without an action instance says nothing of any call.
LEMMA PlainHonest == Plain \in Records /\ \A calls : Honest(Plain, calls)
BY IdsApart DEF Plain, Records, Ids, NoId, Tools, Post, Honest

\* What the gate and hook_post write of a call is well formed and honest.
LEMMA InstanceHonest ==
  ASSUME NEW c \in Calls, NEW calls, NEW phase \in {"dispatch", "result"},
         NEW actor \in {Gate, Post},
         NEW id \in {<<c>>, NoId, <<"sg", SessionOf(c), Tool[c]>>},
         phase = "result" => calls[c] = "returned"
  PROVE  /\ Instance_(c, phase, actor, id) \in Records
         /\ Honest(Instance_(c, phase, actor, id), calls)
<1>1. SessionOf(c) \in {"own", "other"} /\ Tool[c] \in Tools
  BY DEF SessionOf, Tools
<1>2. id \in Ids
  BY <1>1 DEF Ids
<1>3. Instance_(c, phase, actor, id) \in Records
  BY <1>1, <1>2 DEF Instance_, Records
<1>4. ASSUME NEW d \in Calls, id = <<d>> PROVE d = c
  BY <1>4, IdsApart DEF NoId
<1> QED BY <1>3, <1>4 DEF Instance_, Honest

\* A call that moves on, but not from having returned, leaves the log honest.
LEMMA CallsHonest ==
  ASSUME NEW log, NEW calls, NEW now, HonestLog(log, calls),
         \A c \in Calls : calls[c] = "returned" => now[c] = "returned"
  PROVE  HonestLog(log, now)
BY DEF HonestLog, Honest

\* No record opens and closes at once, so a report never meets a dispatch of its own
\* sequence number: with any action instance at hand there are findings.
LEMMA AnyInstanceIsFound ==
  ASSUME NEW log,
         Instances(log, "dispatch") \cup Instances(log, "result") # {}
  PROVE  Findings(Instances(log, "dispatch"), Instances(log, "result")) # {}
<1> DEFINE dispatches == Instances(log, "dispatch")
           results == Instances(log, "result")
<1>1. \A d \in dispatches, r \in results : d.seq # r.seq
  BY DEF Instances
<1>2. CASE \E d \in dispatches : TRUE
  <2>1. PICK d \in dispatches : TRUE
    BY <1>2
  <2>2. d.seq \in {e.seq : e \in dispatches} \ {r.seq : r \in results}
    BY <1>1, <2>1
  <2>3. <<"unreported", d.seq>> \in Findings(dispatches, results)
    BY <2>2 DEF Findings
  <2> QED BY <2>3
<1>3. CASE \E r \in results : TRUE
  <2>1. PICK r \in results : TRUE
    BY <1>3
  <2>2. r \in results \ {q \in results : q.seq \in {d.seq : d \in dispatches}}
    BY <1>1, <2>1
  <2>3. <<"never dispatched", r.seq>> \in Findings(dispatches, results)
    BY <2>2 DEF Findings
  <2> QED BY <2>3
<1> QED BY <1>2, <1>3

-----------------------------------------------------------------------------
\* Every log there is, the live segment or a loaded one, is honest.
LEMMA TurnsInvHolds == Spec => []TurnsInv
<1>1. Init => TurnsInv
  <2> SUFFICES ASSUME Init PROVE TurnsInv
    OBVIOUS
  <2>1. HonestLog(segment, call)
    BY DEF Init, HonestLog
  <2> QED BY <2>1 DEF Init, TurnsInv, NoticeInv, NoStop
<1>2. TurnsInv /\ [Next]_turnvars => TurnsInv'
  <2> SUFFICES ASSUME TurnsInv, [Next]_turnvars PROVE TurnsInv'
    OBVIOUS
  <2> USE DEF TurnsInv
  <2>0. ASSUME UNCHANGED <<stop, notice>> PROVE NoticeInv' /\ (stop = NoStop \/ (stop.under /\ HonestLog(stop.log, stop.calls)))'
    BY <2>0 DEF NoticeInv
  <2>1. ASSUME NEW c \in Calls, Dispatch(c) PROVE TurnsInv'
    <3> DEFINE rec == Instance_(c, "dispatch", Gate,
                        IF c \in Named THEN <<c>> ELSE <<"sg", SessionOf(c), Tool[c]>>)
    <3>0. \A d \in Calls : call[d] = "returned" => call'[d] = "returned"
      BY <2>1 DEF Dispatch
    <3>1. HonestLog(segment, call')
      BY <3>0, CallsHonest
    <3>2. rec \in Records /\ Honest(rec, call')
      BY InstanceHonest
    <3>4. HonestLog(segment', call')
      BY <2>1, <3>1, <3>2, AppendHonest DEF Dispatch, Append_
    <3>5. call' \in [Calls -> {"none", "running", "denied", "returned", "failed"}]
      BY <2>1 DEF Dispatch
    <3> QED BY <2>0, <2>1, <3>4, <3>5 DEF Dispatch
  <2>2. ASSUME NEW c \in Calls, Result(c) PROVE TurnsInv'
    <3> DEFINE inst == Instance_(c, "result", Post, IF c \in Named THEN <<c>> ELSE NoId)
               rec == IF imported THEN inst ELSE Plain
    <3>0. /\ \A d \in Calls : call[d] = "returned" => call'[d] = "returned"
          /\ call'[c] = "returned"
      BY <2>2 DEF Result
    <3>1. HonestLog(segment, call') /\ call'[c] = "returned"
      BY <3>0, CallsHonest
    <3>2. inst \in Records /\ Honest(inst, call')
      BY <3>1, InstanceHonest
    <3>4. rec \in Records /\ Honest(rec, call')
      BY <3>2, PlainHonest
    <3>5. HonestLog(segment', call')
      BY <2>2, <3>1, <3>4, AppendHonest DEF Result, Append_
    <3>6. call' \in [Calls -> {"none", "running", "denied", "returned", "failed"}]
      BY <2>2 DEF Result
    <3> QED BY <2>0, <2>2, <3>5, <3>6 DEF Result
  <2>3. ASSUME NEW c \in Calls, Failure(c) PROVE TurnsInv'
    <3>0. \A d \in Calls : call[d] = "returned" => call'[d] = "returned"
      BY <2>3 DEF Failure
    <3>1. HonestLog(segment, call')
      BY <3>0, CallsHonest
    <3>2. HonestLog(segment', call')
      BY <2>3, <3>1, PlainHonest, AppendHonest DEF Failure, Append_
    <3>3. call' \in [Calls -> {"none", "running", "denied", "returned", "failed"}]
      BY <2>3 DEF Failure
    <3> QED BY <2>0, <2>3, <3>2, <3>3 DEF Failure
  <2>4. CASE Rotate
    <3>1. HonestLog(segment', call')
      BY <2>4 DEF Rotate, HonestLog
    <3> QED BY <2>0, <2>4, <3>1 DEF Rotate
  <2>5. CASE LoadTurn
    BY <2>5 DEF LoadTurn, NoticeInv
  <2>6. CASE Reconcile
    <3>1. HonestLog(segment', call')
      BY <2>6, PlainHonest, AppendHonest DEF Reconcile, Append_
    <3>2. NoticeInv'
      BY <2>6 DEF Reconcile, NoticeInv
    <3> QED BY <2>6, <3>1, <3>2 DEF Reconcile
  <2>7. CASE UNCHANGED turnvars
    BY <2>0, <2>7 DEF turnvars
  <2> QED BY <2>1, <2>2, <2>3, <2>4, <2>5, <2>6, <2>7 DEF Next
<1> QED BY <1>1, <1>2, PTL DEF Spec

\* The session's calls are calls.
OwnAreCalls == Own \subseteq Calls

\* A Stop names every call of its session that it can read a dispatch and no result
\* of, no other, and nothing of another session; and then a human is woken
\* (turn_stop(), reconcile(), alerts.classify()).
THEOREM AlwaysUnclosedIsNamed == OwnAreCalls => (Spec => []UnclosedIsNamed)
<1> SUFFICES ASSUME OwnAreCalls PROVE Spec => []UnclosedIsNamed
  OBVIOUS
<1>1. TurnsInv => UnclosedIsNamed
  <2> SUFFICES ASSUME HonestLog(notice.log, notice.calls), notice.under, NoticeInv
               PROVE  UnclosedIsNamed
    BY DEF TurnsInv, NoticeInv, UnclosedIsNamed
  <2> DEFINE log == notice.log
             dispatches == Instances(log, "dispatch")
             results == Instances(log, "result")
  <2>1. notice.unclosed = {d.nonce : d \in dispatches} \ {r.nonce : r \in results}
    BY DEF NoticeInv, Unclosed
  <2>2. ASSUME NEW c \in Calls, NEW phase
        PROVE  <<c>> \in {d.nonce : d \in Instances(log, phase)} <=> Holds(log, c, phase)
    <3>1. <<c>> # NoId
      BY IdsApart DEF NoId
    <3>2. ASSUME Holds(log, c, phase)
          PROVE  <<c>> \in {d.nonce : d \in Instances(log, phase)}
      <4>1. PICK i \in DOMAIN log :
              log[i].id = <<c>> /\ log[i].phase = phase /\ log[i].session = "own"
        BY <3>2 DEF Holds
      <4> DEFINE d == [seq |-> i, actor |-> log[i].actor, action |-> log[i].tool,
                       nonce |-> log[i].id]
      <4>2. d \in Instances(log, phase) /\ d.nonce = <<c>>
        BY <3>1, <4>1 DEF Instances
      <4> QED BY <4>2
    <3>3. ASSUME NEW d \in Instances(log, phase), d.nonce = <<c>> PROVE Holds(log, c, phase)
      BY <3>3 DEF Instances, Holds
    <3> QED BY <3>2, <3>3
  <2>3. \A c \in Calls : <<c>> \in notice.unclosed <=>
          Holds(log, c, "dispatch") /\ ~Holds(log, c, "result")
    BY <2>1, <2>2
  <2>4. ASSUME NEW c \in Calls, NEW phase, Holds(log, c, phase)
        PROVE  c \in Own /\ (phase = "result" => notice.calls[c] = "returned")
    BY <2>4 DEF HonestLog, Honest, Holds, SessionOf
  <2>5. notice.unclosed # {} => notice.wakes = "human"
    <3> SUFFICES ASSUME notice.unclosed # {} PROVE notice.wakes = "human"
      OBVIOUS
    <3>1. dispatches \cup results # {}
      BY <2>1
    <3>2. notice.severity = "critical"
      BY <3>1, AnyInstanceIsFound DEF NoticeInv, Severity
    <3> QED BY <3>2 DEF NoticeInv, Wakes, WakeOperator
  <2>6. ASSUME NEW c \in Own \cap Named, c \in Calls,
               notice.calls[c] \in {"running", "denied", "failed"}, Holds(log, c, "dispatch")
        PROVE  <<c>> \in notice.unclosed
    BY <2>3, <2>4, <2>6
  <2>7. ASSUME NEW c \in Calls \ Own PROVE <<c>> \notin notice.unclosed
    BY <2>3, <2>4
  <2> QED
    BY <2>3, <2>5, <2>6, <2>7 DEF UnclosedIsNamed, OwnAreCalls
<1> QED BY <1>1, TurnsInvHolds, PTL

\* The end of a turn is never routine: its record wakes an operator at least, and a
\* human once any action instance of the session is in what was read, paired or not
\* (a report is looked up by the sequence number of its dispatch; alerts.py, ROUTINE).
NoTurnIsQuiet ==
  notice.under =>
    /\ notice.wakes \in {"operator", "human"}
    /\ \A i \in DOMAIN notice.log :
         /\ notice.log[i].session = "own" /\ notice.log[i].id # NoId
         /\ notice.log[i].phase \in {"dispatch", "result"}
         => notice.wakes = "human"

\* Every end of a turn wakes somebody, whatever is lost or sealed away
\* (hook_lifecycle.py, alerts.py).
THEOREM NeverQuiet == Spec => []NoTurnIsQuiet
<1>1. TurnsInv => NoTurnIsQuiet
  <2> SUFFICES ASSUME notice.under, NoticeInv PROVE NoTurnIsQuiet
    BY DEF TurnsInv, NoTurnIsQuiet
  <2> DEFINE log == notice.log
             found == Instances(log, "dispatch") \cup Instances(log, "result")
  <2>1. notice.wakes \in {"operator", "human"}
    BY DEF NoticeInv, Wakes, Routine
  <2>2. ASSUME found # {} PROVE notice.wakes = "human"
    <3>1. notice.severity = "critical"
      BY <2>2, AnyInstanceIsFound DEF NoticeInv, Severity
    <3> QED BY <3>1 DEF NoticeInv, Wakes, WakeOperator
  <2>3. ASSUME NEW i \in DOMAIN log, log[i].session = "own", log[i].id # NoId,
               log[i].phase \in {"dispatch", "result"}
        PROVE  found # {}
    BY <2>3 DEF Instances
  <2> QED BY <2>1, <2>2, <2>3 DEF NoTurnIsQuiet
<1> QED BY <1>1, TurnsInvHolds, PTL
=============================================================================

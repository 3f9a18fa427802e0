------------------------------ MODULE Recorder ------------------------------
(***************************************************************************)
(* The recorder daemon and the hooks that ask it to record                 *)
(* (recorder/daemon.py, recorder/client.py).                               *)
(*                                                                         *)
(* A hook's append() pings for a daemon, sends it the event and waits for  *)
(* the answer; when there is no daemon, or no answer, it writes the event  *)
(* itself.  A request it gave up on is still in the daemon's hands.  A     *)
(* daemon takes the socket's name with exists, ping, unlink and bind, and  *)
(* drops it with close and unlink; nothing holds these steps together.     *)
(*                                                                         *)
(* What sink.record() writes is one step here, as CustodyLedger's theorems *)
(* allow: the ledger is one chain under one key or refuses the call.  The  *)
(* lock it takes without a timeout is not: a daemon may hang with it.      *)
(***************************************************************************)
EXTENDS Naturals, Sequences, FiniteSets

CONSTANTS
  Clients,      \* hook processes
  Daemons,      \* recorder processes; each is started once at most
  Isolated,     \* those that run under another uid than the hooks
  PeersVerified,\* the platform tells a daemon its peer's uid
  SlowPings,    \* a daemon may be too busy to answer a ping in time
  HookHasKey,   \* a hook finds the chain key itself (its fallback_key)
  None,
  MaxCalls,     \* bound: calls of append()
  MaxFailures   \* bound: I/O errors in a daemon's record()

CallNos == 1 .. MaxCalls

\* A hook_post event has the keys _validate_event() requires; a hook_gate
\* decision has neither known_gaps nor alterations.
Kinds == {"result", "decision"}
Complete(kind) == kind = "result"

Request == [to : Daemons, status : {"received", "recorded", "refused", "failed"},
            sent : BOOLEAN]
Answer  == [ok : BOOLEAN, tier : 0 .. 2]
Record  == [call : CallNos, via : {"daemon", "in-process"}, keyed : BOOLEAN]

ASSUME RecorderAssumption ==
  /\ Isolated \subseteq Daemons
  /\ None \notin Daemons \cup Request \cup Answer
  /\ {PeersVerified, SlowPings, HookHasKey} \subseteq BOOLEAN
  /\ {MaxCalls, MaxFailures} \subseteq Nat

VARIABLES
  path,       \* the daemon whose socket has the socket's name
  dpc,        \* where each daemon is in serve() and main()
  pc,         \* where each hook is in append()
  current,    \* the number of its call
  tier,       \* the isolation tier it found
  kind,       \* of each call, the kind of its event
  request,    \* of each call, what the daemon has made of it
  answer,     \* of each call, the Appended it returned
  ledger,
  writing,    \* the call whose handler has the ledger's lock; 0 if none has
  calls, failures,
  contested   \* two daemons were at the socket's name at once

daemonVars == <<path, dpc, contested>>
clientVars == <<pc, current, tier, kind, answer, calls>>
vars == <<daemonVars, clientVars, request, ledger, failures, writing>>

DaemonStates == {"off", "pinging", "unlinking", "binding", "bound", "serving",
                 "closing", "gone"}

TypeOK ==
  /\ path \in Daemons \cup {None}
  /\ dpc \in [Daemons -> DaemonStates]
  /\ pc \in [Clients -> {"idle", "tier", "asking", "waiting", "direct"}]
  /\ current \in [Clients -> 0 .. MaxCalls]
  /\ tier \in [Clients -> 0 .. 2]
  /\ kind \in [CallNos -> Kinds]
  /\ request \in [CallNos -> Request \cup {None}]
  /\ answer \in [CallNos -> Answer \cup {None}]
  /\ ledger \in Seq(Record)
  /\ calls \in 0 .. MaxCalls /\ failures \in 0 .. MaxFailures
  /\ writing \in 0 .. MaxCalls
  /\ contested \in BOOLEAN
  \* a hook that waits has asked, and no call ends twice
  /\ \A c \in Clients :
       /\ pc[c] # "idle" => answer[current[c]] = None
       /\ pc[c] = "waiting" => request[current[c]] # None

Init ==
  /\ path = None
  /\ dpc = [d \in Daemons |-> "off"]
  /\ pc = [c \in Clients |-> "idle"]
  /\ current = [c \in Clients |-> 0]
  /\ tier = [c \in Clients |-> 0]
  /\ kind = [n \in CallNos |-> "result"]
  /\ request = [n \in CallNos |-> None]
  /\ answer = [n \in CallNos |-> None]
  /\ ledger = << >>
  /\ calls = 0 /\ failures = 0 /\ writing = 0
  /\ contested = FALSE

Serving(d) == dpc[d] = "serving"
Listening  == path # None /\ Serving(path)

\* _peer_allowed(): the daemon's own uid and root.
Admits(d) == d \notin Isolated \/ ~ PeersVerified

\* sink.record() takes an entry under the ledger's one key, or under none.
Accepts(keyed) == \A i \in DOMAIN ledger : ledger[i].keyed = keyed

-----------------------------------------------------------------------------
(* client.append() *)

Append_(c, k) ==
  /\ pc[c] = "idle"
  /\ calls < MaxCalls
  /\ calls' = calls + 1
  /\ current' = [current EXCEPT ![c] = calls + 1]
  /\ kind' = [kind EXCEPT ![calls + 1] = k]
  /\ pc' = [pc EXCEPT ![c] = "tier"]
  /\ UNCHANGED <<daemonVars, tier, answer, request, ledger, failures, writing>>

\* isolation_tier(): a daemon that answers the ping and admits the hook.
FindDaemon(c) ==
  /\ pc[c] = "tier"
  /\ Listening /\ Admits(path)
  /\ tier' = [tier EXCEPT ![c] = IF path \in Isolated THEN 2 ELSE 1]
  /\ pc' = [pc EXCEPT ![c] = "asking"]
  /\ UNCHANGED <<daemonVars, current, kind, answer, calls, request, ledger, failures, writing>>

\* None is there, it does not admit the hook, or it is slower than the ping's
\* timeout.
FindNone(c) ==
  /\ pc[c] = "tier"
  /\ SlowPings \/ ~ Listening \/ ~ Admits(path)
  /\ tier' = [tier EXCEPT ![c] = 0]
  /\ pc' = [pc EXCEPT ![c] = "direct"]
  /\ UNCHANGED <<daemonVars, current, kind, answer, calls, request, ledger, failures, writing>>

\* Mutant: a failed sendall() goes unnoticed.
SendUnnoticed(c) ==
  /\ pc[c] = "asking"
  /\ pc' = [pc EXCEPT ![c] = "waiting"]
  /\ UNCHANGED <<daemonVars, current, tier, kind, answer, calls, request, ledger, failures, writing>>

\* _request(): connect (retried while it is refused) and send.
Send(c) ==
  /\ pc[c] = "asking"
  /\ Listening
  /\ request' = [request EXCEPT ![current[c]] =
                   [to |-> path, status |-> "received", sent |-> FALSE]]
  /\ pc' = [pc EXCEPT ![c] = "waiting"]
  /\ UNCHANGED <<daemonVars, current, tier, kind, answer, calls, ledger, failures, writing>>

CannotSend(c) ==
  /\ pc[c] = "asking"
  /\ ~ Listening
  /\ pc' = [pc EXCEPT ![c] = "direct"]
  /\ UNCHANGED <<daemonVars, current, tier, kind, answer, calls, request, ledger, failures, writing>>

\* append() is over, and with it what it knew.
Return(c) ==
  /\ pc' = [pc EXCEPT ![c] = "idle"]
  /\ current' = [current EXCEPT ![c] = 0]
  /\ tier' = [tier EXCEPT ![c] = 0]

EndCall(c, ok, t) ==
  /\ answer' = [answer EXCEPT ![current[c]] = [ok |-> ok, tier |-> t]]
  /\ Return(c)

\* Mutant: an error is the end of the call, as a refusal is.
ReceiveErrorAsLoss(c) ==
  LET r == request[current[c]]
  IN  /\ pc[c] = "waiting"
      /\ r.sent
      /\ EndCall(c, r.status = "recorded", tier[c])
      /\ UNCHANGED <<daemonVars, kind, calls, request, ledger, failures, writing>>

\* The answer: ok ends the call, and so does a refusal; an error does not.
Receive(c) ==
  LET r == request[current[c]]
  IN  /\ pc[c] = "waiting"
      /\ r.sent
      /\ \/ r.status = "recorded" /\ EndCall(c, TRUE, tier[c])
         \/ r.status = "refused" /\ EndCall(c, FALSE, tier[c])
         \/ /\ r.status = "failed"
            /\ pc' = [pc EXCEPT ![c] = "direct"]
            /\ UNCHANGED <<current, tier, answer>>
      /\ UNCHANGED <<daemonVars, kind, calls, request, ledger, failures, writing>>

\* Mutant: a request that timed out is sent again.
GiveUpAndResend(c) ==
  /\ pc[c] = "waiting"
  /\ pc' = [pc EXCEPT ![c] = "asking"]
  /\ UNCHANGED <<daemonVars, current, tier, kind, answer, calls, request, ledger, failures, writing>>

\* Mutant: the socket has no timeout; only a daemon's end is noticed.
GiveUpOnEOF(c) ==
  /\ pc[c] = "waiting"
  /\ dpc[request[current[c]].to] = "gone"
  /\ pc' = [pc EXCEPT ![c] = "direct"]
  /\ UNCHANGED <<daemonVars, current, tier, kind, answer, calls, request, ledger, failures, writing>>

\* TIMEOUT seconds without an answer, or the connection's end without one.
GiveUp(c) ==
  /\ pc[c] = "waiting"
  /\ pc' = [pc EXCEPT ![c] = "direct"]
  /\ UNCHANGED <<daemonVars, current, tier, kind, answer, calls, request, ledger, failures, writing>>

\* _direct(): the hook records the event itself, or is refused by the sink.  It
\* waits for the lock as long as a handler has it.
Direct(c) ==
  /\ pc[c] = "direct"
  /\ writing = 0
  /\ IF Accepts(HookHasKey)
       THEN /\ ledger' = Append(ledger, [call |-> current[c], via |-> "in-process",
                                         keyed |-> HookHasKey])
            /\ EndCall(c, TRUE, 0)
       ELSE EndCall(c, FALSE, 0) /\ UNCHANGED ledger
  /\ UNCHANGED <<daemonVars, kind, calls, request, failures, writing>>

\* The host kills a hook that is late, or an exception ends it.
Die(c) ==
  /\ pc[c] # "idle"
  /\ Return(c)
  /\ UNCHANGED <<daemonVars, kind, answer, calls, request, ledger, failures, writing>>

-----------------------------------------------------------------------------
(* _Handler: a thread of its own for each request, until its process ends. *)

InHand(n) ==
  /\ request[n] # None
  /\ request[n].status = "received"
  /\ dpc[request[n].to] \in {"serving", "closing"}

\* Refused at the boundary: the peer's uid, or _validate_event().
Turned(n) == ~ Admits(request[n].to) \/ ~ Complete(kind[n])

Status(n, s) == request' = [request EXCEPT ![n].status = s]
ByDaemon(n)  == Append(ledger, [call |-> n, via |-> "daemon", keyed |-> TRUE])

HandlerTurnsAway(n) ==
  /\ InHand(n)
  /\ Turned(n)
  /\ Status(n, "refused")
  /\ UNCHANGED <<daemonVars, clientVars, ledger, failures, writing>>

\* record() has the ledger's lock: LOCK_EX, with no timeout.
HandlerLocks(n) ==
  /\ InHand(n)
  /\ ~ Turned(n)
  /\ writing = 0
  /\ writing' = n
  /\ UNCHANGED <<daemonVars, clientVars, request, ledger, failures>>

\* record() is over, and with it the lock.
Unlock == writing' = 0

\* op_append(): record() returns the entry, or refuses with LedgerError.
HandlerRecords(n) ==
  /\ InHand(n) /\ writing = n
  /\ IF Accepts(TRUE)
       THEN ledger' = ByDaemon(n) /\ Status(n, "recorded")
       ELSE Status(n, "refused") /\ UNCHANGED ledger
  /\ Unlock
  /\ UNCHANGED <<daemonVars, clientVars, failures>>

\* Mutant: the handler tries again after an I/O error.
HandlerFailsAndRetries(n) ==
  /\ InHand(n) /\ writing = n
  /\ Accepts(TRUE)
  /\ failures < MaxFailures
  /\ failures' = failures + 1
  /\ ledger' \in {ledger, ByDaemon(n)}
  /\ Unlock
  /\ UNCHANGED <<daemonVars, clientVars, request>>

\* record() raises OSError, before its line is written or after (fsync).
HandlerFails(n) ==
  /\ InHand(n) /\ writing = n
  /\ Accepts(TRUE)
  /\ failures < MaxFailures
  /\ failures' = failures + 1
  /\ ledger' \in {ledger, ByDaemon(n)}
  /\ Status(n, "failed") /\ Unlock
  /\ UNCHANGED <<daemonVars, clientVars>>

Reply(n) ==
  /\ request[n] # None
  /\ request[n].status # "received"
  /\ dpc[request[n].to] \in {"serving", "closing"}
  /\ ~ request[n].sent
  /\ request' = [request EXCEPT ![n].sent = TRUE]
  /\ UNCHANGED <<daemonVars, clientVars, ledger, failures, writing>>

-----------------------------------------------------------------------------
(* serve() and main() *)

Goto(d, where) == dpc' = [dpc EXCEPT ![d] = where]
NotDaemon == UNCHANGED <<clientVars, request, ledger, failures, writing>>

\* Its process is over: the kernel drops the lock its handler had.
Dies(d) ==
  /\ Goto(d, "gone")
  /\ writing' = IF writing # 0 /\ request[writing].to = d THEN 0 ELSE writing
  /\ UNCHANGED <<clientVars, request, ledger, failures>>

\* Another daemon is between two of its own steps at the socket's name.
Crowded(d) ==
  \E o \in Daemons \ {d} : dpc[o] \in DaemonStates \ {"off", "serving", "gone"}

\* Mutant: a socket that is there is taken for a stale one.
StartUnasked(d) ==
  /\ dpc[d] = "off"
  /\ Goto(d, IF path = None THEN "binding" ELSE "unlinking")
  /\ contested' = (contested \/ Crowded(d))
  /\ UNCHANGED path
  /\ NotDaemon

\* if sock.exists():
Start(d) ==
  /\ dpc[d] = "off"
  /\ Goto(d, IF path = None THEN "binding" ELSE "pinging")
  /\ contested' = (contested \/ Crowded(d))
  /\ UNCHANGED path
  /\ NotDaemon

\* "a recorder is already listening"
MeetOther(d) ==
  /\ dpc[d] = "pinging"
  /\ Listening
  /\ Goto(d, "gone")
  /\ UNCHANGED <<path, contested>>
  /\ NotDaemon

\* Nobody answers, within the ping's one second.
MeetNone(d) ==
  /\ dpc[d] = "pinging"
  /\ SlowPings \/ ~ Listening
  /\ Goto(d, "unlinking")
  /\ contested' = (contested \/ Listening)
  /\ UNCHANGED path
  /\ NotDaemon

\* sock.unlink() raises FileNotFoundError when the name is gone by now.
Unlink(d) ==
  /\ dpc[d] = "unlinking"
  /\ Goto(d, IF path = None THEN "gone" ELSE "binding")
  /\ path' = None
  /\ UNCHANGED contested
  /\ NotDaemon

\* bind() fails with EADDRINUSE when the name is taken by now.
Bind(d) ==
  /\ dpc[d] = "binding"
  /\ Goto(d, IF path = None THEN "bound" ELSE "gone")
  /\ path' = IF path = None THEN d ELSE path
  /\ UNCHANGED contested
  /\ NotDaemon

\* listen(), and the chmod() of whatever has the name.
Listen(d) ==
  /\ dpc[d] = "bound"
  /\ Goto(d, IF path = None THEN "gone" ELSE "serving")
  /\ UNCHANGED <<path, contested>>
  /\ NotDaemon

\* KeyboardInterrupt: server_close(), then the unlink of whatever has the name.
Close(d) ==
  /\ Serving(d)
  /\ Goto(d, "closing")
  /\ contested' = (contested \/ Crowded(d))
  /\ UNCHANGED path
  /\ NotDaemon

Leave(d) ==
  /\ dpc[d] = "closing"
  /\ Dies(d)
  /\ path' = None
  /\ UNCHANGED contested

\* Killed: its socket keeps the name.
Crash(d) ==
  /\ dpc[d] \notin {"off", "gone"}
  /\ Dies(d)
  /\ UNCHANGED <<path, contested>>

-----------------------------------------------------------------------------
ClientStep(c) ==
  \/ FindDaemon(c) \/ FindNone(c) \/ Send(c) \/ CannotSend(c)
  \/ Receive(c) \/ GiveUp(c) \/ Direct(c)

Next ==
  \/ \E c \in Clients : (\E k \in Kinds : Append_(c, k)) \/ ClientStep(c) \/ Die(c)
  \/ \E n \in CallNos : \/ HandlerTurnsAway(n) \/ HandlerLocks(n) \/ HandlerRecords(n)
                        \/ HandlerFails(n) \/ Reply(n)
  \/ \E d \in Daemons : \/ Start(d) \/ MeetOther(d) \/ MeetNone(d) \/ Unlink(d)
                        \/ Bind(d) \/ Listen(d) \/ Close(d) \/ Leave(d) \/ Crash(d)

Spec == Init /\ [][Next]_vars

\* A hook's own process runs and its timers fire; a daemon may hang for ever.  Calls
\* are bounded, so a lock that is free again and again is free for good in the end;
\* without the bound this would rest on flock's waking of those who wait for it.
Fairness == \A c \in Clients : WF_vars(ClientStep(c))

FairSpec == Spec /\ Fairness

-----------------------------------------------------------------------------
(* Properties *)

Copies(n, via) == Cardinality({i \in DOMAIN ledger : ledger[i].call = n /\ ledger[i].via = via})

\* A call the daemon answered with a ref has its event in the ledger once: no
\* late handler and no fallback adds a second.
AnsweredMeansOnce ==
  \A n \in CallNos : answer[n] # None /\ answer[n].ok /\ answer[n].tier > 0
     => Copies(n, "daemon") = 1 /\ Copies(n, "in-process") = 0

\* Whatever times out, dies or fails, an event is in the ledger at most once by
\* the daemon and once by its hook: what rebuild() has to tell apart.
AtMostTwice == \A n \in CallNos : Copies(n, "daemon") <= 1 /\ Copies(n, "in-process") <= 1

\* "Falling back would launder that refusal": an event that its caller is told
\* is lost (hook_post then records it as LOST) is not in the ledger, nor will be.
LostMeansLost ==
  \A n \in CallNos : answer[n] # None /\ ~ answer[n].ok
     => Copies(n, "daemon") + Copies(n, "in-process") = 0

\* Unless two daemons were at the socket's name at once, a daemon that serves is
\* the one that hooks reach: none runs unheard, and there is one at most.
SoleRecorder == ~ contested => \A d \in Daemons : Serving(d) => path = d

\* "Single writer": never two daemons.
SingleWriter == Cardinality({d \in Daemons : Serving(d)}) <= 1

\* append() returns, or its hook dies, wherever a daemon hangs but inside record():
\* there it has the ledger's lock, and the fallback's LOCK_EX has no timeout.
AppendReturns == []<>(writing = 0) => \A c \in Clients : pc[c] # "idle" ~> pc[c] = "idle"
=============================================================================

--------------------------- MODULE RecorderProofs ---------------------------
(***************************************************************************)
(* What a hook is told of its event is true, and no event is recorded more *)
(* than once by the daemon and once by its hook: proved for any number of  *)
(* hooks, daemons and calls, any timeouts, deaths and failures.  And       *)
(* unless two daemons were at the socket's name at once, the one that      *)
(* serves is the one the hooks reach.                                      *)
(***************************************************************************)
EXTENDS Recorder, FiniteSetTheorems, TLAPS

\* Calls are numbered in order, no two hooks have the same one, and a call that has
\* not been sent has no request.
CallInv ==
  /\ \A n \in CallNos : n > calls => answer[n] = None /\ request[n] = None
  /\ \A c \in Clients : pc[c] # "idle" => current[c] \in CallNos /\ current[c] <= calls
  /\ \A c, d \in Clients : pc[c] # "idle" /\ pc[d] # "idle" /\ current[c] = current[d] => c = d
  /\ \A c \in Clients : pc[c] \in {"tier", "asking"} => request[current[c]] = None

Has(n, via) == \E i \in DOMAIN ledger : ledger[i].call = n /\ ledger[i].via = via
Recorded(n) == request[n] # None /\ request[n].status = "recorded"
Refused(n)  == request[n] # None /\ request[n].status = "refused"

\* No two records are the same process's of the same call.
Single ==
  \A i, j \in DOMAIN ledger :
    ledger[i].call = ledger[j].call /\ ledger[i].via = ledger[j].via => i = j

\* A record is the work of a handler that is done with its request, or of a hook
\* that has returned.
Traced(i) ==
  LET n == ledger[i].call
  IN  /\ ledger[i].via = "daemon" =>
           ledger[i].keyed /\ request[n] # None /\ request[n].status \in {"recorded", "failed"}
      /\ ledger[i].via = "in-process" =>
           ledger[i].keyed = HookHasKey /\ answer[n] # None /\ answer[n].ok /\ answer[n].tier = 0

\* What a handler and an answer say.
Told(n) ==
  /\ Recorded(n) => Has(n, "daemon")
  /\ answer[n] # None /\ answer[n].ok /\ answer[n].tier > 0 => Recorded(n)
  /\ answer[n] # None /\ ~ answer[n].ok /\ HookHasKey => Refused(n)

LedgerInv ==
  /\ Single
  /\ \A i \in DOMAIN ledger : Traced(i)
  /\ \A n \in CallNos : Told(n)

RecorderInv == TypeOK /\ CallInv /\ LedgerInv

-----------------------------------------------------------------------------
\* An append keeps the entries there are and adds its record as the last.
LEMMA AppendFacts ==
  ASSUME NEW log \in Seq(Record), NEW rec \in Record
  PROVE  /\ Append(log, rec) \in Seq(Record)
         /\ \A i \in DOMAIN log : i \in DOMAIN Append(log, rec) /\ Append(log, rec)[i] = log[i]
         /\ \E last \in DOMAIN Append(log, rec) :
              /\ last \notin DOMAIN log /\ Append(log, rec)[last] = rec
              /\ \A i \in DOMAIN Append(log, rec) : i \in DOMAIN log \/ i = last
<1> DEFINE last == Len(log) + 1
<1>1. last \in DOMAIN Append(log, rec) /\ last \notin DOMAIN log /\ Append(log, rec)[last] = rec
  OBVIOUS
<1>2. \A i \in DOMAIN Append(log, rec) : i \in DOMAIN log \/ i = last
  OBVIOUS
<1> QED BY <1>1, <1>2

\* What the ledger holds are records, of calls that were numbered.
LEMMA RecordTyped ==
  ASSUME TypeOK, NEW i \in DOMAIN ledger
  PROVE  ledger[i] \in Record /\ ledger[i].call \in CallNos
<1>1. ledger \in Seq(Record)
  BY DEF TypeOK
<1>2. ledger[i] \in Record
  BY <1>1
<1> QED BY <1>2 DEF Record

\* A record of what has none yet.
LEMMA LedgerGrows ==
  ASSUME TypeOK, Single, NEW rec \in Record, ~ Has(rec.call, rec.via),
         ledger' = Append(ledger, rec)
  PROVE  /\ ledger' \in Seq(Record) /\ Single'
         /\ \A i \in DOMAIN ledger' : ledger'[i] = rec \/ (i \in DOMAIN ledger /\ ledger'[i] = ledger[i])
         /\ \A n, via : Has(n, via) => Has(n, via)'
         /\ Has(rec.call, rec.via)'
<1>0. ledger \in Seq(Record)
  BY DEF TypeOK
<1>1. PICK last \in DOMAIN ledger' :
        /\ last \notin DOMAIN ledger /\ ledger'[last] = rec
        /\ \A i \in DOMAIN ledger' : i \in DOMAIN ledger \/ i = last
  BY <1>0, AppendFacts
<1>2. \A i \in DOMAIN ledger : i \in DOMAIN ledger' /\ ledger'[i] = ledger[i]
  BY <1>0, AppendFacts
<1>3. Single'
  BY <1>1, <1>2 DEF Single, Has
<1>4. \A n, via : Has(n, via) => Has(n, via)'
  BY <1>2 DEF Has
<1>5. Has(rec.call, rec.via)'
  BY <1>1 DEF Has
<1>6. ledger' \in Seq(Record)
  BY <1>0, AppendFacts
<1> QED BY <1>1, <1>2, <1>3, <1>4, <1>5, <1>6

\* Where no two entries are the same, there is one copy if there is any.
LEMMA CopiesCounted ==
  ASSUME Single, NEW n, NEW via
  PROVE  Copies(n, via) = IF Has(n, via) THEN 1 ELSE 0
<1> DEFINE S == {i \in DOMAIN ledger : ledger[i].call = n /\ ledger[i].via = via}
<1>1. CASE Has(n, via)
  <2>1. PICK i \in S : TRUE
    BY <1>1 DEF Has
  <2>2. S = {i}
    BY <2>1 DEF Single
  <2> QED BY <1>1, <2>2, FS_Singleton DEF Copies
<1>2. CASE ~ Has(n, via)
  <2>1. S = {}
    BY <1>2 DEF Has
  <2> QED BY <1>2, <2>1, FS_EmptySet DEF Copies
<1> QED BY <1>1, <1>2

\* The properties are what the invariant says of the ledger.
LEMMA InvariantTells ==
  ASSUME RecorderInv
  PROVE  /\ AnsweredMeansOnce /\ AtMostTwice
         /\ HookHasKey => LostMeansLost
<1>1. \A n \in CallNos, via \in {"daemon", "in-process"} :
        Copies(n, via) = IF Has(n, via) THEN 1 ELSE 0
  BY CopiesCounted DEF RecorderInv, LedgerInv
<1>2. AtMostTwice
  BY <1>1 DEF AtMostTwice
<1>3. ASSUME NEW n \in CallNos, answer[n] # None, answer[n].ok, answer[n].tier > 0
      PROVE  Has(n, "daemon") /\ ~ Has(n, "in-process")
  <2>1. answer[n] \in Answer
    BY <1>3 DEF RecorderInv, TypeOK
  <2>2. answer[n].tier # 0
    BY <1>3, <2>1 DEF Answer
  <2> QED BY <1>3, <2>2 DEF RecorderInv, LedgerInv, Told, Traced, Has
<1>4. AnsweredMeansOnce
  BY <1>1, <1>3 DEF AnsweredMeansOnce
<1>5. ASSUME HookHasKey, NEW n \in CallNos, answer[n] # None, ~ answer[n].ok
      PROVE  ~ Has(n, "daemon") /\ ~ Has(n, "in-process")
  BY <1>5 DEF RecorderInv, LedgerInv, Told, Traced, Refused, Has
<1>6. HookHasKey => LostMeansLost
  BY <1>1, <1>5 DEF LostMeansLost
<1> QED BY <1>2, <1>4, <1>6

-----------------------------------------------------------------------------
\* A daemon's own steps, and a handler's with the lock: nothing but the socket's name,
\* where the daemons are and who has the lock.
LEMMA DaemonStep ==
  ASSUME RecorderInv, UNCHANGED <<clientVars, request, ledger, failures>>,
         path' \in Daemons \cup {None}, dpc' \in [Daemons -> DaemonStates],
         contested' \in BOOLEAN, writing' \in 0 .. MaxCalls
  PROVE  RecorderInv'
<1>1. TypeOK'
  BY DEF RecorderInv, TypeOK, clientVars
<1>2. CallInv'
  BY DEF RecorderInv, CallInv, clientVars
<1>3. LedgerInv'
  BY DEF RecorderInv, LedgerInv, Single, Traced, Told, Recorded, Refused, Has, clientVars
<1> QED BY <1>1, <1>2, <1>3 DEF RecorderInv

\* A hook's step that leaves the ledger, the requests and the answers alone.
LEMMA ClientMove ==
  ASSUME RecorderInv, NEW c \in Clients, NEW to \in {"idle", "asking", "waiting", "direct"},
         pc[c] # "idle", pc' = [pc EXCEPT ![c] = to],
         to = "asking" => pc[c] = "tier",
         to = "waiting" => request[current[c]] # None,
         tier' \in [Clients -> 0 .. 2],
         to = "idle" => current' = [current EXCEPT ![c] = 0],
         to # "idle" => current' = current,
         UNCHANGED <<daemonVars, kind, answer, calls, request, ledger, failures, writing>>
  PROVE  RecorderInv'
<1> USE RecorderAssumption
<1>0. /\ pc'[c] = to /\ \A d \in Clients : d # c => pc'[d] = pc[d] /\ current'[d] = current[d]
      /\ to # "idle" => current'[c] = current[c]
  BY DEF RecorderInv, TypeOK
<1>1. TypeOK'
  <2>1. pc' \in [Clients -> {"idle", "tier", "asking", "waiting", "direct"}]
    BY DEF RecorderInv, TypeOK
  <2>0. current \in [Clients -> 0 .. MaxCalls] /\ 0 \in 0 .. MaxCalls
    BY DEF RecorderInv, TypeOK
  <2>2. current' \in [Clients -> 0 .. MaxCalls]
    BY <2>0
  <2>3. \A d \in Clients : /\ pc'[d] # "idle" => answer[current'[d]] = None
                           /\ pc'[d] = "waiting" => request[current'[d]] # None
    BY <1>0 DEF RecorderInv, TypeOK
  <2> QED BY <2>1, <2>2, <2>3 DEF RecorderInv, TypeOK, daemonVars
<1>2. CallInv'
  BY <1>0 DEF RecorderInv, CallInv
<1>3. LedgerInv'
  BY DEF RecorderInv, LedgerInv, Single, Traced, Told, Recorded, Refused, Has
<1> QED BY <1>1, <1>2, <1>3 DEF RecorderInv

\* A hook's call ends with an answer that is true of the ledger and its request.
LEMMA CallEnds ==
  ASSUME RecorderInv, NEW c \in Clients, NEW ok \in BOOLEAN, NEW t \in 0 .. 2,
         pc[c] # "idle", EndCall(c, ok, t),
         UNCHANGED <<daemonVars, kind, calls, request, ledger, failures, writing>>,
         ok /\ t > 0 => Recorded(current[c]),
         ~ ok /\ HookHasKey => Refused(current[c])
  PROVE  RecorderInv'
<1> USE RecorderAssumption
<1> DEFINE n == current[c]
<1>0. /\ n \in CallNos
      /\ pc'[c] = "idle" /\ \A d \in Clients : d # c => pc'[d] = pc[d] /\ current'[d] = current[d]
      /\ answer'[n] = [ok |-> ok, tier |-> t]
      /\ \A m \in CallNos : m # n => answer'[m] = answer[m]
      /\ answer[n] = None
  BY DEF RecorderInv, TypeOK, CallInv, EndCall, Return
<1>1. TypeOK'
  <2>1. /\ pc' \in [Clients -> {"idle", "tier", "asking", "waiting", "direct"}]
        /\ current' \in [Clients -> 0 .. MaxCalls] /\ tier' \in [Clients -> 0 .. 2]
    BY DEF RecorderInv, TypeOK, EndCall, Return
  <2>2. answer' \in [CallNos -> Answer \cup {None}]
    BY <1>0 DEF RecorderInv, TypeOK, EndCall, Answer
  <2>3. ASSUME NEW d \in Clients, pc'[d] # "idle"
        PROVE  answer'[current'[d]] = None /\ (pc'[d] = "waiting" => request'[current'[d]] # None)
    <3>1. d # c /\ pc[d] # "idle" /\ current'[d] = current[d] /\ pc'[d] = pc[d]
      BY <1>0, <2>3
    <3>2. current[d] # n /\ current[d] \in CallNos
      BY <3>1 DEF RecorderInv, CallInv
    <3> QED BY <1>0, <3>1, <3>2 DEF RecorderInv, TypeOK
  <2> QED BY <2>1, <2>2, <2>3 DEF RecorderInv, TypeOK, daemonVars
<1>2. CallInv'
  <2>1. \A m \in CallNos : m > calls => m # n
    BY DEF RecorderInv, TypeOK, CallInv, CallNos
  <2>2. \A m \in CallNos : m > calls => answer'[m] = None /\ request[m] = None
    BY <1>0, <2>1 DEF RecorderInv, CallInv
  <2>3. \A d \in Clients : pc'[d] # "idle" =>
          d # c /\ pc[d] = pc'[d] /\ current'[d] = current[d]
    BY <1>0
  <2> QED BY <2>2, <2>3 DEF RecorderInv, CallInv
<1>3. LedgerInv'
  <2>1. ASSUME NEW i \in DOMAIN ledger PROVE Traced(i)'
    <3>1. Traced(i) /\ ledger[i].call \in CallNos
      BY RecordTyped DEF RecorderInv, LedgerInv
    <3>2. CASE ledger[i].call = n
      BY <1>0, <3>1, <3>2 DEF Traced
    <3>3. CASE ledger[i].call # n
      BY <1>0, <3>1, <3>3 DEF Traced
    <3> QED BY <3>2, <3>3
  <2>2. ASSUME NEW m \in CallNos PROVE Told(m)'
    <3>1. CASE m = n
      BY <1>0, <3>1 DEF RecorderInv, LedgerInv, Told, Recorded, Refused, Has, Answer
    <3>2. CASE m # n
      BY <1>0, <3>2 DEF RecorderInv, LedgerInv, Told, Recorded, Refused, Has
    <3> QED BY <3>1, <3>2
  <2> QED BY <2>1, <2>2 DEF RecorderInv, LedgerInv, Single
<1> QED BY <1>1, <1>2, <1>3 DEF RecorderInv

\* A hook's append() gets a fresh number, of which nothing is known yet.
LEMMA CallStarts ==
  ASSUME RecorderInv, NEW c \in Clients, NEW k \in Kinds, Append_(c, k)
  PROVE  RecorderInv'
<1> USE RecorderAssumption
<1> DEFINE n == calls + 1
<1>0. /\ n \in CallNos /\ calls' = n /\ pc'[c] = "tier" /\ current'[c] = n
      /\ \A d \in Clients : d # c => pc'[d] = pc[d] /\ current'[d] = current[d]
      /\ answer[n] = None /\ request[n] = None
  BY DEF RecorderInv, TypeOK, CallInv, Append_, CallNos
<1>1. TypeOK'
  <2>1. /\ pc' \in [Clients -> {"idle", "tier", "asking", "waiting", "direct"}]
        /\ current' \in [Clients -> 0 .. MaxCalls] /\ kind' \in [CallNos -> Kinds]
        /\ calls' \in 0 .. MaxCalls
    BY <1>0 DEF RecorderInv, TypeOK, Append_, CallNos
  <2>2. \A d \in Clients : /\ pc'[d] # "idle" => answer[current'[d]] = None
                           /\ pc'[d] = "waiting" => request[current'[d]] # None
    BY <1>0 DEF RecorderInv, TypeOK
  <2> QED BY <2>1, <2>2 DEF RecorderInv, TypeOK, Append_, daemonVars
<1>2. CallInv'
  <2>1. \A d \in Clients : pc[d] # "idle" => current[d] # n
    BY DEF RecorderInv, CallInv, TypeOK
  <2>2. \A m \in CallNos : m > n => m > calls
    BY DEF RecorderInv, TypeOK, CallNos
  <2>3. \A d \in Clients : pc'[d] # "idle" => current'[d] \in CallNos /\ current'[d] <= n
    BY <1>0 DEF RecorderInv, CallInv, TypeOK, CallNos
  <2> QED BY <1>0, <2>1, <2>2, <2>3 DEF RecorderInv, CallInv, Append_
<1>3. LedgerInv'
  BY DEF RecorderInv, LedgerInv, Single, Traced, Told, Recorded, Refused, Has, Append_
<1> QED BY <1>1, <1>2, <1>3 DEF RecorderInv

\* record_via() reaches the daemon that the socket's name leads to.
LEMMA CallSent ==
  ASSUME RecorderInv, NEW c \in Clients, Send(c)
  PROVE  RecorderInv'
<1> USE RecorderAssumption
<1> DEFINE n == current[c]
           r == [to |-> path, status |-> "received", sent |-> FALSE]
<1>0. /\ n \in CallNos /\ n <= calls /\ request[n] = None /\ answer[n] = None
      /\ pc'[c] = "waiting" /\ \A d \in Clients : d # c => pc'[d] = pc[d]
      /\ request'[n] = r /\ \A m \in CallNos : m # n => request'[m] = request[m]
  BY DEF RecorderInv, TypeOK, CallInv, Send
<1>1. r \in Request /\ r # None
  <2>1. path \in Daemons
    BY DEF Send, Listening, RecorderInv, TypeOK
  <2>2. r \in Request
    BY <2>1 DEF Request
  <2> QED BY <2>2
<1>2. TypeOK'
  <2>1. pc' \in [Clients -> {"idle", "tier", "asking", "waiting", "direct"}]
        /\ request' \in [CallNos -> Request \cup {None}]
    BY <1>0, <1>1 DEF RecorderInv, TypeOK, Send
  <2>2. ASSUME NEW d \in Clients
        PROVE  /\ pc'[d] # "idle" => answer[current[d]] = None
               /\ pc'[d] = "waiting" => request'[current[d]] # None
    <3>1. CASE d = c
      BY <1>0, <1>1, <3>1
    <3>2. CASE d # c
      BY <1>0, <1>1, <3>2 DEF RecorderInv, TypeOK, CallInv
    <3> QED BY <3>1, <3>2
  <2> QED BY <2>1, <2>2 DEF RecorderInv, TypeOK, Send, daemonVars
<1>3. CallInv'
  <2>1. \A m \in CallNos : m > calls => request'[m] = None
    BY <1>0 DEF RecorderInv, CallInv, TypeOK, CallNos
  <2>2. \A d \in Clients : pc'[d] \in {"tier", "asking"} => request'[current[d]] = None
    <3> SUFFICES ASSUME NEW d \in Clients, pc'[d] \in {"tier", "asking"}
                 PROVE  request'[current[d]] = None
      OBVIOUS
    <3>1. d # c /\ pc[d] = pc'[d] /\ pc[c] # "idle"
      BY <1>0 DEF Send
    <3>2. current[d] # n /\ current[d] \in CallNos /\ request[current[d]] = None
      BY <3>1 DEF RecorderInv, CallInv
    <3> QED BY <1>0, <3>2
  <2> QED BY <1>0, <2>1, <2>2 DEF RecorderInv, CallInv, Send
<1>4. LedgerInv'
  <2>1. \A i \in DOMAIN ledger : Traced(i)'
    BY <1>0 DEF RecorderInv, TypeOK, LedgerInv, Traced, Record, Send
  <2>2. ASSUME NEW m \in CallNos PROVE Told(m)'
    <3>1. CASE m = n
      BY <1>0, <3>1 DEF Told, Recorded, Refused, Has, Send
    <3>2. CASE m # n
      BY <1>0, <3>2 DEF RecorderInv, LedgerInv, Told, Recorded, Refused, Has, Send
    <3> QED BY <3>1, <3>2
  <2> QED BY <2>1, <2>2 DEF RecorderInv, LedgerInv, Single, Send
<1> QED BY <1>2, <1>3, <1>4 DEF RecorderInv

\* The hook records its event itself, and returns.
LEMMA CallRecords ==
  ASSUME RecorderInv, NEW c \in Clients, Direct(c), Accepts(HookHasKey)
  PROVE  RecorderInv'
<1> USE RecorderAssumption
<1> DEFINE n == current[c]
           rec == [call |-> n, via |-> "in-process", keyed |-> HookHasKey]
<1>0. /\ n \in CallNos /\ n <= calls /\ answer[n] = None
      /\ pc'[c] = "idle" /\ \A d \in Clients : d # c => pc'[d] = pc[d] /\ current'[d] = current[d]
      /\ answer'[n] = [ok |-> TRUE, tier |-> 0]
      /\ \A m \in CallNos : m # n => answer'[m] = answer[m]
      /\ ledger' = Append(ledger, rec)
  BY DEF RecorderInv, TypeOK, CallInv, Direct, EndCall, Return
<1>7. EndCall(c, TRUE, 0) /\ UNCHANGED <<daemonVars, kind, calls, request, failures, writing>>
  BY DEF Direct
<1>1. rec \in Record
  BY <1>0 DEF Record
<1>2. ~ Has(n, "in-process")
  BY <1>0 DEF RecorderInv, LedgerInv, Traced, Has
<1>3. /\ ledger' \in Seq(Record) /\ Single'
      /\ \A i \in DOMAIN ledger' : ledger'[i] = rec \/ (i \in DOMAIN ledger /\ ledger'[i] = ledger[i])
      /\ \A m, via : Has(m, via) => Has(m, via)'
  BY <1>0, <1>1, <1>2, LedgerGrows DEF RecorderInv, LedgerInv
<1>4. TypeOK'
  <2>1. /\ pc' \in [Clients -> {"idle", "tier", "asking", "waiting", "direct"}]
        /\ current' \in [Clients -> 0 .. MaxCalls] /\ tier' \in [Clients -> 0 .. 2]
    BY <1>7 DEF RecorderInv, TypeOK, EndCall, Return
  <2>2. answer' \in [CallNos -> Answer \cup {None}]
    BY <1>0, <1>7 DEF RecorderInv, TypeOK, EndCall, Answer
  <2>3. ASSUME NEW d \in Clients, pc'[d] # "idle"
        PROVE  answer'[current'[d]] = None /\ (pc'[d] = "waiting" => request'[current'[d]] # None)
    <3>1. d # c /\ pc[d] # "idle" /\ current'[d] = current[d] /\ pc'[d] = pc[d] /\ pc[c] # "idle"
      BY <1>0, <2>3 DEF Direct
    <3>2. current[d] # n /\ current[d] \in CallNos
      BY <3>1 DEF RecorderInv, CallInv
    <3> QED BY <1>0, <3>1, <3>2 DEF RecorderInv, TypeOK, Direct
  <2> QED BY <1>3, <2>1, <2>2, <2>3 DEF RecorderInv, TypeOK, Direct, daemonVars
<1>5. CallInv'
  <2>1. \A m \in CallNos : m > calls => m # n
    BY <1>0 DEF RecorderInv, TypeOK, CallNos
  <2>2. \A m \in CallNos : m > calls => answer'[m] = None /\ request[m] = None
    BY <1>0, <2>1 DEF RecorderInv, CallInv
  <2>3. \A d \in Clients : pc'[d] # "idle" =>
          d # c /\ pc[d] = pc'[d] /\ current'[d] = current[d]
    BY <1>0
  <2> QED BY <2>2, <2>3 DEF RecorderInv, CallInv, Direct
<1>6. LedgerInv'
  <2>1. ASSUME NEW i \in DOMAIN ledger' PROVE Traced(i)'
    <3>1. CASE ledger'[i] = rec
      <4>1. answer'[n] \in Answer
        BY <1>0 DEF Answer
      <4>2. answer'[n] # None
        BY <4>1
      <4> QED BY <1>0, <3>1, <4>2 DEF Traced
    <3>2. CASE i \in DOMAIN ledger /\ ledger'[i] = ledger[i]
      <4>1. Traced(i) /\ ledger[i].call \in CallNos
        BY <3>2, RecordTyped DEF RecorderInv, LedgerInv
      <4>2. CASE ledger[i].call = n
        BY <1>0, <3>2, <4>1, <4>2 DEF Traced, Direct
      <4>3. CASE ledger[i].call # n
        BY <1>0, <3>2, <4>1, <4>3 DEF Traced, Direct
      <4> QED BY <4>2, <4>3
    <3> QED BY <1>3, <3>1, <3>2
  <2>2. ASSUME NEW m \in CallNos PROVE Told(m)'
    <3>1. CASE m = n
      BY <1>0, <1>3, <3>1 DEF RecorderInv, LedgerInv, Told, Recorded, Refused, Direct, Answer
    <3>2. CASE m # n
      BY <1>0, <1>3, <3>2 DEF RecorderInv, LedgerInv, Told, Recorded, Refused, Direct
    <3> QED BY <3>1, <3>2
  <2> QED BY <1>3, <2>1, <2>2 DEF LedgerInv
<1> QED BY <1>4, <1>5, <1>6 DEF RecorderInv

\* A handler is done with its request: the event is on the ledger if it says so, and
\* not if it refused it.
LEMMA HandlerEnds ==
  ASSUME RecorderInv, NEW n \in CallNos, NEW s \in {"recorded", "refused", "failed"},
         InHand(n), Status(n, s), ledger' \in {ledger, ByDaemon(n)},
         s = "recorded" => ledger' = ByDaemon(n),
         s = "refused" => ledger' = ledger,
         failures' \in 0 .. MaxFailures, writing' \in 0 .. MaxCalls,
         UNCHANGED <<daemonVars, clientVars>>
  PROVE  RecorderInv'
<1> USE RecorderAssumption
<1> DEFINE rec == [call |-> n, via |-> "daemon", keyed |-> TRUE]
<1>0. /\ request[n] \in Request /\ request[n].status = "received"
      /\ request'[n] \in Request /\ request'[n].status = s
      /\ \A m \in CallNos : m # n => request'[m] = request[m]
      /\ request' \in [CallNos -> Request \cup {None}]
  <2>1. request[n] \in Request /\ request[n].status = "received"
    BY DEF InHand, RecorderInv, TypeOK
  <2>2. [request[n] EXCEPT !.status = s] \in Request
    BY <2>1 DEF Request
  <2>3. request' = [request EXCEPT ![n] = [request[n] EXCEPT !.status = s]]
    BY DEF Status
  <2> QED BY <2>1, <2>2, <2>3 DEF RecorderInv, TypeOK, Request
<1>1. request'[n] # None /\ request[n] # None
  BY <1>0
<1>2. rec \in Record
  BY DEF Record
<1>3. ~ Has(n, "daemon")
  BY <1>0 DEF RecorderInv, LedgerInv, Traced, Has
<1>4. /\ ledger' \in Seq(Record) /\ Single'
      /\ \A i \in DOMAIN ledger' : ledger'[i] = rec \/ (i \in DOMAIN ledger /\ ledger'[i] = ledger[i])
      /\ \A m, via : Has(m, via) => Has(m, via)'
      /\ ledger' = ByDaemon(n) => Has(n, "daemon")'
  <2>1. CASE ledger' = ledger
    <3>1. ByDaemon(n) # ledger
      BY DEF RecorderInv, TypeOK, ByDaemon
    <3> QED BY <2>1, <3>1 DEF RecorderInv, LedgerInv, TypeOK, Single, Has
  <2>2. CASE ledger' = ByDaemon(n)
    BY <1>2, <1>3, <2>2, LedgerGrows DEF RecorderInv, LedgerInv, ByDaemon
  <2> QED BY <2>1, <2>2
<1>5. TypeOK'
  <2>1. \A c \in Clients : pc[c] = "waiting" => request'[current[c]] # None
    BY <1>0, <1>1 DEF RecorderInv, TypeOK, CallInv
  <2> QED BY <1>0, <1>4, <2>1 DEF RecorderInv, TypeOK, daemonVars, clientVars
<1>6. CallInv'
  BY <1>0, <1>1 DEF RecorderInv, CallInv, clientVars
<1>7. LedgerInv'
  <2>1. ASSUME NEW i \in DOMAIN ledger' PROVE Traced(i)'
    <3>1. CASE ledger'[i] = rec
      <4>1. ledger' = ByDaemon(n) \/ (i \in DOMAIN ledger /\ ledger[i] = rec)
        BY <3>1
      <4>2. ledger' = ByDaemon(n)
        BY <1>3, <4>1 DEF Has
      <4>3. s \in {"recorded", "failed"}
        <5>1. ByDaemon(n) # ledger
          BY DEF RecorderInv, TypeOK, ByDaemon
        <5> QED BY <4>2, <5>1
      <4> QED BY <1>0, <1>1, <3>1, <4>3 DEF Traced
    <3>2. CASE i \in DOMAIN ledger /\ ledger'[i] = ledger[i]
      <4>1. Traced(i) /\ ledger[i].call \in CallNos
        BY <3>2, RecordTyped DEF RecorderInv, LedgerInv
      <4>2. CASE ledger[i].call = n
        BY <1>0, <3>2, <4>1, <4>2 DEF Traced, clientVars
      <4>3. CASE ledger[i].call # n
        BY <1>0, <3>2, <4>1, <4>3 DEF Traced, clientVars
      <4> QED BY <4>2, <4>3
    <3> QED BY <1>4, <3>1, <3>2
  <2>2. ASSUME NEW m \in CallNos PROVE Told(m)'
    <3>1. CASE m = n
      BY <1>0, <1>1, <1>4, <3>1 DEF RecorderInv, LedgerInv, Told, Recorded, Refused, clientVars
    <3>2. CASE m # n
      BY <1>0, <1>4, <3>2 DEF RecorderInv, LedgerInv, Told, Recorded, Refused, clientVars
    <3> QED BY <3>1, <3>2
  <2> QED BY <1>4, <2>1, <2>2 DEF LedgerInv
<1> QED BY <1>5, <1>6, <1>7 DEF RecorderInv

\* An answer is on its way: the request's outcome stays as it was.
LEMMA HandlerReplies ==
  ASSUME RecorderInv, NEW n \in CallNos, Reply(n)
  PROVE  RecorderInv'
<1> USE RecorderAssumption
<1>0. /\ request'[n] \in Request /\ request[n] # None /\ request'[n] # None
      /\ request'[n].status = request[n].status
      /\ \A m \in CallNos : m # n => request'[m] = request[m]
      /\ request' \in [CallNos -> Request \cup {None}]
  <2>1. request[n] \in Request
    BY DEF Reply, RecorderInv, TypeOK
  <2>2. /\ [request[n] EXCEPT !.sent = TRUE] \in Request
        /\ [request[n] EXCEPT !.sent = TRUE].status = request[n].status
    BY <2>1 DEF Request
  <2>3. request' = [request EXCEPT ![n] = [request[n] EXCEPT !.sent = TRUE]]
    BY DEF Reply
  <2> QED BY <2>1, <2>2, <2>3 DEF RecorderInv, TypeOK
<1>1. TypeOK'
  <2>1. \A c \in Clients : pc[c] = "waiting" => request'[current[c]] # None
    BY <1>0 DEF RecorderInv, TypeOK, CallInv
  <2> QED BY <1>0, <2>1 DEF RecorderInv, TypeOK, Reply, daemonVars, clientVars
<1>2. CallInv'
  BY <1>0 DEF RecorderInv, CallInv, Reply, clientVars
<1>3. LedgerInv'
  <2>1. ASSUME NEW i \in DOMAIN ledger PROVE Traced(i)'
    <3>1. Traced(i) /\ ledger[i].call \in CallNos
      BY RecordTyped DEF RecorderInv, LedgerInv
    <3> QED BY <1>0, <3>1 DEF Traced, Reply, clientVars
  <2>2. ASSUME NEW m \in CallNos PROVE Told(m)'
    BY <1>0 DEF RecorderInv, LedgerInv, Told, Recorded, Refused, Has, Reply, clientVars
  <2> QED BY <2>1, <2>2 DEF RecorderInv, LedgerInv, Single, Reply
<1> QED BY <1>1, <1>2, <1>3 DEF RecorderInv

-----------------------------------------------------------------------------
\* What a daemon does at its socket touches neither requests nor the ledger.
LEMMA DaemonKeeps ==
  ASSUME RecorderInv, NEW d \in Daemons,
         \/ Start(d) \/ MeetOther(d) \/ MeetNone(d) \/ Unlink(d) \/ Bind(d)
         \/ Listen(d) \/ Close(d) \/ Leave(d) \/ Crash(d)
  PROVE  RecorderInv'
<1> USE DEF Goto, DaemonStates, Dies
<1>0. dpc \in [Daemons -> DaemonStates] /\ path \in Daemons \cup {None} /\ contested \in BOOLEAN
  BY DEF RecorderInv, TypeOK
<1>1. dpc' \in [Daemons -> DaemonStates]
  BY <1>0 DEF Start, MeetOther, MeetNone, Unlink, Bind, Listen, Close, Leave, Crash
<1>2. path' \in Daemons \cup {None}
  BY <1>0 DEF Start, MeetOther, MeetNone, Unlink, Bind, Listen, Close, Leave, Crash
<1>3. contested' \in BOOLEAN
  <2>1. UNCHANGED contested \/ contested' = (contested \/ Crowded(d))
          \/ contested' = (contested \/ Listening)
    BY Zenon DEF Start, MeetOther, MeetNone, Unlink, Bind, Listen, Close, Leave, Crash
  <2> QED BY <1>0, <2>1, Zenon
<1>4. UNCHANGED <<clientVars, request, ledger, failures>>
  BY DEF Start, MeetOther, MeetNone, Unlink, Bind, Listen, Close, Leave, Crash, NotDaemon, Dies
<1>5. writing' \in 0 .. MaxCalls
  <2>1. writing' \in {0, writing}
    BY DEF Start, MeetOther, MeetNone, Unlink, Bind, Listen, Close, Leave, Crash, NotDaemon, Dies
  <2> QED BY <2>1, RecorderAssumption DEF RecorderInv, TypeOK
<1> QED BY <1>1, <1>2, <1>3, <1>4, <1>5, DaemonStep

\* The steps of append() and record_via(), and the death of a hook.
LEMMA ClientKeeps ==
  ASSUME RecorderInv, NEW c \in Clients, ClientStep(c) \/ Die(c)
  PROVE  RecorderInv'
<1> USE RecorderAssumption
<1>0. tier \in [Clients -> 0 .. 2] /\ path \in Daemons \cup {None}
  BY DEF RecorderInv, TypeOK
<1>1. CASE FindDaemon(c)
  <2>1. tier' \in [Clients -> 0 .. 2]
    BY <1>0, <1>1 DEF FindDaemon
  <2> QED BY <1>1, <2>1, ClientMove DEF FindDaemon
<1>2. CASE FindNone(c)
  <2>1. tier' \in [Clients -> 0 .. 2]
    BY <1>0, <1>2 DEF FindNone
  <2> QED BY <1>2, <2>1, ClientMove DEF FindNone
<1>3. CASE Send(c)
  BY <1>3, CallSent
<1>4. CASE CannotSend(c)
  BY <1>0, <1>4, ClientMove DEF CannotSend
<1>5. CASE Receive(c)
  <2> DEFINE n == current[c]
             r == request[n]
  <2>0. /\ pc[c] = "waiting" /\ r # None /\ tier[c] \in 0 .. 2
        /\ UNCHANGED <<daemonVars, kind, calls, request, ledger, failures, writing>>
    BY <1>0, <1>5 DEF Receive, RecorderInv, TypeOK
  <2>1. CASE r.status = "recorded" /\ EndCall(c, TRUE, tier[c])
    <3>1. Recorded(n)
      BY <2>0, <2>1 DEF Recorded
    <3> QED BY <2>0, <2>1, <3>1, CallEnds
  <2>2. CASE r.status = "refused" /\ EndCall(c, FALSE, tier[c])
    <3>1. Refused(n)
      BY <2>0, <2>2 DEF Refused
    <3> QED BY <2>0, <2>2, <3>1, CallEnds
  <2>3. CASE pc' = [pc EXCEPT ![c] = "direct"] /\ UNCHANGED <<current, tier, answer>>
    BY <1>0, <2>0, <2>3, ClientMove
  <2> QED BY <1>5, <2>1, <2>2, <2>3 DEF Receive
<1>6. CASE GiveUp(c)
  BY <1>0, <1>6, ClientMove DEF GiveUp
<1>7. CASE Direct(c)
  <2>1. CASE Accepts(HookHasKey)
    BY <1>7, <2>1, CallRecords
  <2>2. CASE ~ Accepts(HookHasKey)
    <3>1. ~ HookHasKey
      <4> SUFFICES ASSUME HookHasKey PROVE Accepts(HookHasKey)
        BY <2>2
      <4>1. ASSUME NEW i \in DOMAIN ledger PROVE ledger[i].keyed = HookHasKey
        <5>1. Traced(i) /\ ledger[i] \in Record
          BY RecordTyped DEF RecorderInv, LedgerInv
        <5>2. CASE ledger[i].via = "daemon"
          BY <5>1, <5>2 DEF Traced, Record
        <5>3. CASE ledger[i].via = "in-process"
          BY <5>1, <5>3 DEF Traced
        <5> QED BY <5>1, <5>2, <5>3 DEF Record
      <4> QED BY <4>1 DEF Accepts
    <3>2. /\ EndCall(c, FALSE, 0) /\ pc[c] # "idle"
          /\ UNCHANGED <<daemonVars, kind, calls, request, ledger, failures, writing>>
      BY <1>7, <2>2 DEF Direct
    <3> DEFINE t == 0
    <3>3. t \in 0 .. 2
      OBVIOUS
    <3>4. EndCall(c, FALSE, t)
      BY <3>2, Zenon
    <3> HIDE DEF t
    <3> QED BY <3>1, <3>2, <3>3, <3>4, CallEnds
  <2> QED BY <2>1, <2>2
<1>8. CASE Die(c)
  <2>1. tier' \in [Clients -> 0 .. 2]
    BY <1>0, <1>8 DEF Die, Return
  <2>2. /\ pc[c] # "idle" /\ pc' = [pc EXCEPT ![c] = "idle"]
        /\ current' = [current EXCEPT ![c] = 0]
        /\ UNCHANGED <<daemonVars, kind, answer, calls, request, ledger, failures, writing>>
    BY <1>8 DEF Die, Return
  <2> QED BY <2>1, <2>2, ClientMove
<1> QED BY <1>1, <1>2, <1>3, <1>4, <1>5, <1>6, <1>7, <1>8 DEF ClientStep

\* The steps of a handler, which end a request or send its answer.
LEMMA HandlerKeeps ==
  ASSUME RecorderInv, NEW n \in CallNos,
         \/ HandlerTurnsAway(n) \/ HandlerLocks(n) \/ HandlerRecords(n)
         \/ HandlerFails(n) \/ Reply(n)
  PROVE  RecorderInv'
<1> USE RecorderAssumption DEF Unlock
<1>0. failures \in 0 .. MaxFailures /\ writing \in 0 .. MaxCalls /\ 0 \in 0 .. MaxCalls
  BY DEF RecorderInv, TypeOK
<1>1. CASE HandlerRecords(n)
  BY <1>0, <1>1, HandlerEnds DEF HandlerRecords
<1>2. CASE HandlerTurnsAway(n)
  BY <1>0, <1>2, HandlerEnds DEF HandlerTurnsAway
<1>3. CASE HandlerLocks(n)
  <2>1. writing' \in 0 .. MaxCalls
    BY <1>3 DEF HandlerLocks, CallNos
  <2>2. /\ path' \in Daemons \cup {None} /\ dpc' \in [Daemons -> DaemonStates]
        /\ contested' \in BOOLEAN
        /\ UNCHANGED <<clientVars, request, ledger, failures>>
    BY <1>3 DEF HandlerLocks, RecorderInv, TypeOK, daemonVars
  <2> QED BY <2>1, <2>2, DaemonStep
<1>4. CASE HandlerFails(n)
  <2>1. failures' \in 0 .. MaxFailures
    BY <1>0, <1>4 DEF HandlerFails
  <2> QED BY <1>4, <2>1, HandlerEnds DEF HandlerFails
<1>5. CASE Reply(n)
  BY <1>5, HandlerReplies
<1> QED BY <1>1, <1>2, <1>3, <1>4, <1>5

\* The invariant, for any number of hooks, daemons, calls and failures.
THEOREM RecorderInvariant == Spec => []RecorderInv
<1> USE RecorderAssumption
<1>1. Init => RecorderInv
  <2> SUFFICES ASSUME Init PROVE RecorderInv
    OBVIOUS
  <2>1. TypeOK
    <3>1. MaxCalls \in Nat /\ MaxFailures \in Nat
      BY DEF RecorderAssumption
    <3>2. /\ path \in Daemons \cup {None} /\ dpc \in [Daemons -> DaemonStates]
          /\ pc \in [Clients -> {"idle", "tier", "asking", "waiting", "direct"}]
      BY DEF Init, DaemonStates
    <3>3. /\ current \in [Clients -> 0 .. MaxCalls] /\ tier \in [Clients -> 0 .. 2]
          /\ kind \in [CallNos -> Kinds]
      BY <3>1 DEF Init, Kinds
    <3>4. /\ request \in [CallNos -> Request \cup {None}]
          /\ answer \in [CallNos -> Answer \cup {None}]
      BY DEF Init
    <3>5. /\ ledger \in Seq(Record) /\ calls \in 0 .. MaxCalls /\ failures \in 0 .. MaxFailures
          /\ writing \in 0 .. MaxCalls
      BY <3>1 DEF Init
    <3> QED BY <3>2, <3>3, <3>4, <3>5 DEF Init, TypeOK
  <2>2. CallInv
    BY DEF Init, CallInv
  <2>3. LedgerInv
    BY DEF Init, LedgerInv, Single, Traced, Told, Recorded, Refused
  <2> QED BY <2>1, <2>2, <2>3 DEF RecorderInv
<1>2. RecorderInv /\ [Next]_vars => RecorderInv'
  <2> SUFFICES ASSUME RecorderInv, [Next]_vars PROVE RecorderInv'
    OBVIOUS
  <2>1. ASSUME NEW c \in Clients, NEW k \in Kinds, Append_(c, k) PROVE RecorderInv'
    BY <2>1, CallStarts
  <2>2. ASSUME NEW c \in Clients, ClientStep(c) \/ Die(c) PROVE RecorderInv'
    BY <2>2, ClientKeeps
  <2>3. ASSUME NEW n \in CallNos,
               \/ HandlerTurnsAway(n) \/ HandlerLocks(n)
               \/ HandlerRecords(n) \/ HandlerFails(n) \/ Reply(n)
        PROVE  RecorderInv'
    BY <2>3, HandlerKeeps
  <2>4. ASSUME NEW d \in Daemons,
               \/ Start(d) \/ MeetOther(d) \/ MeetNone(d) \/ Unlink(d) \/ Bind(d)
               \/ Listen(d) \/ Close(d) \/ Leave(d) \/ Crash(d)
        PROVE  RecorderInv'
    BY <2>4, DaemonKeeps
  <2>5. CASE UNCHANGED vars
    <3>1. UNCHANGED <<clientVars, request, ledger, failures, writing>> /\ UNCHANGED daemonVars
      BY <2>5 DEF vars
    <3>2. /\ path' \in Daemons \cup {None} /\ dpc' \in [Daemons -> DaemonStates]
          /\ contested' \in BOOLEAN /\ writing' \in 0 .. MaxCalls
      BY <3>1 DEF RecorderInv, TypeOK, daemonVars
    <3> QED BY <3>1, <3>2, DaemonStep
  <2> QED BY <2>1, <2>2, <2>3, <2>4, <2>5 DEF Next
<1> QED BY <1>1, <1>2, PTL DEF Spec

\* Every hook, request, answer and record is well typed, and a hook that waits has
\* asked.
THEOREM RecorderTypeCorrect == Spec => []TypeOK
<1>1. RecorderInv => TypeOK
  BY DEF RecorderInv
<1> QED BY <1>1, RecorderInvariant, PTL

\* No timeout, late handler or fallback makes a second record of an event that the
\* daemon answered for (append(), _Handler.handle()).
THEOREM AnsweredAlwaysOnce == Spec => []AnsweredMeansOnce
<1>1. RecorderInv => AnsweredMeansOnce
  BY InvariantTells
<1> QED BY <1>1, RecorderInvariant, PTL

\* An event is on the ledger once by the daemon and once by its hook at most, which
\* is what rebuild() has to tell apart.
THEOREM AlwaysAtMostTwice == Spec => []AtMostTwice
<1>1. RecorderInv => AtMostTwice
  BY InvariantTells
<1> QED BY <1>1, RecorderInvariant, PTL

\* Where the hooks have the chain key, an event that its caller is told is lost is
\* not on the ledger and never will be (append()'s refusal, hook_post's loss record).
THEOREM LostAlwaysMeansLost == HookHasKey => (Spec => []LostMeansLost)
<1> SUFFICES ASSUME HookHasKey PROVE Spec => []LostMeansLost
  OBVIOUS
<1>1. RecorderInv => LostMeansLost
  BY InvariantTells
<1> QED BY <1>1, RecorderInvariant, PTL

-----------------------------------------------------------------------------
\* Between two of its own steps at the socket's name.
AtName(d) == dpc[d] \in {"pinging", "unlinking", "binding", "bound", "closing"}

\* As long as no two daemons are there at once, one that is about to take the name
\* or to drop it is alone, and one that serves has it.
NameInv ==
  ~ contested =>
    /\ \A d, o \in Daemons : AtName(d) /\ AtName(o) => d = o
    /\ \A d \in Daemons : Serving(d) => path = d
    /\ \A d \in Daemons : dpc[d] \in {"unlinking", "binding", "bound", "closing"} =>
         \A o \in Daemons : ~ Serving(o)
    /\ \A d \in Daemons : /\ dpc[d] = "binding" => path = None
                          /\ dpc[d] = "bound" => path = d

\* Unless two daemons were at the socket's name at once, a daemon that serves is the
\* one that hooks reach (serve()'s exists, ping, unlink and bind; main()'s unlink).
THEOREM AlwaysSoleRecorder == Spec => []SoleRecorder
<1> USE RecorderAssumption
<1>1. Init => NameInv
  BY DEF Init, NameInv, AtName, Serving
<1>2. TypeOK /\ NameInv /\ [Next]_vars => NameInv'
  <2> SUFFICES ASSUME TypeOK, NameInv, [Next]_vars PROVE NameInv'
    OBVIOUS
  <2>0. dpc \in [Daemons -> DaemonStates] /\ path \in Daemons \cup {None} /\ contested \in BOOLEAN
    BY DEF TypeOK
  <2> USE DEF NameInv, AtName, Serving, Listening, Goto, Dies, DaemonStates
  <2>1. ASSUME NEW d \in Daemons, Start(d) PROVE NameInv'
    BY <2>0, <2>1 DEF Start, Crowded
  <2>2. ASSUME NEW d \in Daemons, MeetOther(d) PROVE NameInv'
    BY <2>0, <2>2 DEF MeetOther
  <2>3. ASSUME NEW d \in Daemons, MeetNone(d) PROVE NameInv'
    BY <2>0, <2>3 DEF MeetNone
  <2>4. ASSUME NEW d \in Daemons, Unlink(d) PROVE NameInv'
    BY <2>0, <2>4 DEF Unlink
  <2>5. ASSUME NEW d \in Daemons, Bind(d) PROVE NameInv'
    BY <2>0, <2>5 DEF Bind
  <2>6. ASSUME NEW d \in Daemons, Listen(d) PROVE NameInv'
    BY <2>0, <2>6 DEF Listen
  <2>7. ASSUME NEW d \in Daemons, Close(d) PROVE NameInv'
    BY <2>0, <2>7 DEF Close, Crowded
  <2>8. ASSUME NEW d \in Daemons, Leave(d) PROVE NameInv'
    BY <2>0, <2>8 DEF Leave
  <2>9. ASSUME NEW d \in Daemons, Crash(d) PROVE NameInv'
    BY <2>0, <2>9 DEF Crash
  <2>10. ASSUME UNCHANGED daemonVars PROVE NameInv'
    BY <2>10 DEF daemonVars
  <2>11. ASSUME NEW c \in Clients, (\E k \in Kinds : Append_(c, k)) \/ ClientStep(c) \/ Die(c)
         PROVE  UNCHANGED daemonVars
    BY <2>11 DEF Append_, ClientStep, Die, FindDaemon, FindNone, Send, CannotSend, Receive,
                 GiveUp, Direct
  <2>12. ASSUME NEW n \in CallNos,
                \/ HandlerTurnsAway(n) \/ HandlerLocks(n)
                \/ HandlerRecords(n) \/ HandlerFails(n) \/ Reply(n)
         PROVE  UNCHANGED daemonVars
    BY <2>12 DEF HandlerTurnsAway, HandlerLocks, HandlerRecords, HandlerFails, Reply
  <2>13. CASE UNCHANGED vars
    BY <2>10, <2>13 DEF vars
  <2> QED BY <2>1, <2>2, <2>3, <2>4, <2>5, <2>6, <2>7, <2>8, <2>9, <2>10, <2>11, <2>12, <2>13
          DEF Next
<1>3. NameInv => SoleRecorder
  BY DEF NameInv, SoleRecorder
<1> QED BY <1>1, <1>2, <1>3, RecorderTypeCorrect, PTL DEF Spec
=============================================================================

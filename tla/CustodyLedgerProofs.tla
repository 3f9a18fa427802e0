------------------------ MODULE CustodyLedgerProofs ------------------------
(***************************************************************************)
(* CustodyLedger for every number of writers, keys, events, calls, crashes *)
(* and edits: its types, the exclusion of its writers, ChainHolds,         *)
(* TamperMeansEdited, LossIsSingleAndSeen, BatchContiguous, and for hook   *)
(* processes NeverBuriesAnEdit; and that the sink implements EvidenceLog.  *)
(* First HashChain alone: what verify() says of a good log, a wrong key,   *)
(* an edit and a removal.                                                  *)
(***************************************************************************)
EXTENDS CustodyLedger, FiniteSetTheorems, SequenceTheorems, TLAPS

----------------------------------------------------------------------------
(* HashChain, for every set of keys and events and logs of every length *)

(* hash_entry() produces a digest. *)
LEMMA HashEntryType ==
  ASSUME NEW e, e.prev \in Digest, e.seq \in Nat, e.key \in KeyIds,
         e.event \in Events, NEW k \in KeyIds
  PROVE  HashEntry(e, k) \in Digest
BY DEF HashEntry, Digest, Link

(* Two equal digests digest the same fields under the same key. *)
LEMMA HashInjective ==
  ASSUME NEW d \in Entry, NEW e \in Entry, NEW j \in KeyIds, NEW k \in KeyIds,
         HashEntry(d, j) = HashEntry(e, k)
  PROVE  d.prev = e.prev /\ d.seq = e.seq /\ d.key = e.key
         /\ d.event = e.event /\ j = k
<1> DEFINE ld == [seq |-> d.seq, key |-> d.key, event |-> d.event, mac |-> j]
           le == [seq |-> e.seq, key |-> e.key, event |-> e.event, mac |-> k]
<1>1. ld \in Link /\ le \in Link /\ d.prev \in Seq(Link) /\ e.prev \in Seq(Link)
  BY DEF Entry, Link, Digest
<1>2. Append(d.prev, ld) = Append(e.prev, le)
  BY DEF HashEntry
<1> HIDE DEF ld, le
<1> DEFINE dp == d.prev
           ep == e.prev
<1>3. dp \in Seq(Link) /\ ep \in Seq(Link) /\ Append(dp, ld) = Append(ep, le)
  BY <1>1, <1>2
<1> HIDE DEF dp, ep
<1>4. dp = ep /\ ld = le
  BY <1>1, <1>3, AppendInjective
<1>5. QED
  BY <1>4 DEF ld, le, dp, ep

(* append() produces an entry, and head() a digest. *)
LEMMA ChainedType ==
  ASSUME NEW log \in Seq(Entry), NEW ev \in Events, NEW k \in KeyIds
  PROVE  Chained(log, ev, k) \in Entry
<1>1. HeadOf(log) \in Digest
  <2>1. CASE log = << >>
    BY <2>1 DEF HeadOf, GENESIS, Digest
  <2>2. CASE log # << >>
    <3>1. log[Len(log)] \in Entry
      BY <2>2
    <3>2. QED
      BY <2>2, <3>1 DEF HeadOf, Entry
  <2>3. QED
    BY <2>1, <2>2
<1> DEFINE base == [seq |-> Len(log), prev |-> HeadOf(log), key |-> k, event |-> ev]
<1>2. HashEntry(base, k) \in Digest
  BY <1>1, HashEntryType
<1>3. QED
  BY <1>1, <1>2 DEF Chained, Entry

(* append() keeps a chain a chain. *)
LEMMA ChainedExtends ==
  ASSUME NEW log \in Seq(Entry), NEW ev \in Events, NEW k \in KeyIds,
         WellChained(log, k)
  PROVE  WellChained(Append(log, Chained(log, ev, k)), k)
<1> DEFINE new == Chained(log, ev, k)
           ext == Append(log, new)
<1>1. new.seq = Len(log) /\ new.prev = HeadOf(log) /\ new.key = k
      /\ new.hash = HashEntry(new, k)
  BY DEF Chained, HashEntry
<1>2. /\ Len(ext) = Len(log) + 1
      /\ \A i \in 1 .. Len(log) : ext[i] = log[i]
      /\ ext[Len(log) + 1] = new
  OBVIOUS
<1> HIDE DEF new, ext
<1>3. DOMAIN log = 1 .. Len(log) /\ Len(log) \in Nat
  OBVIOUS
<1>4. DOMAIN ext = 1 .. (Len(log) + 1)
  BY <1>2 DEF ext
<1>5. SUFFICES ASSUME NEW i \in 1 .. (Len(log) + 1)
               PROVE  Linked(ext, i) /\ ext[i].key = k
                      /\ ext[i].hash = HashEntry(ext[i], k)
  BY <1>4 DEF WellChained, ext, new
<1>6. CASE i \in 1 .. Len(log)
  <2>1. Linked(log, i) /\ log[i].key = k /\ log[i].hash = HashEntry(log[i], k)
    BY <1>3, <1>6 DEF WellChained
  <2>2. i # 1 => i - 1 \in 1 .. Len(log)
    BY <1>3, <1>6
  <2>3. Linked(ext, i)
    BY <1>2, <1>6, <2>1, <2>2 DEF Linked
  <2>4. QED
    BY <1>2, <1>6, <2>1, <2>3
<1>7. CASE i = Len(log) + 1
  <2>1. HeadOf(log) = IF i = 1 THEN GENESIS ELSE log[i - 1].hash
    BY <1>3, <1>7, EmptySeq DEF HeadOf
  <2>2. i # 1 => ext[i - 1] = log[i - 1]
    BY <1>2, <1>3, <1>7
  <2>3. Linked(ext, i)
    BY <1>1, <1>2, <1>3, <1>7, <2>1, <2>2 DEF Linked
  <2>4. QED
    BY <1>1, <1>2, <1>7, <2>3
<1>8. QED
  BY <1>3, <1>6, <1>7

(* Every prefix of a chain is a chain. *)
LEMMA PrefixWellChained ==
  ASSUME NEW log \in Seq(Entry), NEW k, WellChained(log, k),
         NEW n \in 0 .. Len(log)
  PROVE  /\ SubSeq(log, 1, n) \in Seq(Entry)
         /\ WellChained(SubSeq(log, 1, n), k)
<1> DEFINE pre == SubSeq(log, 1, n)
<1>1. pre \in Seq(Entry) /\ Len(pre) = n /\ \A i \in 1 .. n : pre[i] = log[i]
  OBVIOUS
<1> HIDE DEF pre
<1>2. DOMAIN pre = 1 .. n /\ DOMAIN log = 1 .. Len(log)
  BY <1>1
<1>3. SUFFICES ASSUME NEW i \in 1 .. n
               PROVE  Linked(pre, i) /\ pre[i].key = k
                      /\ pre[i].hash = HashEntry(pre[i], k)
  BY <1>1, <1>2 DEF WellChained, pre
<1>4. i \in 1 .. Len(log) /\ (i # 1 => i - 1 \in 1 .. n)
  OBVIOUS
<1>5. Linked(log, i) /\ log[i].key = k /\ log[i].hash = HashEntry(log[i], k)
  BY <1>2, <1>4 DEF WellChained
<1>6. QED
  BY <1>1, <1>4, <1>5 DEF Linked

(* The empty log is a chain under any key. *)
LEMMA EmptyWellChained ==
  ASSUME NEW k
  PROVE  WellChained(<< >>, k)
BY DEF WellChained

-----------------------------------------------------------------------------
(* verify() on what append() built *)

(* An entry built under k passes with k, and without any key. *)
LEMMA OwnEntryHolds ==
  ASSUME NEW log \in Seq(Entry), NEW k \in KeyIds, WellChained(log, k),
         NEW i \in DOMAIN log, NEW j \in {k, NoKey}
  PROVE  Holds(log, i, j)
BY DEF WellChained, Holds, ContentHolds

(* verify() accepts what append() built under the same key, and under no key
   accepts every such log: a reader with the public half never sees a false
   alarm. *)
THEOREM OwnLogIntact ==
  ASSUME NEW log \in Seq(Entry), NEW k \in KeyIds, WellChained(log, k),
         NEW j \in {k, NoKey}
  PROVE  Intact(log, j)
BY OwnEntryHolds DEF Intact

(* verify() with a key the log was not built under reports entry 0, whatever
   the log holds: a wrong key never passes for the right one. *)
THEOREM WrongKeyNamed ==
  ASSUME NEW log \in Seq(Entry), log # << >>, NEW k \in KeyIds,
         WellChained(log, k), NEW j \in Keys, j # k
  PROVE  BrokenAt(log, j, 1)
<1>1. 1 \in DOMAIN log /\ log[1] \in Entry
  BY EmptySeq
<1>2. log[1].key = k /\ log[1].hash = HashEntry(log[1], k)
  BY <1>1 DEF WellChained
<1>3. j \in KeyIds /\ j # NoKey
  BY ChainAssumption DEF KeyIds
<1>4. HashEntry(log[1], k) # HashEntry(log[1], j)
  BY <1>1, <1>3, HashInjective
<1>5. ~ ContentHolds(log[1], j)
  BY <1>2, <1>3, <1>4 DEF ContentHolds
<1>6. QED
  BY <1>1, <1>5 DEF BrokenAt, Holds

(* verify() names the very entry whose content was edited in place, and passes
   every entry before it ("entry 57 was edited in place"). *)
THEOREM EditNamed ==
  ASSUME NEW log \in Seq(Entry), NEW k \in KeyIds, WellChained(log, k),
         NEW i \in DOMAIN log, NEW ev \in Events, ev # log[i].event
  PROVE  BrokenAt([log EXCEPT ![i].event = ev], k, i)
<1> DEFINE alt == [log EXCEPT ![i].event = ev]
<1>1. DOMAIN alt = DOMAIN log /\ DOMAIN log = 1 .. Len(log) /\ Len(log) \in Nat
  OBVIOUS
<1>2. log[i] \in Entry /\ log[i].key = k /\ log[i].hash = HashEntry(log[i], k)
  BY DEF WellChained
<1>3. alt[i] = [log[i] EXCEPT !.event = ev]
  BY <1>1
<1>4. alt[i] \in Entry /\ alt[i].event = ev /\ alt[i].hash = log[i].hash
      /\ alt[i].key = k
  BY <1>2, <1>3 DEF Entry
<1>5. \A j \in DOMAIN log : j # i => alt[j] = log[j]
  BY <1>1
<1> HIDE DEF alt
<1>6. HashEntry(alt[i], k) # HashEntry(log[i], k)
  BY <1>2, <1>4, HashInjective
<1>7. ~ ContentHolds(alt[i], k)
  BY <1>2, <1>4, <1>6 DEF ContentHolds
<1>8. ASSUME NEW j \in 1 .. (i - 1)
      PROVE  Holds(alt, j, k)
  <2>1. j \in DOMAIN log /\ j # i /\ (j # 1 => j - 1 \in DOMAIN log /\ j - 1 # i)
    BY <1>1
  <2>2. alt[j] = log[j] /\ (j # 1 => alt[j - 1] = log[j - 1])
    BY <1>5, <2>1
  <2>3. Holds(log, j, k)
    BY <2>1, OwnEntryHolds
  <2>4. QED
    BY <2>2, <2>3 DEF Holds, Linked
<1>9. QED
  BY <1>1, <1>7, <1>8 DEF BrokenAt, Holds, alt

(* verify() names the place from which an entry was taken out, unless it was
   the last one: the seq of what follows gives it away. *)
THEOREM RemovalNamed ==
  ASSUME NEW log \in Seq(Entry), NEW k \in KeyIds, WellChained(log, k),
         NEW i \in 1 .. (Len(log) - 1)
  PROVE  BrokenAt(SubSeq(log, 1, i - 1) \o SubSeq(log, i + 1, Len(log)), k, i)
<1> DEFINE alt == SubSeq(log, 1, i - 1) \o SubSeq(log, i + 1, Len(log))
<1>1. Len(log) \in Nat /\ DOMAIN log = 1 .. Len(log)
  OBVIOUS
<1>2. /\ SubSeq(log, 1, i - 1) \in Seq(Entry)
      /\ Len(SubSeq(log, 1, i - 1)) = i - 1
      /\ \A j \in 1 .. (i - 1) : SubSeq(log, 1, i - 1)[j] = log[j]
  BY <1>1, SubSeqProperties
<1>3. /\ SubSeq(log, i + 1, Len(log)) \in Seq(Entry)
      /\ Len(SubSeq(log, i + 1, Len(log))) = Len(log) - i
      /\ SubSeq(log, i + 1, Len(log))[1] = log[i + 1]
  BY <1>1, SubSeqProperties
<1>4. /\ alt \in Seq(Entry)
      /\ Len(alt) = Len(log) - 1
      /\ \A j \in 1 .. (i - 1) : alt[j] = log[j]
      /\ alt[i] = log[i + 1]
  BY <1>1, <1>2, <1>3, ConcatProperties
<1> HIDE DEF alt
<1>5. i \in DOMAIN alt /\ DOMAIN alt = 1 .. (Len(log) - 1)
  BY <1>1, <1>4
<1>6. log[i + 1].seq = i
  BY <1>1 DEF WellChained, Linked
<1>7. ~ Linked(alt, i)
  BY <1>4, <1>6 DEF Linked
<1>8. ASSUME NEW j \in 1 .. (i - 1)
      PROVE  Holds(alt, j, k)
  <2>1. j \in DOMAIN log /\ (j # 1 => j - 1 \in 1 .. (i - 1))
    BY <1>1
  <2>2. alt[j] = log[j] /\ (j # 1 => alt[j - 1] = log[j - 1])
    BY <1>4, <2>1
  <2>3. Holds(log, j, k)
    BY <2>1, OwnEntryHolds
  <2>4. QED
    BY <2>2, <2>3 DEF Holds, Linked
<1>9. QED
  BY <1>5, <1>7, <1>8 DEF BrokenAt, Holds, alt

----------------------------------------------------------------------------
(* The ledger's file *)

(* What load() makes of a ledger's bytes: entries, and how the rest looks. *)
LEMMA FileFields ==
  ASSUME NEW f \in File
  PROVE  f.recs \in Seq(Entry) /\ f.tail \in Tails /\ Len(f.recs) \in Nat
BY DEF File

(* _write_all() leaves a file that load() can classify. *)
LEMMA LandType ==
  ASSUME NEW f \in File, NEW e \in Entry, NEW p \in 0 .. 3, NEW q \in 1 .. 3
  PROVE  Land(f, e, p, q) \in File
<1>1. f.recs \in Seq(Entry) /\ f.tail \in Tails /\ Len(f.recs) \in Nat
  BY FileFields
<1>2. f.tail = "open" => SubSeq(f.recs, 1, Len(f.recs) - 1) \in Seq(Entry)
  BY <1>1
<1>3. Append(f.recs, e) \in Seq(Entry)
  BY <1>1
<1>4. QED
  BY <1>1, <1>2, <1>3 DEF Land, File, Tails

(* What survives a power loss is a prefix of the file, or what was on disk. *)
LEMMA SurvivorsPrefix ==
  ASSUME NEW d \in File, NEW f \in File, NEW s \in Survivors(d, f)
  PROVE  /\ s \in File
         /\ \/ s.recs = d.recs
            \/ \E n \in 0 .. Len(f.recs) : s.recs = SubSeq(f.recs, 1, n)
<1>1. /\ f.recs \in Seq(Entry) /\ Len(f.recs) \in Nat
      /\ d.recs \in Seq(Entry) /\ Len(d.recs) \in Nat
  BY FileFields
<1> DEFINE Upto(k, t) == [recs |-> SubSeq(f.recs, 1, k), tail |-> t]
<1>2. ASSUME NEW k \in 0 .. Len(f.recs), NEW t \in Tails
      PROVE  Upto(k, t) \in File /\ Upto(k, t).recs = SubSeq(f.recs, 1, k)
  BY <1>1 DEF File
<1>3. f.recs = SubSeq(f.recs, 1, Len(f.recs))
  BY <1>1, SubSeqFull
<1>4. \/ s = d \/ s = f
      \/ \E k \in 0 .. Len(f.recs), t \in Tails : s = Upto(k, t)
  BY <1>1 DEF Survivors, Tails
<1>5. CASE s = d
  BY <1>5
<1>6. CASE s = f
  BY <1>1, <1>3, <1>6
<1>7. CASE \E k \in 0 .. Len(f.recs), t \in Tails : s = Upto(k, t)
  BY <1>2, <1>7
<1>8. QED
  BY <1>4, <1>5, <1>6, <1>7

(* An edited file is one load() can classify. *)
LEMMA EditedType ==
  ASSUME NEW f \in File, NEW g \in Altered(f) \cup Removed(f) \cup Mangled(f)
  PROVE  g \in File
<1>1. f.recs \in Seq(Entry) /\ f.tail \in Tails /\ Len(f.recs) \in Nat
      /\ DOMAIN f.recs = 1 .. Len(f.recs)
  BY FileFields
<1>2. CASE g \in Altered(f)
  <2>1. PICK i \in DOMAIN f.recs, ev \in Events :
          g = [f EXCEPT !.recs = [@ EXCEPT ![i].event = ev]]
    BY <1>2 DEF Altered
  <2>2. f.recs[i] \in Entry
    BY <1>1
  <2>3. [f.recs[i] EXCEPT !.event = ev] \in Entry
    BY <2>2 DEF Entry
  <2>4. [f.recs EXCEPT ![i].event = ev] \in Seq(Entry)
    BY <1>1, <2>3, ExceptSeq
  <2>5. g = [recs |-> [f.recs EXCEPT ![i].event = ev], tail |-> f.tail]
    BY <2>1 DEF File
  <2>6. QED
    BY <1>1, <2>4, <2>5 DEF File
<1>3. CASE g \in Removed(f)
  <2>1. PICK i \in 1 .. (Len(f.recs) - 1) :
          g = [f EXCEPT !.recs = SubSeq(@, 1, i - 1) \o SubSeq(@, i + 1, Len(@))]
    BY <1>3 DEF Removed
  <2>2. /\ SubSeq(f.recs, 1, i - 1) \in Seq(Entry)
        /\ SubSeq(f.recs, i + 1, Len(f.recs)) \in Seq(Entry)
    BY <1>1, SubSeqProperties
  <2>3. SubSeq(f.recs, 1, i - 1) \o SubSeq(f.recs, i + 1, Len(f.recs)) \in Seq(Entry)
    BY <2>2, ConcatProperties
  <2>4. g = [recs |-> SubSeq(f.recs, 1, i - 1) \o SubSeq(f.recs, i + 1, Len(f.recs)),
             tail |-> f.tail]
    BY <2>1 DEF File
  <2>5. QED
    BY <1>1, <2>3, <2>4 DEF File
<1>4. CASE g \in Mangled(f)
  <2>1. PICK i \in DOMAIN f.recs : g = [recs |-> SubSeq(f.recs, 1, i - 1), tail |-> "junk"]
    BY <1>4 DEF Mangled
  <2>2. SubSeq(f.recs, 1, i - 1) \in Seq(Entry)
    BY <1>1, SubSeqProperties
  <2>3. QED
    BY <2>1, <2>2 DEF File, Tails
<1>5. QED
  BY <1>2, <1>3, <1>4

-----------------------------------------------------------------------------
(* Type correctness *)

(* Ending a call resets what the call owned. *)
LEMMA EndCallType ==
  ASSUME TypeOK, NEW w \in Writers, NEW how \in Outcomes, EndCall(w, how)
  PROVE  /\ lock' \in Writers \cup {None}
         /\ pc' \in [Writers -> {"idle", "waiting", "locked", "writing"}]
         /\ todo' \in [Writers -> Seq(Events)]
         /\ draft' \in [Writers -> Entry \cup {None}]
         /\ put' \in [Writers -> 0 .. 3]
         /\ outcome' \in [Writers -> Outcomes]
         /\ \A v \in Writers : /\ pc'[v] \in {"waiting", "locked"} => todo'[v] # << >>
                               /\ pc'[v] = "writing" => draft'[v] # None
<1>1. lock' \in Writers \cup {None}
  BY DEF TypeOK, EndCall
<1>2. pc' \in [Writers -> {"idle", "waiting", "locked", "writing"}]
  BY DEF TypeOK, EndCall
<1>3. todo' \in [Writers -> Seq(Events)]
  BY DEF TypeOK, EndCall
<1>4. draft' \in [Writers -> Entry \cup {None}]
  BY DEF TypeOK, EndCall
<1>5. put' \in [Writers -> 0 .. 3] /\ outcome' \in [Writers -> Outcomes]
  BY DEF TypeOK, EndCall
<1>6. ASSUME NEW v \in Writers
      PROVE  /\ pc'[v] \in {"waiting", "locked"} => todo'[v] # << >>
             /\ pc'[v] = "writing" => draft'[v] # None
  <2>1. CASE v = w
    BY <2>1 DEF TypeOK, EndCall
  <2>2. CASE v # w
    <3>1. DOMAIN pc = Writers /\ DOMAIN todo = Writers /\ DOMAIN draft = Writers
      BY DEF TypeOK
    <3>2. pc'[v] = pc[v] /\ todo'[v] = todo[v] /\ draft'[v] = draft[v]
      BY <2>2, <3>1 DEF EndCall
    <3>3. QED
      BY <3>2 DEF TypeOK
  <2>3. QED
    BY <2>1, <2>2
<1>7. QED
  BY <1>1, <1>2, <1>3, <1>4, <1>5, <1>6

(* Every step keeps every variable in its type. *)
THEOREM TypeCorrect == Spec => []TypeOK
<1>1. Init => TypeOK
  <2>1. EmptyFile \in File
    BY DEF EmptyFile, File, Tails
  <2>2. NoHints \in [KeyIds -> File \cup {None}]
    BY DEF NoHints
  <2>3. NoKey \in KeyIds
    BY DEF KeyIds
  <2>4. QED
    BY <2>1, <2>2, <2>3 DEF Init, TypeOK, Outcomes
<1>2. TypeOK /\ [Next]_vars => TypeOK'
  <2> SUFFICES ASSUME TypeOK, [Next]_vars
               PROVE  TypeOK'
    OBVIOUS
  <2>n. NoHints \in [KeyIds -> File \cup {None}]
    BY DEF NoHints
  <2>h. ASSUME NEW w \in Writers
        PROVE  [head EXCEPT ![w] = NoHints] \in [Writers -> [KeyIds -> File \cup {None}]]
    BY <2>n DEF TypeOK
  <2>f. ASSUME NEW w \in Writers
        PROVE  [head EXCEPT ![w][key[w]] = file] \in [Writers -> [KeyIds -> File \cup {None}]]
    BY DEF TypeOK
  <2>1. ASSUME NEW w \in Writers, NEW evs \in Batches, NEW k \in KeyIds, Call(w, evs, k)
        PROVE  TypeOK'
    <3>1. evs \in Seq(Events) /\ evs # << >>
      <4>1. PICK n \in 1 .. MaxBatch : evs \in [1 .. n -> Events]
        BY DEF Batches
      <4>2. n \in Nat /\ n # 0
        BY <4>1, LedgerAssumption
      <4>3. evs \in Seq(Events) /\ Len(evs) = n
        BY <4>1, <4>2, IsASeq, LenProperties
      <4>4. QED
        BY <4>2, <4>3, EmptySeq
    <3>2. QED
      BY <2>1, <3>1 DEF TypeOK, Call, Outcomes
  <2>2. ASSUME NEW w \in Writers, Lock(w)
        PROVE  TypeOK'
    BY <2>2 DEF TypeOK, Lock, bounds
  <2>3. ASSUME NEW w \in Writers, Refuse(w)
        PROVE  TypeOK'
    <3>1. Refusal(w) \in Outcomes
      BY DEF Refusal, Outcomes
    <3>2. QED
      BY <2>3, <2>h, <3>1, EndCallType DEF TypeOK, Refuse, bounds
  <2>4. ASSUME NEW w \in Writers, Draft(w)
        PROVE  TypeOK'
    <3>1. file.recs \in Seq(Entry)
      BY DEF TypeOK, File
    <3>2. todo[w] \in Seq(Events) /\ todo[w] # << >> /\ Head(todo[w]) \in Events
      <4>1. todo[w] \in Seq(Events) /\ todo[w] # << >>
        BY <2>4 DEF Draft, TypeOK
      <4>2. QED
        BY <4>1, HeadTailProperties
    <3>3. Chained(file.recs, Head(todo[w]), key[w]) \in Entry
      BY <3>1, <3>2, ChainedType DEF TypeOK
    <3>4. Tail(todo[w]) \in Seq(Events)
      BY <3>2
    <3>5. /\ draft' \in [Writers -> Entry \cup {None}]
          /\ todo' \in [Writers -> Seq(Events)]
          /\ pc' \in [Writers -> {"idle", "waiting", "locked", "writing"}]
          /\ put' \in [Writers -> 0 .. 3]
      BY <2>4, <3>3, <3>4 DEF TypeOK, Draft
    <3>6. \A v \in Writers : /\ pc'[v] \in {"waiting", "locked"} => todo'[v] # << >>
                             /\ pc'[v] = "writing" => draft'[v] # None
      <4>1. TAKE v \in Writers
      <4>2. CASE v = w
        BY <2>4, <3>3, <4>2, LedgerAssumption DEF TypeOK, Draft
      <4>3. CASE v # w
        <5>1. DOMAIN pc = Writers /\ DOMAIN todo = Writers /\ DOMAIN draft = Writers
          BY DEF TypeOK
        <5>2. pc'[v] = pc[v] /\ todo'[v] = todo[v] /\ draft'[v] = draft[v]
          BY <2>4, <4>3, <5>1 DEF Draft
        <5>3. QED
          BY <5>2 DEF TypeOK
      <4>4. QED
        BY <4>2, <4>3
    <3>7. QED
      BY <2>4, <3>5, <3>6 DEF TypeOK, Draft, bounds
  <2>5. ASSUME NEW w \in Writers, NEW q \in 1 .. 3, Write(w, q)
        PROVE  TypeOK'
    <3>1. draft[w] \in Entry
      BY <2>5 DEF TypeOK, Write
    <3>2. file' \in File
      BY <2>5, <3>1, LandType DEF TypeOK, Write
    <3>3. QED
      BY <2>5, <3>2 DEF TypeOK, Write, bounds
  <2>6. ASSUME NEW w \in Writers, Sync(w)
        PROVE  TypeOK'
    <3>1. draft[w] \in Entry
      BY <2>6 DEF TypeOK, Sync
    <3>2. disk' \in File /\ returned' \subseteq Entry /\ done' \in [Writers -> Seq(Entry)]
      BY <2>6, <3>1 DEF TypeOK, Sync
    <3>3. head' \in [Writers -> [KeyIds -> File \cup {None}]]
      BY <2>6, <2>f, <2>h DEF Sync
    <3>4. CASE todo[w] # << >>
      BY <2>6, <3>2, <3>3, <3>4 DEF TypeOK, Sync, bounds
    <3>5. CASE todo[w] = << >>
      <4>1. EndCall(w, "ok") /\ "ok" \in Outcomes
        BY <2>6, <3>5 DEF Sync, Outcomes
      <4>2. QED
        BY <2>6, <3>2, <3>3, <4>1, EndCallType DEF TypeOK, Sync, bounds
    <3>6. QED
      BY <3>4, <3>5
  <2>7. ASSUME NEW w \in Writers, Fail(w)
        PROVE  TypeOK'
    BY <2>7, <2>h, EndCallType DEF TypeOK, Fail, Outcomes
  <2>8. ASSUME NEW w \in Writers, Kill(w)
        PROVE  TypeOK'
    BY <2>8, <2>h, EndCallType DEF TypeOK, Kill, Outcomes
  <2>9. ASSUME PowerLoss
        PROVE  TypeOK'
    <3>1. file' \in File /\ disk' \in File
      BY <2>9, SurvivorsPrefix DEF PowerLoss, TypeOK
    <3>2. QED
      BY <2>9, <2>n, <3>1 DEF TypeOK, PowerLoss, Outcomes
  <2>10. ASSUME Edit
         PROVE  TypeOK'
    <3>1. file' \in File /\ disk' \in File
      BY <2>10, EditedType DEF Edit, TypeOK
    <3>2. QED
      BY <2>10, <3>1 DEF TypeOK, Edit
  <2>11. CASE UNCHANGED vars
    BY <2>11 DEF TypeOK, vars, bounds
  <2>12. QED
    BY <2>1, <2>2, <2>3, <2>4, <2>5, <2>6, <2>7, <2>8, <2>9, <2>10, <2>11 DEF Next
<1>3. QED
  BY <1>1, <1>2, PTL DEF Spec
-----------------------------------------------------------------------------
(* The entries of the file are one chain *)

(* The key a writer gets past the refusals with is the key of the chain: this
   is what the three refusals and the head hint have to establish together. *)
LEMMA AcceptedKey ==
  ASSUME TypeOK, OneChain(file), HintsHonest, NEW w \in Writers,
         Refusal(w) = "none"
  PROVE  WellChained(file.recs, key[w])
<1>1. file.recs \in Seq(Entry) /\ Len(file.recs) \in Nat
      /\ DOMAIN file.recs = 1 .. Len(file.recs) /\ key[w] \in KeyIds
  BY FileFields DEF TypeOK
<1>2. ~ Downgrade(w) /\ ~ WrongKey(w) /\ ChainIntact(w)
  BY DEF Refusal
<1>3. PICK k \in KeyIds : WellChained(file.recs, k)
  BY DEF OneChain
<1>4. CASE file.recs = << >>
  BY <1>4, EmptyWellChained
<1>5. CASE file.recs # << >>
  <2>1. 1 \in DOMAIN file.recs
    BY <1>1, <1>5, EmptySeq
  <2>2. \A i \in DOMAIN file.recs : file.recs[i].key = k
    BY <1>3 DEF WellChained
  <2>3. RecordedKeys = {k} \ {NoKey}
    BY <2>1, <2>2 DEF RecordedKeys
  <2>4. CASE key[w] = NoKey
    BY <1>2, <1>3, <2>3, <2>4 DEF Downgrade
  <2>5. CASE key[w] # NoKey /\ k # NoKey
    BY <1>2, <1>3, <2>3, <2>5 DEF WrongKey
  <2>6. CASE key[w] # NoKey /\ k = NoKey
    <3>1. \A i \in DOMAIN file.recs : ~ ContentHolds(file.recs[i], key[w])
      BY <2>2, <2>6 DEF ContentHolds
    <3>2. ~ Intact(file.recs, key[w])
      BY <2>1, <3>1 DEF Intact, Holds
    <3>3. HintHolds(w)
      BY <1>2, <3>2 DEF ChainIntact
    <3> DEFINE h == head[w][key[w]]
               n == Len(h.recs)
               rest == SubSeq(file.recs, n + 1, Len(file.recs))
    <3>4. /\ h # None
          /\ n <= Len(file.recs)
          /\ SubSeq(file.recs, 1, n) = h.recs
          /\ Intact(rest, key[w])
      BY <3>3 DEF HintHolds
    <3>5. h \in File
      BY <1>1, <3>4 DEF TypeOK
    <3>6. h.recs \in Seq(Entry) /\ n \in Nat
      BY <3>5, FileFields
    <3>7. WellChained(h.recs, key[w])
      BY <1>1, <3>4 DEF HintsHonest
    <3>8. CASE n = 0
      <4>1. rest = file.recs
        BY <1>1, <3>8, SubSeqFull
      <4>2. QED
        BY <3>2, <3>4, <4>1
    <3>9. CASE n # 0
      <4>1. 1 \in 1 .. n /\ DOMAIN h.recs = 1 .. n
        BY <3>6, <3>9
      <4>2. h.recs[1] = file.recs[1]
        BY <1>1, <3>4, <3>6, <4>1
      <4>3. h.recs[1].key = key[w]
        BY <3>7, <4>1 DEF WellChained
      <4>4. QED
        BY <2>1, <2>2, <2>6, <4>2, <4>3
    <3>10. QED
      BY <3>8, <3>9
  <2>7. QED
    BY <2>4, <2>5, <2>6
<1>6. QED
  BY <1>4, <1>5

(* What _write_all() does to a chain its draft fits. *)
LEMMA LandKeepsChain ==
  ASSUME NEW f \in File, NEW k \in KeyIds, WellChained(f.recs, k), NEW e,
         NEW p \in 0 .. 3, NEW q \in 1 .. 3, p < q,
         p < 2 /\ f.tail \notin {"smear", "junk"}
           => \E ev \in Events : e = Chained(f.recs, ev, k)
  PROVE  /\ WellChained(Land(f, e, p, q).recs, k)
         /\ q < 2 /\ Land(f, e, p, q).tail \notin {"smear", "junk"}
              => \E ev \in Events : e = Chained(Land(f, e, p, q).recs, ev, k)
<1>1. f.recs \in Seq(Entry) /\ f.tail \in Tails /\ Len(f.recs) \in Nat
  BY FileFields
<1>2. CASE f.tail = "junk"
  BY <1>2 DEF Land
<1>3. CASE f.tail # "junk" /\ RunsTogether(f, p)
  <2>1. Land(f, e, p, q).tail \in {"smear", "junk"}
    BY <1>3 DEF Land
  <2>2. CASE f.tail = "open" /\ f.recs # << >>
    <3>1. Len(f.recs) - 1 \in 0 .. Len(f.recs)
      BY <1>1, <2>2, EmptySeq
    <3>2. WellChained(SubSeq(f.recs, 1, Len(f.recs) - 1), k)
      BY <1>1, <3>1, PrefixWellChained
    <3>3. Land(f, e, p, q).recs = SubSeq(f.recs, 1, Len(f.recs) - 1)
      BY <1>3, <2>2 DEF Land
    <3>4. QED
      BY <2>1, <3>2, <3>3
  <2>3. CASE f.tail = "open" /\ f.recs = << >>
    <3>1. SubSeq(f.recs, 1, Len(f.recs) - 1) = << >>
      BY <1>1, <2>3
    <3>2. Land(f, e, p, q).recs = << >>
      BY <1>3, <2>3, <3>1 DEF Land
    <3>3. QED
      BY <2>1, <3>2, EmptyWellChained
  <2>4. CASE f.tail # "open"
    BY <1>3, <2>1, <2>4 DEF Land
  <2>5. QED
    BY <2>2, <2>3, <2>4
<1>4. CASE f.tail # "junk" /\ ~ RunsTogether(f, p) /\ p < 2 /\ q >= 2
  <2>1. PICK ev \in Events : e = Chained(f.recs, ev, k)
    BY <1>4 DEF RunsTogether
  <2>2. Land(f, e, p, q).recs = Append(f.recs, e)
    BY <1>4 DEF Land
  <2>3. QED
    BY <1>1, <1>4, <2>1, <2>2, ChainedExtends
<1>5. CASE f.tail # "junk" /\ ~ RunsTogether(f, p) /\ ~ (p < 2 /\ q >= 2)
  <2>1. Land(f, e, p, q).recs = f.recs
    BY <1>5 DEF Land
  <2>2. QED
    BY <1>5, <2>1 DEF RunsTogether
<1>6. QED
  BY <1>2, <1>3, <1>4, <1>5

(* Ending the call of a writer, whatever it was doing, keeps the exclusion. *)
LEMMA EndCallKeepsLock ==
  ASSUME TypeOK, LockHeld, NEW w \in Writers, NEW how, EndCall(w, how)
  PROVE  LockHeld'
<1>1. DOMAIN pc = Writers
  BY DEF TypeOK
<1>2. SUFFICES ASSUME NEW v \in Writers
               PROVE  pc'[v] \in {"locked", "writing"} <=> lock' = v
  BY DEF LockHeld
<1>3. pc[v] \in {"locked", "writing"} <=> lock = v
  BY DEF LockHeld
<1>4. CASE v = w
  BY <1>1, <1>4, LedgerAssumption DEF EndCall
<1>5. CASE v # w
  <2>1. pc'[v] = pc[v]
    BY <1>1, <1>5 DEF EndCall
  <2>2. lock' = v <=> lock = v
    BY <1>5, LedgerAssumption DEF EndCall
  <2>3. QED
    BY <1>3, <2>1, <2>2
<1>6. QED
  BY <1>4, <1>5

(* ... and takes nothing from the other writers' drafts. *)
LEMMA EndCallKeepsDrafts ==
  ASSUME TypeOK, DraftFits, NEW w \in Writers, NEW how, EndCall(w, how),
         file' = file, key' = key
  PROVE  DraftFits'
<1>1. DOMAIN pc = Writers /\ DOMAIN put = Writers /\ DOMAIN draft = Writers
  BY DEF TypeOK
<1>2. SUFFICES ASSUME NEW v \in Writers, pc'[v] = "writing"
               PROVE  (/\ WellChained(file.recs, key[v])
                       /\ put[v] < 2 /\ file.tail \notin {"smear", "junk"}
                            => \E ev \in Events : draft[v] = Chained(file.recs, ev, key[v]))'
  BY DEF DraftFits
<1>3. v # w
  BY <1>1, <1>2 DEF EndCall
<1>4. pc'[v] = pc[v] /\ put'[v] = put[v] /\ draft'[v] = draft[v]
  BY <1>1, <1>3 DEF EndCall
<1>5. /\ WellChained(file.recs, key[v])
      /\ put[v] < 2 /\ file.tail \notin {"smear", "junk"}
           => \E ev \in Events : draft[v] = Chained(file.recs, ev, key[v])
  BY <1>2, <1>4 DEF DraftFits
<1>6. QED
  BY <1>4, <1>5

(* Forgetting a process's hints keeps the others honest. *)
LEMMA ForgetKeepsHints ==
  ASSUME TypeOK, HintsHonest, NEW w \in Writers,
         head' = head \/ head' = [head EXCEPT ![w] = NoHints]
  PROVE  HintsHonest'
<1>1. SUFFICES ASSUME NEW v \in Writers, NEW k \in KeyIds, head'[v][k] # None
               PROVE  WellChained(head'[v][k].recs, k)
  BY DEF HintsHonest
<1>2. head'[v][k] = head[v][k]
  <2>1. CASE head' = head
    BY <2>1
  <2>2. CASE head' = [head EXCEPT ![w] = NoHints] /\ v = w
    BY <1>1, <2>2 DEF TypeOK, NoHints
  <2>3. CASE head' = [head EXCEPT ![w] = NoHints] /\ v # w
    BY <2>3 DEF TypeOK
  <2>4. QED
    BY <2>1, <2>2, <2>3
<1>3. QED
  BY <1>1, <1>2 DEF HintsHonest

(* Only the holder of the lock can be writing. *)
LEMMA OneWriting ==
  ASSUME LockHeld, NEW v \in Writers, NEW w \in Writers,
         pc[v] \in {"locked", "writing"}, pc[w] \in {"locked", "writing"}
  PROVE  v = w
BY DEF LockHeld

(* After the fsync nobody is writing. *)
LEMMA SyncEndsWriting ==
  ASSUME TypeOK, LockHeld, NEW w \in Writers, Sync(w)
  PROVE  \A v \in Writers : pc'[v] # "writing"
<1>1. DOMAIN pc = Writers /\ pc[w] = "writing"
  BY DEF TypeOK, Sync
<1>2. pc'[w] # "writing"
  BY <1>1 DEF Sync, EndCall
<1>3. ASSUME NEW v \in Writers, v # w
      PROVE  pc'[v] # "writing"
  <2>1. pc'[v] = pc[v]
    BY <1>1, <1>3 DEF Sync, EndCall
  <2>2. QED
    BY <1>1, <1>3, <2>1, OneWriting
<1>4. QED
  BY <1>2, <1>3

(* ChainInvariant holds in every reachable state. *)
THEOREM ChainInvariantHolds == Spec => []ChainInvariant
<1>1. Init => ChainInvariant
  <2> SUFFICES ASSUME Init PROVE ChainInvariant
    OBVIOUS
  <2>1. LockHeld
    BY LedgerAssumption DEF Init, LockHeld
  <2>2. OneChain(file) /\ OneChain(disk)
    <3>1. file.recs = << >> /\ disk.recs = << >> /\ NoKey \in KeyIds
      BY DEF Init, EmptyFile, KeyIds
    <3>2. QED
      BY <3>1, EmptyWellChained DEF OneChain
  <2>3. DraftFits /\ HintsHonest
    BY DEF Init, DraftFits, HintsHonest, NoHints
  <2>4. QED
    BY <2>1, <2>2, <2>3 DEF ChainInvariant
<1>2. TypeOK /\ ChainInvariant /\ [Next]_vars => ChainInvariant'
  <2> SUFFICES ASSUME TypeOK, ChainInvariant, [Next]_vars
               PROVE  ChainInvariant'
    OBVIOUS
  <2>l. LockHeld
    BY DEF ChainInvariant
  <2>d. DOMAIN pc = Writers /\ DOMAIN put = Writers /\ DOMAIN draft = Writers
        /\ DOMAIN key = Writers /\ DOMAIN head = Writers
    BY DEF TypeOK
  <2>1. ASSUME NEW w \in Writers, NEW evs \in Batches, NEW k \in KeyIds, Call(w, evs, k)
        PROVE  ChainInvariant'
    <3>1. LockHeld'
      BY <2>1, <2>l, <2>d DEF Call, LockHeld
    <3>2. ASSUME edits = 0
          PROVE  (OneChain(file) /\ OneChain(disk) /\ DraftFits /\ HintsHonest)'
      <4>1. OneChain(file) /\ OneChain(disk) /\ DraftFits /\ HintsHonest
        BY <3>2 DEF ChainInvariant
      <4>2. DraftFits'
        <5>1. SUFFICES ASSUME NEW v \in Writers, pc'[v] = "writing"
                       PROVE  (/\ WellChained(file.recs, key[v])
                               /\ put[v] < 2 /\ file.tail \notin {"smear", "junk"}
                                    => \E ev \in Events : draft[v] = Chained(file.recs, ev, key[v]))'
          BY DEF DraftFits
        <5>2. v # w /\ pc[v] = "writing" /\ key'[v] = key[v]
          BY <2>1, <2>d, <5>1 DEF Call
        <5>3. file' = file /\ put' = put /\ draft' = draft
          BY <2>1 DEF Call
        <5>4. QED
          BY <4>1, <5>2, <5>3 DEF DraftFits
      <4>3. OneChain(file)' /\ OneChain(disk)' /\ HintsHonest'
        BY <2>1, <4>1 DEF Call, OneChain, HintsHonest
      <4>4. QED
        BY <4>2, <4>3
    <3>3. edits' = edits
      BY <2>1 DEF Call
    <3>4. QED
      BY <3>1, <3>2, <3>3 DEF ChainInvariant
  <2>2. ASSUME NEW w \in Writers, Lock(w)
        PROVE  ChainInvariant'
    <3>1. LockHeld'
      BY <2>2, <2>l, <2>d, LedgerAssumption DEF Lock, LockHeld
    <3>2. \A v \in Writers : pc'[v] = "writing" => pc[v] = "writing"
      BY <2>2, <2>d DEF Lock
    <3>3. UNCHANGED <<file, disk, key, draft, put, head, edits>>
      BY <2>2 DEF Lock, bounds
    <3>4. QED
      BY <3>1, <3>2, <3>3 DEF ChainInvariant, OneChain, DraftFits, HintsHonest
  <2>3. ASSUME NEW w \in Writers, Refuse(w)
        PROVE  ChainInvariant'
    <3>1. LockHeld'
      BY <2>3, <2>l, EndCallKeepsLock DEF Refuse
    <3>2. UNCHANGED <<file, disk, key, edits>> /\ EndCall(w, Refusal(w))
          /\ (head' = head \/ head' = [head EXCEPT ![w] = NoHints])
      BY <2>3 DEF Refuse, bounds
    <3>3. QED
      BY <3>1, <3>2, EndCallKeepsDrafts, ForgetKeepsHints DEF ChainInvariant, OneChain
  <2>4. ASSUME NEW w \in Writers, Draft(w)
        PROVE  ChainInvariant'
    <3>1. LockHeld'
      BY <2>4, <2>l, <2>d DEF Draft, LockHeld
    <3>2. UNCHANGED <<file, disk, key, head, edits>>
      BY <2>4 DEF Draft, bounds
    <3>3. ASSUME edits = 0
          PROVE  DraftFits'
      <4>1. OneChain(file) /\ HintsHonest /\ DraftFits
        BY <3>3 DEF ChainInvariant
      <4>2. WellChained(file.recs, key[w])
        BY <2>4, <4>1, AcceptedKey DEF Draft
      <4>3. SUFFICES ASSUME NEW v \in Writers, pc'[v] = "writing"
                     PROVE  (/\ WellChained(file.recs, key[v])
                             /\ put[v] < 2 /\ file.tail \notin {"smear", "junk"}
                                  => \E ev \in Events : draft[v] = Chained(file.recs, ev, key[v]))'
        BY DEF DraftFits
      <4>4. v = w
        <5>1. pc'[w] = "writing"
          BY <2>4, <2>d DEF Draft
        <5>2. QED
          BY <3>1, <4>3, <5>1 DEF LockHeld
      <4>5. Head(todo[w]) \in Events
        <5>1. todo[w] \in Seq(Events) /\ todo[w] # << >>
          BY <2>4 DEF Draft, TypeOK
        <5>2. QED
          BY <5>1, HeadTailProperties
      <4>6. draft'[w] = Chained(file.recs, Head(todo[w]), key[w])
        BY <2>4, <2>d DEF Draft
      <4>7. QED
        BY <3>2, <4>2, <4>4, <4>5, <4>6
    <3>4. QED
      BY <3>1, <3>2, <3>3 DEF ChainInvariant, OneChain, HintsHonest
  <2>5. ASSUME NEW w \in Writers, NEW q \in 1 .. 3, Write(w, q)
        PROVE  ChainInvariant'
    <3>1. UNCHANGED <<disk, pc, lock, key, draft, head, edits>>
      BY <2>5 DEF Write, bounds
    <3>2. LockHeld'
      BY <2>l, <3>1 DEF LockHeld
    <3>3. ASSUME edits = 0
          PROVE  OneChain(file)' /\ DraftFits'
      <4>1. DraftFits
        BY <3>3 DEF ChainInvariant
      <4>2. pc[w] = "writing" /\ put[w] < q /\ file' = Land(file, draft[w], put[w], q)
            /\ put'[w] = q
        BY <2>5, <2>d DEF Write
      <4>3. /\ WellChained(file.recs, key[w])
            /\ put[w] < 2 /\ file.tail \notin {"smear", "junk"}
                 => \E ev \in Events : draft[w] = Chained(file.recs, ev, key[w])
        BY <4>1, <4>2 DEF DraftFits
      <4>4. file \in File /\ put[w] \in 0 .. 3 /\ key[w] \in KeyIds
        BY DEF TypeOK
      <4>5. /\ WellChained(file'.recs, key[w])
            /\ q < 2 /\ file'.tail \notin {"smear", "junk"}
                 => \E ev \in Events : draft[w] = Chained(file'.recs, ev, key[w])
        BY <4>2, <4>3, <4>4, LandKeepsChain
      <4>6. OneChain(file)'
        BY <4>4, <4>5 DEF OneChain
      <4>7. SUFFICES ASSUME NEW v \in Writers, pc'[v] = "writing"
                     PROVE  (/\ WellChained(file.recs, key[v])
                             /\ put[v] < 2 /\ file.tail \notin {"smear", "junk"}
                                  => \E ev \in Events : draft[v] = Chained(file.recs, ev, key[v]))'
        BY <4>6 DEF DraftFits
      <4>8. v = w
        BY <2>l, <3>1, <4>2, <4>7, OneWriting
      <4>9. QED
        BY <3>1, <4>2, <4>5, <4>8
    <3>4. QED
      BY <3>1, <3>2, <3>3 DEF ChainInvariant, OneChain, HintsHonest
  <2>6. ASSUME NEW w \in Writers, Sync(w)
        PROVE  ChainInvariant'
    <3>1. UNCHANGED <<file, key, edits>> /\ disk' = file /\ pc[w] = "writing"
      BY <2>6 DEF Sync, bounds
    <3>2. LockHeld'
      <4>1. CASE todo[w] # << >>
        BY <2>6, <2>l, <2>d, <4>1 DEF Sync, LockHeld
      <4>2. CASE todo[w] = << >>
        BY <2>6, <2>l, <4>2, EndCallKeepsLock DEF Sync
      <4>3. QED
        BY <4>1, <4>2
    <3>3. ASSUME edits = 0
          PROVE  DraftFits' /\ HintsHonest'
      <4>1. DraftFits /\ HintsHonest
        BY <3>3 DEF ChainInvariant
      <4>2. WellChained(file.recs, key[w])
        BY <3>1, <4>1 DEF DraftFits
      <4>3. DraftFits'
        <5>1. \A v \in Writers : pc'[v] # "writing"
          BY <2>6, <2>l, SyncEndsWriting
        <5>2. QED
          BY <5>1 DEF DraftFits
      <4>4. HintsHonest'
        <5>1. CASE head' = [head EXCEPT ![w] = NoHints]
          BY <4>1, <5>1, ForgetKeepsHints
        <5>2. CASE head' = [head EXCEPT ![w][key[w]] = file]
          <6>1. SUFFICES ASSUME NEW v \in Writers, NEW k \in KeyIds, head'[v][k] # None
                         PROVE  WellChained(head'[v][k].recs, k)
            BY DEF HintsHonest
          <6>2. CASE v = w /\ k = key[w]
            <7>1. head'[v][k] = file
              BY <2>d, <5>2, <6>2 DEF TypeOK
            <7>2. QED
              BY <4>2, <6>2, <7>1
          <6>3. CASE ~ (v = w /\ k = key[w])
            <7>1. head'[v][k] = head[v][k]
              BY <2>d, <5>2, <6>3 DEF TypeOK
            <7>2. QED
              BY <4>1, <6>1, <7>1 DEF HintsHonest
          <6>4. QED
            BY <6>2, <6>3
        <5>3. QED
          BY <2>6, <5>1, <5>2 DEF Sync
      <4>5. QED
        BY <4>3, <4>4
    <3>4. QED
      BY <3>1, <3>2, <3>3 DEF ChainInvariant, OneChain
  <2>7. ASSUME NEW w \in Writers, Fail(w)
        PROVE  ChainInvariant'
    <3>1. LockHeld'
      BY <2>7, <2>l, EndCallKeepsLock DEF Fail
    <3>2. UNCHANGED <<file, disk, key, edits>> /\ EndCall(w, "error")
          /\ (head' = head \/ head' = [head EXCEPT ![w] = NoHints])
      BY <2>7 DEF Fail
    <3>3. QED
      BY <3>1, <3>2, EndCallKeepsDrafts, ForgetKeepsHints DEF ChainInvariant, OneChain
  <2>8. ASSUME NEW w \in Writers, Kill(w)
        PROVE  ChainInvariant'
    <3>1. LockHeld'
      BY <2>8, <2>l, EndCallKeepsLock DEF Kill
    <3>2. UNCHANGED <<file, disk, key, edits>> /\ EndCall(w, "killed")
          /\ head' = [head EXCEPT ![w] = NoHints]
      BY <2>8 DEF Kill
    <3>3. QED
      BY <3>1, <3>2, EndCallKeepsDrafts, ForgetKeepsHints DEF ChainInvariant, OneChain
  <2>9. ASSUME PowerLoss
        PROVE  ChainInvariant'
    <3>1. LockHeld'
      BY <2>9, LedgerAssumption DEF PowerLoss, LockHeld
    <3>2. DraftFits' /\ HintsHonest'
      BY <2>9 DEF PowerLoss, DraftFits, HintsHonest, NoHints
    <3>3. ASSUME edits = 0
          PROVE  OneChain(file') /\ OneChain(disk')
      <4>1. file' \in Survivors(disk, file) /\ disk' = file'
        BY <2>9 DEF PowerLoss
      <4>2. \/ file'.recs = disk.recs
            \/ \E n \in 0 .. Len(file.recs) : file'.recs = SubSeq(file.recs, 1, n)
        BY <4>1, SurvivorsPrefix DEF TypeOK
      <4>3. OneChain(file) /\ OneChain(disk)
        BY <3>3 DEF ChainInvariant
      <4>4. file.recs \in Seq(Entry)
        BY DEF TypeOK, File
      <4>5. OneChain(file')
        BY <4>2, <4>3, <4>4, PrefixWellChained DEF OneChain
      <4>6. QED
        BY <4>1, <4>5
    <3>4. edits' = edits
      BY <2>9 DEF PowerLoss
    <3>5. QED
      BY <3>1, <3>2, <3>3, <3>4 DEF ChainInvariant
  <2>10. ASSUME Edit
         PROVE  ChainInvariant'
    <3>1. edits' # 0
      BY <2>10 DEF Edit, TypeOK
    <3>2. LockHeld'
      BY <2>10, <2>l DEF Edit, LockHeld
    <3>3. QED
      BY <3>1, <3>2 DEF ChainInvariant
  <2>11. CASE UNCHANGED vars
    BY <2>11 DEF vars, bounds, ChainInvariant, LockHeld, OneChain, DraftFits, HintsHonest
  <2>12. QED
    BY <2>1, <2>2, <2>3, <2>4, <2>5, <2>6, <2>7, <2>8, <2>9, <2>10, <2>11 DEF Next
<1>3. QED
  BY <1>1, <1>2, TypeCorrect, PTL DEF Spec

(* The entries the ledger holds are one chain under one key, in every reachable
   state of every instance, unless something other than the sink edited it. *)
THEOREM ChainAlwaysHolds == Spec => []ChainHolds
<1>1. ChainInvariant => ChainHolds
  BY DEF ChainInvariant, ChainHolds, OneChain
<1>2. QED
  BY <1>1, ChainInvariantHolds, PTL

-----------------------------------------------------------------------------
(* What a refusal may say *)

(* A call that is still under way has not been given an outcome: only the step
   that ends a call names one. *)
LEMMA OutcomePendingHolds == Spec => []OutcomePending
<1>1. Init => OutcomePending
  BY DEF Init, OutcomePending
<1>2. TypeOK /\ OutcomePending /\ [Next]_vars => OutcomePending'
  <2> SUFFICES ASSUME TypeOK, OutcomePending, [Next]_vars,
                      NEW v \in Writers, pc'[v] # "idle"
               PROVE  outcome'[v] = "none"
    BY DEF OutcomePending
  <2>d. DOMAIN pc = Writers /\ DOMAIN outcome = Writers
    BY DEF TypeOK
  <2>o. pc[v] # "idle" => outcome[v] = "none"
    BY DEF OutcomePending
  <2>1. ASSUME NEW w \in Writers, NEW evs \in Batches, NEW k \in KeyIds, Call(w, evs, k)
        PROVE  outcome'[v] = "none"
    BY <2>1, <2>d, <2>o DEF Call
  <2>2. ASSUME NEW w \in Writers, Lock(w)
        PROVE  outcome'[v] = "none"
    BY <2>2, <2>d, <2>o DEF Lock
  <2>e. ASSUME NEW w \in Writers, NEW how, EndCall(w, how)
        PROVE  outcome'[v] = "none"
    BY <2>e, <2>d, <2>o DEF EndCall
  <2>4. ASSUME NEW w \in Writers, Draft(w)
        PROVE  outcome'[v] = "none"
    BY <2>4, <2>d, <2>o DEF Draft
  <2>5. ASSUME NEW w \in Writers, NEW q \in 1 .. 3, Write(w, q)
        PROVE  outcome'[v] = "none"
    BY <2>5, <2>o DEF Write
  <2>6. ASSUME NEW w \in Writers, Sync(w)
        PROVE  outcome'[v] = "none"
    BY <2>6, <2>d, <2>o, <2>e DEF Sync
  <2>7. ASSUME NEW w \in Writers, Refuse(w) \/ Fail(w) \/ Kill(w)
        PROVE  outcome'[v] = "none"
    BY <2>7, <2>e DEF Refuse, Fail, Kill
  <2>9. ASSUME PowerLoss
        PROVE  outcome'[v] = "none"
    BY <2>9 DEF PowerLoss
  <2>10. ASSUME Edit
         PROVE  outcome'[v] = "none"
    BY <2>10, <2>o DEF Edit
  <2>11. CASE UNCHANGED vars
    BY <2>11, <2>o DEF vars
  <2>12. QED
    BY <2>1, <2>2, <2>4, <2>5, <2>6, <2>7, <2>9, <2>10, <2>11 DEF Next
<1>3. QED
  BY <1>1, <1>2, TypeCorrect, PTL DEF Spec

(* On a chain nobody edited, only a key that meets an unkeyed ledger is refused
   as tampering. *)
LEMMA BrokenMeansSpliced ==
  ASSUME TypeOK, OneChain(file), NEW w \in Writers, Refusal(w) = "broken"
  PROVE  key[w] # NoKey /\ RecordedKeys = {} /\ file.recs # << >>
<1>1. ~ Downgrade(w) /\ ~ WrongKey(w) /\ ~ Intact(file.recs, key[w])
  BY DEF Refusal, ChainIntact
<1>2. PICK k \in KeyIds : WellChained(file.recs, k)
  BY DEF OneChain
<1>3. file.recs \in Seq(Entry)
  BY DEF TypeOK, File
<1>4. key[w] # k /\ key[w] # NoKey
  BY <1>1, <1>2, <1>3, OwnLogIntact
<1>5. file.recs # << >>
  BY <1>1 DEF Intact
<1>6. RecordedKeys \subseteq {k}
  BY <1>2 DEF RecordedKeys, WellChained
<1>7. QED
  BY <1>1, <1>4, <1>5, <1>6 DEF WrongKey

(* No writer is ever told of tampering on account of a crash, a missing key or
   a wrong key. *)
THEOREM TamperAlwaysMeansEdited == Spec => TamperMeansEdited
<1> DEFINE Honest ==
      \A w \in Writers :
        pc[w] = "locked" /\ outcome'[w] = "broken"
          => \/ edits > 0
             \/ key[w] # NoKey /\ RecordedKeys = {} /\ file.recs # << >>
<1>1. TypeOK /\ ChainInvariant /\ OutcomePending /\ [Next]_vars => Honest
  <2> SUFFICES ASSUME TypeOK, ChainInvariant, OutcomePending, [Next]_vars,
                      NEW v \in Writers, pc[v] = "locked", outcome'[v] = "broken"
               PROVE  edits > 0 \/ (key[v] # NoKey /\ RecordedKeys = {} /\ file.recs # << >>)
    OBVIOUS
  <2>d. DOMAIN pc = Writers /\ DOMAIN outcome = Writers /\ edits \in Nat
    BY DEF TypeOK
  <2>o. outcome[v] = "none"
    BY DEF OutcomePending
  <2>e. ASSUME NEW w \in Writers, NEW how, EndCall(w, how)
        PROVE  w = v /\ how = "broken"
    BY <2>e, <2>d, <2>o DEF EndCall
  <2>1. ASSUME NEW w \in Writers, Refuse(w)
        PROVE  edits > 0 \/ (key[v] # NoKey /\ RecordedKeys = {} /\ file.recs # << >>)
    <3>1. w = v /\ Refusal(v) = "broken"
      BY <2>1, <2>e DEF Refuse
    <3>2. CASE edits = 0
      BY <3>1, <3>2, BrokenMeansSpliced DEF ChainInvariant
    <3>3. QED
      BY <2>d, <3>2
  <2>2. ASSUME NEW w \in Writers, NEW evs \in Batches, NEW k \in KeyIds, Call(w, evs, k)
        PROVE  FALSE
    BY <2>2, <2>d, <2>o DEF Call
  <2>3. ASSUME NEW w \in Writers, Lock(w) \/ Draft(w) \/ (\E q \in 1 .. 3 : Write(w, q))
        PROVE  FALSE
    BY <2>3, <2>o DEF Lock, Draft, Write
  <2>4. ASSUME NEW w \in Writers, Sync(w) \/ Fail(w) \/ Kill(w)
        PROVE  FALSE
    BY <2>4, <2>e, <2>o DEF Sync, Fail, Kill
  <2>5. ASSUME PowerLoss
        PROVE  FALSE
    BY <2>5, <2>d DEF PowerLoss
  <2>6. ASSUME Edit
        PROVE  FALSE
    BY <2>6, <2>o DEF Edit
  <2>7. CASE UNCHANGED vars
    BY <2>7, <2>o DEF vars
  <2>8. QED
    BY <2>1, <2>2, <2>3, <2>4, <2>5, <2>6, <2>7 DEF Next
<1>2. TypeOK /\ ChainInvariant /\ OutcomePending /\ [Next]_vars => [Honest]_vars
  BY <1>1
<1>3. QED
  BY <1>2, TypeCorrect, ChainInvariantHolds, OutcomePendingHolds, PTL
     DEF Spec, TamperMeansEdited

-----------------------------------------------------------------------------
(* What has been returned stays on the disk *)

(* In a chain the sequence number of an entry is its place. *)
LEMMA ChainPlaces ==
  ASSUME NEW log \in Seq(Entry), NEW k \in KeyIds, WellChained(log, k),
         NEW e \in EntriesOf(log)
  PROVE  e.seq < Len(log)
<1>1. PICK i \in DOMAIN log : e = log[i]
  BY DEF EntriesOf
<1>2. log[i].seq = i - 1 /\ i \in 1 .. Len(log) /\ Len(log) \in Nat
  BY <1>1 DEF WellChained, Linked
<1>3. QED
  BY <1>1, <1>2

(* The entries of a prefix are entries of the whole. *)
LEMMA PrefixEntries ==
  ASSUME NEW s \in Seq(Entry), NEW t \in Seq(Entry), StartsWith(t, s)
  PROVE  EntriesOf(s) \subseteq EntriesOf(t)
BY DEF StartsWith, EntriesOf

(* So is what a cut leaves. *)
LEMMA CutEntries ==
  ASSUME NEW s \in Seq(Entry), NEW t \in Seq(Entry), StartsWith(t, s),
         NEW n \in Len(s) .. Len(t)
  PROVE  /\ SubSeq(t, 1, n) \in Seq(Entry)
         /\ StartsWith(SubSeq(t, 1, n), s)
         /\ Len(SubSeq(t, 1, n)) = n
<1>1. Len(s) \in Nat /\ Len(t) \in Nat /\ n \in 0 .. Len(t)
  BY DEF StartsWith
<1>2. SubSeq(t, 1, n) \in Seq(Entry) /\ Len(SubSeq(t, 1, n)) = n
  BY <1>1, SubSeqProperties
<1>3. \A i \in 1 .. n : SubSeq(t, 1, n)[i] = t[i]
  BY <1>1, SubSeqProperties
<1>4. QED
  BY <1>1, <1>2, <1>3 DEF StartsWith

(* Ended() takes at most the last entry. *)
LEMMA EndedIsCut ==
  ASSUME NEW f \in File
  PROVE  /\ Ended(f) \in Seq(Entry)
         /\ StartsWith(f.recs, Ended(f))
         /\ EntriesOf(Ended(f)) \subseteq EntriesOf(f.recs)
<1>1. f.recs \in Seq(Entry) /\ Len(f.recs) \in Nat
  BY FileFields
<1>2. CASE f.tail # "open"
  BY <1>1, <1>2, PrefixEntries DEF Ended, StartsWith
<1>3. CASE f.tail = "open" /\ f.recs = << >>
  <2>1. Ended(f) = << >>
    BY <1>1, <1>3 DEF Ended
  <2>2. QED
    BY <1>1, <1>3, <2>1 DEF StartsWith, EntriesOf
<1>4. CASE f.tail = "open" /\ f.recs # << >>
  <2>1. << >> \in Seq(Entry) /\ StartsWith(f.recs, << >>)
    BY <1>1 DEF StartsWith
  <2>2. Len(f.recs) - 1 \in Len(<< >>) .. Len(f.recs)
    BY <1>1, <1>4, EmptySeq
  <2>3. Ended(f) \in Seq(Entry) /\ Len(Ended(f)) = Len(f.recs) - 1
    BY <1>1, <1>4, <2>1, <2>2, CutEntries DEF Ended
  <2>4. \A i \in 1 .. Len(Ended(f)) : Ended(f)[i] = f.recs[i]
    BY <1>1, <1>4, <2>3, SubSeqProperties DEF Ended
  <2>5. StartsWith(f.recs, Ended(f))
    BY <1>1, <2>3, <2>4 DEF StartsWith
  <2>6. QED
    BY <1>1, <2>3, <2>5, PrefixEntries
<1>5. QED
  BY <1>2, <1>3, <1>4

(* Cutting the open line of a longer file takes nothing from a prefix. *)
LEMMA EndedKeepsPrefix ==
  ASSUME NEW f \in File, NEW s \in Seq(Entry), StartsWith(f.recs, s),
         f.tail = "open" => Len(s) < Len(f.recs)
  PROVE  StartsWith(Ended(f), s)
<1>1. f.recs \in Seq(Entry) /\ Len(f.recs) \in Nat /\ Len(s) \in Nat
  BY FileFields
<1>2. CASE f.tail # "open"
  BY <1>2 DEF Ended
<1>3. CASE f.tail = "open"
  <2>1. Len(f.recs) - 1 \in Len(s) .. Len(f.recs)
    BY <1>1, <1>3
  <2>2. QED
    BY <1>1, <1>3, <2>1, CutEntries DEF Ended
<1>4. QED
  BY <1>2, <1>3

(* The file holds every finished line the disk holds. *)
LEMMA BehindKeeps ==
  ASSUME NEW d \in File, NEW f \in File, Behind(d, f)
  PROVE  EntriesOf(Ended(d)) \subseteq EntriesOf(Ended(f))
<1>1. CASE d = f
  BY <1>1
<1>2. CASE d.tail = "clean" /\ StartsWith(f.recs, d.recs)
           /\ (f.tail = "open" => Len(d.recs) < Len(f.recs))
  <2>1. d.recs \in Seq(Entry) /\ Ended(d) = d.recs
    BY <1>2, FileFields DEF Ended
  <2>2. StartsWith(Ended(f), d.recs) /\ Ended(f) \in Seq(Entry)
    BY <1>2, <2>1, EndedKeepsPrefix, EndedIsCut
  <2>3. QED
    BY <2>1, <2>2, PrefixEntries
<1>3. CASE d.tail = "open" /\ f.tail \in {"smear", "junk"} /\ f.recs = Ended(d)
  BY <1>3 DEF Ended
<1>4. QED
  BY <1>1, <1>2, <1>3 DEF Behind

(* append() numbers an entry by the length of the log it extends. *)
LEMMA ChainedAtEnd ==
  ASSUME NEW log, NEW ev, NEW k
  PROVE  Chained(log, ev, k).seq = Len(log)
BY DEF Chained

(* _write_all() writes behind everything the disk has, and a record that lands on
   an open line takes with it only that line, which nobody was promised. *)
LEMMA LandStaysAhead ==
  ASSUME NEW d \in File, NEW f \in File, Behind(d, f), NEW e \in Entry,
         NEW k \in KeyIds, WellChained(f.recs, k),
         NEW p \in 0 .. 3, NEW q \in 1 .. 3, p < q, LineSoFar(d, f, e, p),
         p < 2 /\ f.tail \notin {"smear", "junk"}
           => \E ev \in Events : e = Chained(f.recs, ev, k)
  PROVE  Behind(d, Land(f, e, p, q)) /\ LineSoFar(d, Land(f, e, p, q), e, q)
<1> DEFINE g == Land(f, e, p, q)
<1>1. /\ f.recs \in Seq(Entry) /\ f.tail \in Tails /\ Len(f.recs) \in Nat
      /\ d.recs \in Seq(Entry) /\ d.tail \in Tails /\ Len(d.recs) \in Nat
  BY FileFields
<1>2. p < 2 /\ f.tail \notin {"smear", "junk"} => e.seq = Len(f.recs)
  BY ChainedAtEnd
<1>3. \A x \in EntriesOf(f.recs) : x.seq < Len(f.recs)
  BY <1>1, ChainPlaces
<1>4. StartsWith(f.recs, f.recs)
  BY <1>1 DEF StartsWith
<1>5. /\ Append(f.recs, e) \in Seq(Entry)
      /\ Len(Append(f.recs, e)) = Len(f.recs) + 1
      /\ \A i \in 1 .. Len(f.recs) : Append(f.recs, e)[i] = f.recs[i]
      /\ Append(f.recs, e)[Len(f.recs) + 1] = e
  BY <1>1
<1>6. ASSUME NEW s \in Seq(Entry), StartsWith(f.recs, s)
      PROVE  StartsWith(Append(f.recs, e), s)
  BY <1>1, <1>5, <1>6 DEF StartsWith
<1>7. Append(f.recs, e) # << >>
  BY <1>1
<1>8. CASE f.tail \in {"clean", "torn"}
  <2>1. p \in {0, 1, 3} /\ p < 2 /\ (p = 0 => f.tail = "clean") /\ (p = 1 => f.tail = "torn")
    BY <1>8 DEF LineSoFar
  <2>2. ~ RunsTogether(f, p)
    BY <1>8, <2>1 DEF RunsTogether
  <2>3. d.tail = "clean"
    BY <1>8, <2>1 DEF LineSoFar, Behind
  <2>4. StartsWith(f.recs, d.recs)
    BY <1>4, <1>8, <2>3 DEF Behind
  <2>5. CASE q = 1
    <3>1. g.recs = f.recs /\ g.tail = "torn"
      BY <1>8, <2>1, <2>2, <2>5 DEF Land
    <3>2. Behind(d, g)
      BY <2>3, <2>4, <3>1 DEF Behind
    <3>3. LineSoFar(d, g, e, q)
      BY <2>3, <2>5, <3>1 DEF LineSoFar
    <3>4. QED
      BY <3>2, <3>3
  <2>6. CASE q \in {2, 3}
    <3>1. g.recs = Append(f.recs, e) /\ g.tail = IF q = 2 THEN "open" ELSE "clean"
      BY <1>8, <2>1, <2>2, <2>6 DEF Land
    <3>2. StartsWith(g.recs, d.recs) /\ Len(d.recs) < Len(g.recs)
      BY <1>1, <1>5, <1>6, <2>4, <3>1 DEF StartsWith
    <3>3. Behind(d, g)
      BY <2>3, <3>2 DEF Behind
    <3>4. g.recs[Len(g.recs)] = e /\ g.recs # << >>
      BY <1>5, <1>7, <3>1
    <3>5. LineSoFar(d, g, e, q)
      BY <2>3, <2>6, <3>1, <3>4 DEF LineSoFar
    <3>6. QED
      BY <3>3, <3>5
  <2>7. QED
    BY <2>5, <2>6
<1>9. CASE f.tail = "open" /\ p = 0
  <2>1. g.recs = Ended(f) /\ g.tail = IF q = 3 THEN "junk" ELSE "smear"
    BY <1>9 DEF Land, RunsTogether, Ended
  <2>2. d = f \/ (d.tail = "clean" /\ StartsWith(f.recs, d.recs) /\ Len(d.recs) < Len(f.recs))
    BY <1>9 DEF Behind
  <2>3. Behind(d, g)
    <3>1. CASE d = f
      BY <1>9, <2>1, <3>1 DEF Behind
    <3>2. CASE d.tail = "clean" /\ StartsWith(f.recs, d.recs) /\ Len(d.recs) < Len(f.recs)
      <4>1. StartsWith(g.recs, d.recs)
        BY <1>1, <2>1, <3>2, EndedKeepsPrefix
      <4>2. QED
        BY <2>1, <3>2, <4>1 DEF Behind
    <3>3. QED
      BY <2>2, <3>1, <3>2
  <2>4. e \notin EntriesOf(g.recs)
    BY <1>1, <1>2, <1>3, <1>9, <2>1, EndedIsCut
  <2>5. LineSoFar(d, g, e, q)
    BY <1>9, <2>1, <2>4 DEF LineSoFar
  <2>6. QED
    BY <2>3, <2>5
<1>10. CASE f.tail = "open" /\ p # 0
  <2>1. p = 2 /\ q = 3 /\ d.tail = "clean" /\ f.recs # << >> /\ f.recs[Len(f.recs)] = e
    BY <1>10 DEF LineSoFar
  <2>2. g.recs = f.recs /\ g.tail = "clean"
    BY <1>10, <2>1 DEF Land, RunsTogether
  <2>3. StartsWith(f.recs, d.recs)
    BY <1>10, <2>1 DEF Behind
  <2>4. Behind(d, g)
    BY <2>1, <2>2, <2>3 DEF Behind
  <2>5. LineSoFar(d, g, e, q)
    BY <2>1, <2>2 DEF LineSoFar
  <2>6. QED
    BY <2>4, <2>5
<1>11. CASE f.tail = "smear"
  <2>1. p \in {1, 2} /\ q \in {2, 3} /\ d.tail \in {"clean", "open"} /\ e \notin EntriesOf(f.recs)
    BY <1>11 DEF LineSoFar
  <2>2. g.recs = f.recs /\ g.tail = IF q = 3 THEN "junk" ELSE "smear"
    BY <1>11 DEF Land, RunsTogether
  <2>3. Behind(d, g)
    BY <1>11, <2>1, <2>2 DEF Behind
  <2>4. LineSoFar(d, g, e, q)
    BY <2>1, <2>2 DEF LineSoFar
  <2>5. QED
    BY <2>3, <2>4
<1>12. f.tail # "junk"
  BY DEF LineSoFar
<1>13. QED
  BY <1>1, <1>8, <1>9, <1>10, <1>11, <1>12 DEF Tails

(* A power loss takes none of the finished lines the disk holds. *)
LEMMA SurvivorsKeep ==
  ASSUME NEW d \in File, NEW f \in File, Behind(d, f), NEW s \in Survivors(d, f)
  PROVE  EntriesOf(Ended(d)) \subseteq EntriesOf(Ended(s))
<1>1. /\ f.recs \in Seq(Entry) /\ f.tail \in Tails /\ Len(f.recs) \in Nat
      /\ d.recs \in Seq(Entry) /\ d.tail \in Tails /\ Len(d.recs) \in Nat
  BY FileFields
<1> DEFINE n == Len(d.recs)
           m == Len(f.recs)
           Upto(k, t) == [recs |-> SubSeq(f.recs, 1, k), tail |-> t]
<1>2. Upto(m, "smear").recs = f.recs /\ Upto(m, "clean").recs = f.recs
      /\ Upto(m, "torn").recs = f.recs
  BY <1>1, SubSeqFull
<1>3. \/ s = d \/ s = f
      \/ f.tail = "junk" /\ s = Upto(m, "smear")
      \/ /\ d.tail = "clean"
         /\ \/ \E k \in n .. (m - 1), t \in {"clean", "torn"} : s = Upto(k, t)
            \/ \E k \in (n + 1) .. m : s = Upto(k, "open")
      \/ f.tail \in {"torn", "smear", "junk"} /\ s \in {Upto(m, "clean"), Upto(m, "torn")}
  BY DEF Survivors
<1>4. EntriesOf(Ended(d)) \subseteq EntriesOf(Ended(f))
  BY BehindKeeps
<1>5. CASE s = d \/ s = f
  BY <1>4, <1>5
<1>6. CASE f.tail = "junk" /\ s = Upto(m, "smear")
  <2>1. Ended(s) = f.recs /\ Ended(f) = f.recs
    BY <1>2, <1>6 DEF Ended
  <2>2. QED
    BY <1>4, <2>1
<1>7. CASE f.tail \in {"torn", "smear", "junk"} /\ s \in {Upto(m, "clean"), Upto(m, "torn")}
  <2>1. Ended(s) = f.recs /\ Ended(f) = f.recs
    BY <1>2, <1>7 DEF Ended
  <2>2. QED
    BY <1>4, <2>1
<1>8. ASSUME d.tail = "clean", NEW k \in n .. m, NEW t \in Tails, s = Upto(k, t),
             t = "open" => n < k
      PROVE  EntriesOf(Ended(d)) \subseteq EntriesOf(Ended(s))
  <2>1. Ended(d) = d.recs
    BY <1>8 DEF Ended
  <2>2. StartsWith(f.recs, d.recs)
    <3>1. CASE d = f
      BY <1>1, <3>1 DEF StartsWith
    <3>2. QED
      BY <1>8, <3>1 DEF Behind
  <2>3. /\ s.recs \in Seq(Entry) /\ StartsWith(s.recs, d.recs) /\ Len(s.recs) = k
        /\ s.tail = t
    BY <1>1, <1>8, <2>2, CutEntries
  <2>4. s \in File
    BY <1>8, <2>3 DEF File
  <2>5. StartsWith(Ended(s), d.recs) /\ Ended(s) \in Seq(Entry)
    BY <1>1, <1>8, <2>3, <2>4, EndedKeepsPrefix, EndedIsCut
  <2>6. QED
    BY <1>1, <2>1, <2>5, PrefixEntries
<1>9. CASE /\ d.tail = "clean"
           /\ \/ \E k \in n .. (m - 1), t \in {"clean", "torn"} : s = Upto(k, t)
              \/ \E k \in (n + 1) .. m : s = Upto(k, "open")
  <2>1. CASE \E k \in n .. (m - 1), t \in {"clean", "torn"} : s = Upto(k, t)
    <3>1. PICK k \in n .. (m - 1), t \in {"clean", "torn"} : s = Upto(k, t)
      BY <2>1
    <3>2. k \in n .. m /\ t \in Tails
      BY <1>1, <3>1 DEF Tails
    <3>3. QED
      BY <1>8, <1>9, <3>1, <3>2
  <2>2. CASE \E k \in (n + 1) .. m : s = Upto(k, "open")
    <3>1. PICK k \in (n + 1) .. m : s = Upto(k, "open")
      BY <2>2
    <3>2. k \in n .. m /\ n < k /\ "open" \in Tails
      BY <1>1, <3>1 DEF Tails
    <3>3. QED
      BY <1>8, <1>9, <3>1, <3>2
  <2>3. QED
    BY <1>9, <2>1, <2>2
<1>10. QED
  BY <1>3, <1>5, <1>6, <1>7, <1>9

(* A step that leaves the files and what was returned alone, and starts no write,
   keeps the invariant. *)
LEMMA IdleKeepsLines ==
  ASSUME LineInvariant, UNCHANGED <<file, disk, returned, edits>>,
         \A v \in Writers : pc'[v] = "writing" =>
            pc[v] = "writing" /\ draft'[v] = draft[v] /\ put'[v] = put[v]
  PROVE  LineInvariant'
<1>1. SUFFICES ASSUME edits = 0
               PROVE  /\ Behind(disk', file')
                      /\ Durable'
                      /\ \A v \in Writers : pc'[v] = "writing" =>
                           LineSoFar(disk', file', draft'[v], put'[v]) /\ draft'[v] \notin returned'
  BY DEF LineInvariant
<1>2. /\ Behind(disk, file)
      /\ Durable
      /\ \A v \in Writers : pc[v] = "writing" =>
           LineSoFar(disk, file, draft[v], put[v]) /\ draft[v] \notin returned
  BY <1>1 DEF LineInvariant
<1>3. Durable'
  BY <1>2 DEF Durable
<1>4. QED
  BY <1>2, <1>3

(* Ending a call leaves the other writers where they are. *)
LEMMA EndCallStartsNoWrite ==
  ASSUME TypeOK, NEW w \in Writers, NEW how, EndCall(w, how)
  PROVE  \A v \in Writers : pc'[v] = "writing" =>
            pc[v] = "writing" /\ draft'[v] = draft[v] /\ put'[v] = put[v]
<1>1. DOMAIN pc = Writers /\ DOMAIN draft = Writers /\ DOMAIN put = Writers
  BY DEF TypeOK
<1>2. QED
  BY <1>1 DEF EndCall

(* While nothing has edited the file, finished lines stay: the strengthening
   from which LossIsSingleAndSeen follows. *)
THEOREM LineInvariantHolds == Spec => []LineInvariant
<1>1. Init => LineInvariant
  <2> SUFFICES ASSUME Init PROVE LineInvariant
    OBVIOUS
  <2>1. disk = file /\ returned = {} /\ \A w \in Writers : pc[w] = "idle"
    BY DEF Init
  <2>2. QED
    BY <2>1 DEF LineInvariant, Behind, Durable
<1>2. TypeOK /\ ChainInvariant /\ LineInvariant /\ [Next]_vars => LineInvariant'
  <2> SUFFICES ASSUME TypeOK, ChainInvariant, LineInvariant, [Next]_vars
               PROVE  LineInvariant'
    OBVIOUS
  <2>l. LockHeld
    BY DEF ChainInvariant
  <2>d. DOMAIN pc = Writers /\ DOMAIN put = Writers /\ DOMAIN draft = Writers
    BY DEF TypeOK
  <2>t. file \in File /\ disk \in File
    BY DEF TypeOK
  <2>1. ASSUME NEW w \in Writers, NEW evs \in Batches, NEW k \in KeyIds, Call(w, evs, k)
        PROVE  LineInvariant'
    BY <2>1, <2>d, IdleKeepsLines DEF Call
  <2>2. ASSUME NEW w \in Writers, Lock(w)
        PROVE  LineInvariant'
    BY <2>2, <2>d, IdleKeepsLines DEF Lock, bounds
  <2>3. ASSUME NEW w \in Writers, Refuse(w)
        PROVE  LineInvariant'
    BY <2>3, EndCallStartsNoWrite, IdleKeepsLines DEF Refuse, bounds
  <2>4. ASSUME NEW w \in Writers, Draft(w)
        PROVE  LineInvariant'
    <3>1. UNCHANGED <<file, disk, returned, edits>> /\ put'[w] = 0
          /\ draft'[w] = Chained(file.recs, Head(todo[w]), key[w])
      BY <2>4, <2>d DEF Draft, bounds
    <3>2. file.tail \in {"clean", "open"}
      BY <2>4, FileFields, <2>t DEF Draft, Refusal, Truncated, Corrupt, Tails
    <3>3. SUFFICES ASSUME edits = 0
                   PROVE  /\ Behind(disk', file')
                          /\ Durable'
                          /\ \A v \in Writers : pc'[v] = "writing" =>
                               LineSoFar(disk', file', draft'[v], put'[v]) /\ draft'[v] \notin returned'
      BY <3>1 DEF LineInvariant
    <3>4. Behind(disk, file) /\ Durable
      BY <3>3 DEF LineInvariant
    <3>5. returned \subseteq EntriesOf(Ended(disk))
      BY <3>2, <3>4 DEF Durable
    <3>6. disk.tail \in {"clean", "open"}
      BY <3>2, <3>4 DEF Behind
    <3>7. LineSoFar(disk, file, draft'[w], 0)
      BY <3>2, <3>6 DEF LineSoFar
    <3>8. draft'[w] \notin returned
      <4>1. PICK k \in KeyIds : WellChained(file.recs, k)
        BY <3>3 DEF ChainInvariant, OneChain
      <4>2. returned \subseteq EntriesOf(file.recs)
        BY <2>t, <3>4, <3>5, BehindKeeps, EndedIsCut
      <4>3. \A e \in returned : e.seq < Len(file.recs)
        BY <2>t, <4>1, <4>2, ChainPlaces, FileFields
      <4>4. draft'[w].seq = Len(file.recs) /\ Len(file.recs) \in Nat
        BY <2>t, <3>1, ChainedAtEnd, FileFields
      <4>5. QED
        BY <4>3, <4>4
    <3>9. \A v \in Writers : pc'[v] = "writing" => v = w
      BY <2>4, <2>l, <2>d, OneWriting DEF Draft
    <3>10. Durable'
      BY <3>1, <3>5 DEF Durable
    <3>11. QED
      BY <3>1, <3>4, <3>7, <3>8, <3>9, <3>10
  <2>5. ASSUME NEW w \in Writers, NEW q \in 1 .. 3, Write(w, q)
        PROVE  LineInvariant'
    <3>1. UNCHANGED <<disk, pc, draft, returned, edits>> /\ pc[w] = "writing" /\ put[w] < q
          /\ file' = Land(file, draft[w], put[w], q) /\ put'[w] = q
      BY <2>5, <2>d DEF Write, bounds
    <3>2. SUFFICES ASSUME edits = 0
                   PROVE  /\ Behind(disk', file')
                          /\ Durable'
                          /\ \A v \in Writers : pc'[v] = "writing" =>
                               LineSoFar(disk', file', draft'[v], put'[v]) /\ draft'[v] \notin returned'
      BY <3>1 DEF LineInvariant
    <3>3. /\ Behind(disk, file) /\ Durable
          /\ LineSoFar(disk, file, draft[w], put[w]) /\ draft[w] \notin returned
      BY <3>1, <3>2 DEF LineInvariant
    <3>4. /\ WellChained(file.recs, key[w])
          /\ put[w] < 2 /\ file.tail \notin {"smear", "junk"}
               => \E ev \in Events : draft[w] = Chained(file.recs, ev, key[w])
      BY <3>1, <3>2 DEF ChainInvariant, DraftFits
    <3>5. put[w] \in 0 .. 3 /\ key[w] \in KeyIds /\ draft[w] \in Entry
      BY <3>1 DEF TypeOK
    <3>6. Behind(disk, file') /\ LineSoFar(disk, file', draft[w], q)
      BY <2>t, <3>1, <3>3, <3>4, <3>5, LandStaysAhead
    <3>7. Durable'
      BY <3>1, <3>3 DEF Durable
    <3>8. \A v \in Writers : pc'[v] = "writing" => v = w
      BY <2>l, <3>1, OneWriting
    <3>9. QED
      BY <3>1, <3>3, <3>6, <3>7, <3>8
  <2>6. ASSUME NEW w \in Writers, Sync(w)
        PROVE  LineInvariant'
    <3>1. UNCHANGED <<file, edits>> /\ disk' = file /\ pc[w] = "writing" /\ put[w] = 3
          /\ returned' = returned \cup {draft[w]}
      BY <2>6 DEF Sync, bounds
    <3>2. \A v \in Writers : pc'[v] # "writing"
      BY <2>6, <2>l, SyncEndsWriting
    <3>3. SUFFICES ASSUME edits = 0
                   PROVE  Behind(disk', file') /\ Durable'
      BY <3>1, <3>2 DEF LineInvariant
    <3>4. Behind(disk, file) /\ Durable /\ LineSoFar(disk, file, draft[w], put[w])
      BY <3>1, <3>3 DEF LineInvariant
    <3>5. returned \subseteq EntriesOf(Ended(file))
      BY <2>t, <3>1, <3>4, BehindKeeps DEF Durable
    <3>6. Behind(disk', file')
      BY <3>1 DEF Behind
    <3>7. CASE file.tail = "clean"
      <4>1. file.recs # << >> /\ file.recs[Len(file.recs)] = draft[w] /\ Ended(file) = file.recs
        BY <3>1, <3>4, <3>7 DEF LineSoFar, Ended
      <4>2. Len(file.recs) \in DOMAIN file.recs
        BY <2>t, <4>1, FileFields, EmptySeq
      <4>3. returned' \subseteq EntriesOf(Ended(disk'))
        BY <3>1, <3>5, <4>1, <4>2 DEF EntriesOf
      <4>4. QED
        BY <3>6, <4>3 DEF Durable
    <3>8. CASE file.tail = "junk"
      <4>1. returned \subseteq EntriesOf(file.recs)
        BY <3>5, <3>8 DEF Ended
      <4>2. \E e \in returned' : returned' \ {e} \subseteq EntriesOf(file.recs)
        BY <3>1, <4>1
      <4>3. Durable'
        BY <3>1, <3>2, <3>8, <4>2 DEF Durable
      <4>4. QED
        BY <3>6, <4>3
    <3>9. QED
      BY <3>1, <3>4, <3>7, <3>8 DEF LineSoFar
  <2>7. ASSUME NEW w \in Writers, Fail(w)
        PROVE  LineInvariant'
    BY <2>7, EndCallStartsNoWrite, IdleKeepsLines DEF Fail
  <2>8. ASSUME NEW w \in Writers, Kill(w)
        PROVE  LineInvariant'
    BY <2>8, EndCallStartsNoWrite, IdleKeepsLines DEF Kill
  <2>9. ASSUME PowerLoss
        PROVE  LineInvariant'
    <3>1. file' \in Survivors(disk, file) /\ disk' = file' /\ UNCHANGED <<returned, edits>>
          /\ \A v \in Writers : pc'[v] = "idle"
      BY <2>9 DEF PowerLoss
    <3>2. SUFFICES ASSUME edits = 0
                   PROVE  Behind(disk', file') /\ Durable'
      BY <3>1 DEF LineInvariant
    <3>3. Behind(disk, file) /\ Durable
      BY <3>2 DEF LineInvariant
    <3>4. Behind(disk', file')
      BY <3>1 DEF Behind
    <3>5. CASE returned \subseteq EntriesOf(Ended(disk))
      <4>1. returned' \subseteq EntriesOf(Ended(disk'))
        BY <2>t, <3>1, <3>3, <3>5, SurvivorsKeep
      <4>2. QED
        BY <3>4, <4>1 DEF Durable
    <3>6. CASE /\ disk = file /\ file.tail = "junk"
               /\ \E e \in returned : returned \ {e} \subseteq EntriesOf(file.recs)
      <4>1. file' = file
        BY <3>1, <3>6 DEF Survivors
      <4>2. Durable'
        BY <3>1, <3>6, <4>1 DEF Durable
      <4>3. QED
        BY <3>4, <4>2
    <3>7. QED
      BY <3>3, <3>5, <3>6 DEF Durable
  <2>10. ASSUME Edit
         PROVE  LineInvariant'
    <3>1. edits' # 0
      BY <2>10 DEF Edit, TypeOK
    <3>2. QED
      BY <3>1 DEF LineInvariant
  <2>11. CASE UNCHANGED vars
    BY <2>11, IdleKeepsLines DEF vars, bounds
  <2>12. QED
    BY <2>1, <2>2, <2>3, <2>4, <2>5, <2>6, <2>7, <2>8, <2>9, <2>10, <2>11 DEF Next
<1>3. QED
  BY <1>1, <1>2, TypeCorrect, ChainInvariantHolds, PTL DEF Spec

(* However many crashes there were, wherever they fell: every event a record()
   returned can be loaded, or load() says the file is damaged and all of them but
   one can. *)
THEOREM LossAlwaysSingleAndSeen == Spec => []LossIsSingleAndSeen
<1>1. TypeOK /\ LineInvariant => LossIsSingleAndSeen
  <2> SUFFICES ASSUME TypeOK, LineInvariant, edits = 0
               PROVE  \/ returned \subseteq Recorded
                      \/ ~ Parses(file) /\ Cardinality(returned \ Recorded) <= 1
    BY DEF LossIsSingleAndSeen
  <2>1. Behind(disk, file) /\ Durable /\ file \in File /\ disk \in File
        /\ Recorded = EntriesOf(file.recs)
    BY DEF LineInvariant, TypeOK, Recorded, EntriesOf
  <2>2. CASE returned \subseteq EntriesOf(Ended(disk))
    BY <2>1, <2>2, BehindKeeps, EndedIsCut
  <2>3. CASE /\ file.tail = "junk"
             /\ \E e \in returned : returned \ {e} \subseteq EntriesOf(file.recs)
    <3>1. PICK e \in returned : returned \ {e} \subseteq Recorded
      BY <2>1, <2>3
    <3>2. returned \ Recorded = {} \/ returned \ Recorded = {e}
      BY <3>1
    <3>3. Cardinality({}) = 0 /\ Cardinality({e}) = 1
      BY FS_EmptySet, FS_Singleton
    <3>4. Cardinality(returned \ Recorded) <= 1
      BY <3>2, <3>3
    <3>5. QED
      BY <2>3, <3>4 DEF Parses, Corrupt
  <2>4. QED
    BY <2>1, <2>2, <2>3 DEF Durable
<1>2. QED
  BY <1>1, TypeCorrect, LineInvariantHolds, PTL


-----------------------------------------------------------------------------
(* One record_many() is one run of the chain *)

(* Appending to a run its successor keeps it a run. *)
LEMMA RunExtends ==
  ASSUME NEW s \in Seq(Entry), NEW e \in Entry,
         \A i \in 1 .. (Len(s) - 1) : s[i + 1].seq = s[i].seq + 1,
         s # << >> => e.seq = s[Len(s)].seq + 1
  PROVE  /\ \A i \in 1 .. (Len(Append(s, e)) - 1) :
              Append(s, e)[i + 1].seq = Append(s, e)[i].seq + 1
         /\ Append(s, e) # << >>
         /\ Append(s, e)[Len(Append(s, e))] = e
<1> DEFINE t == Append(s, e)
<1>1. /\ Len(t) = Len(s) + 1 /\ Len(s) \in Nat
      /\ \A i \in 1 .. Len(s) : t[i] = s[i]
      /\ t[Len(s) + 1] = e
      /\ t # << >>
  OBVIOUS
<1> HIDE DEF t
<1>2. ASSUME NEW i \in 1 .. (Len(t) - 1)
      PROVE  t[i + 1].seq = t[i].seq + 1
  <2>1. CASE i = Len(s)
    <3>1. s # << >>
      BY <1>2, <2>1, EmptySeq
    <3>2. t[i] = s[Len(s)] /\ t[i + 1] = e
      BY <1>1, <1>2, <2>1
    <3>3. QED
      BY <2>1, <3>1, <3>2
  <2>2. CASE i # Len(s)
    <3>1. i \in 1 .. (Len(s) - 1) /\ i \in 1 .. Len(s) /\ i + 1 \in 1 .. Len(s)
      BY <1>1, <1>2, <2>2
    <3>2. QED
      BY <1>1, <3>1
  <2>3. QED
    BY <2>1, <2>2
<1>3. QED
  BY <1>1, <1>2 DEF t

(* A step that leaves the file and the finished entries alone keeps the invariant
   if it puts no call of a batch back under the lock. *)
LEMMA IdleKeepsBatches ==
  ASSUME BatchInvariant, UNCHANGED <<file, done, edits>>,
         \A v \in Writers :
            \/ pc'[v] = "idle"
            \/ pc'[v] = pc[v] /\ draft'[v] = draft[v]
            \/ pc'[v] = "locked" /\ pc[v] = "waiting"
  PROVE  BatchInvariant'
BY DEF BatchInvariant, LastDone

(* Ending a call is such a step. *)
LEMMA EndCallIdles ==
  ASSUME TypeOK, NEW w \in Writers, NEW how, EndCall(w, how)
  PROVE  \A v \in Writers : \/ pc'[v] = "idle"
                            \/ pc'[v] = pc[v] /\ draft'[v] = draft[v]
<1>1. DOMAIN pc = Writers /\ DOMAIN draft = Writers
  BY DEF TypeOK
<1>2. QED
  BY <1>1 DEF EndCall

(* The strengthening from which BatchContiguous follows. *)
THEOREM BatchInvariantHolds == Spec => []BatchInvariant
<1>1. Init => BatchInvariant
  BY DEF Init, BatchInvariant
<1>2. TypeOK /\ ChainInvariant /\ LineInvariant /\ BatchInvariant /\ [Next]_vars => BatchInvariant'
  <2> SUFFICES ASSUME TypeOK, ChainInvariant, LineInvariant, BatchInvariant, [Next]_vars
               PROVE  BatchInvariant'
    OBVIOUS
  <2>l. LockHeld
    BY DEF ChainInvariant
  <2>d. DOMAIN pc = Writers /\ DOMAIN draft = Writers /\ DOMAIN done = Writers
    BY DEF TypeOK
  <2> DEFINE Fits(f, p, dn, dr) ==
               /\ p = "waiting" => dn = << >>
               /\ p = "locked" /\ dn # << >>
                    => f.tail = "junk" \/ Len(f.recs) = dn[Len(dn)].seq + 1
               /\ p = "writing" /\ dn # << >> => dr.seq = dn[Len(dn)].seq + 1
               /\ \A i \in 1 .. (Len(dn) - 1) : dn[i + 1].seq = dn[i].seq + 1
  <2>f. edits = 0 => \A v \in Writers : Fits(file, pc[v], done[v], draft[v])
    BY DEF BatchInvariant, LastDone
  <2>g. (edits' = 0 => \A v \in Writers : Fits(file', pc'[v], done'[v], draft'[v]))
          => BatchInvariant'
    BY DEF BatchInvariant, LastDone
  <2> HIDE DEF Fits
  <2>1. ASSUME NEW w \in Writers, NEW evs \in Batches, NEW k \in KeyIds, Call(w, evs, k)
        PROVE  BatchInvariant'
    <3>1. UNCHANGED <<file, edits, draft>> /\ pc'[w] = "waiting" /\ done'[w] = << >>
          /\ \A v \in Writers \ {w} : pc'[v] = pc[v] /\ done'[v] = done[v]
      BY <2>1, <2>d DEF Call
    <3>2. Fits(file, "waiting", << >>, draft[w])
      BY DEF Fits
    <3>3. QED
      BY <2>f, <2>g, <3>1, <3>2
  <2>2. ASSUME NEW w \in Writers, Lock(w)
        PROVE  BatchInvariant'
    BY <2>2, <2>d, IdleKeepsBatches DEF Lock, bounds
  <2>3. ASSUME NEW w \in Writers, Refuse(w)
        PROVE  BatchInvariant'
    BY <2>3, EndCallIdles, IdleKeepsBatches DEF Refuse, bounds
  <2>4. ASSUME NEW w \in Writers, Draft(w)
        PROVE  BatchInvariant'
    <3>1. UNCHANGED <<file, done, edits>> /\ pc[w] = "locked" /\ pc'[w] = "writing"
          /\ draft'[w] = Chained(file.recs, Head(todo[w]), key[w])
          /\ \A v \in Writers \ {w} : pc'[v] = pc[v] /\ draft'[v] = draft[v]
      BY <2>4, <2>d DEF Draft, bounds
    <3>2. file.tail # "junk"
      BY <2>4 DEF Draft, Refusal, Truncated, Corrupt
    <3>3. draft'[w].seq = Len(file.recs)
      BY <3>1, ChainedAtEnd
    <3>4. ASSUME edits = 0
          PROVE  Fits(file, "writing", done[w], draft'[w])
      <4>1. Fits(file, "locked", done[w], draft[w])
        BY <2>f, <3>1, <3>4
      <4>2. QED
        BY <3>2, <3>3, <4>1 DEF Fits
    <3>5. QED
      BY <2>f, <2>g, <3>1, <3>4
  <2>5. ASSUME NEW w \in Writers, NEW q \in 1 .. 3, Write(w, q)
        PROVE  BatchInvariant'
    <3>1. UNCHANGED <<pc, draft, done, edits>> /\ pc[w] = "writing"
      BY <2>5 DEF Write, bounds
    <3>2. \A v \in Writers : pc[v] # "locked"
      BY <2>l, <3>1, OneWriting
    <3>3. ASSUME NEW v \in Writers, edits = 0
          PROVE  Fits(file', pc[v], done[v], draft[v])
      <4>1. Fits(file, pc[v], done[v], draft[v])
        BY <2>f, <3>3
      <4>2. QED
        BY <3>2, <4>1 DEF Fits
    <3>4. QED
      BY <2>g, <3>1, <3>3
  <2>6. ASSUME NEW w \in Writers, Sync(w)
        PROVE  BatchInvariant'
    <3>1. UNCHANGED <<file, edits>> /\ pc[w] = "writing" /\ put[w] = 3
          /\ done'[w] = Append(done[w], draft[w])
          /\ \A v \in Writers \ {w} : done'[v] = done[v]
      BY <2>6, <2>d DEF Sync, bounds
    <3>2. pc'[w] \in {"idle", "locked"}
          /\ \A v \in Writers \ {w} : pc'[v] = pc[v] /\ draft'[v] = draft[v]
      BY <2>6, <2>d DEF Sync, EndCall
    <3>3. done[w] \in Seq(Entry) /\ draft[w] \in Entry
      BY <3>1 DEF TypeOK
    <3>4. ASSUME edits = 0
          PROVE  Fits(file, pc'[w], done'[w], draft'[w])
      <4>1. Fits(file, "writing", done[w], draft[w])
        BY <2>f, <3>1, <3>4
      <4>2. /\ \A i \in 1 .. (Len(done'[w]) - 1) : done'[w][i + 1].seq = done'[w][i].seq + 1
            /\ done'[w] # << >> /\ done'[w][Len(done'[w])] = draft[w]
        BY <3>1, <3>3, <4>1, RunExtends DEF Fits
      <4>3. file.tail = "junk" \/ Len(file.recs) = draft[w].seq + 1
        <5>1. LineSoFar(disk, file, draft[w], 3) /\ WellChained(file.recs, key[w])
          BY <3>1, <3>4 DEF LineInvariant, ChainInvariant, DraftFits
        <5>2. CASE file.tail = "clean"
          <6>1. file.recs # << >> /\ file.recs[Len(file.recs)] = draft[w]
            BY <5>1, <5>2 DEF LineSoFar
          <6>2. Len(file.recs) \in DOMAIN file.recs /\ Len(file.recs) \in Nat
            BY <6>1, FileFields, EmptySeq DEF TypeOK
          <6>3. draft[w].seq = Len(file.recs) - 1
            BY <5>1, <6>1, <6>2 DEF WellChained, Linked
          <6>4. QED
            BY <6>2, <6>3
        <5>3. QED
          BY <5>1, <5>2 DEF LineSoFar
      <4>4. QED
        BY <3>2, <4>2, <4>3 DEF Fits
    <3>5. QED
      BY <2>f, <2>g, <3>1, <3>2, <3>4
  <2>7. ASSUME NEW w \in Writers, Fail(w)
        PROVE  BatchInvariant'
    BY <2>7, EndCallIdles, IdleKeepsBatches DEF Fail
  <2>8. ASSUME NEW w \in Writers, Kill(w)
        PROVE  BatchInvariant'
    BY <2>8, EndCallIdles, IdleKeepsBatches DEF Kill
  <2>9. ASSUME PowerLoss
        PROVE  BatchInvariant'
    <3>1. UNCHANGED <<done, edits>> /\ \A v \in Writers : pc'[v] = "idle"
      BY <2>9 DEF PowerLoss
    <3>2. ASSUME NEW v \in Writers, edits = 0
          PROVE  Fits(file', "idle", done[v], draft'[v])
      <4>1. Fits(file, pc[v], done[v], draft[v])
        BY <2>f, <3>2
      <4>2. QED
        BY <4>1 DEF Fits
    <3>3. QED
      BY <2>g, <3>1, <3>2
  <2>10. ASSUME Edit
         PROVE  BatchInvariant'
    <3>1. edits' # 0
      BY <2>10 DEF Edit, TypeOK
    <3>2. QED
      BY <3>1 DEF BatchInvariant
  <2>11. CASE UNCHANGED vars
    BY <2>11, IdleKeepsBatches DEF vars, bounds
  <2>12. QED
    BY <2>1, <2>2, <2>3, <2>4, <2>5, <2>6, <2>7, <2>8, <2>9, <2>10, <2>11 DEF Next
<1>3. QED
  BY <1>1, <1>2, TypeCorrect, ChainInvariantHolds, LineInvariantHolds, PTL DEF Spec

(* Nothing comes between the entries of one record_many(): not another writer's
   entry, and not what a failed or killed call left behind. *)
THEOREM BatchAlwaysContiguous == Spec => []BatchContiguous
<1>1. BatchInvariant => BatchContiguous
  BY DEF BatchInvariant, BatchContiguous
<1>2. QED
  BY <1>1, BatchInvariantHolds, PTL


-----------------------------------------------------------------------------
(* Nothing is appended over an edit *)

KeysOf(recs) == {recs[i].key : i \in DOMAIN recs} \ {NoKey}

\* What every writer's load() refuses: no key verifies these entries, or only none
\* does, and they are keyed.
Broken(recs) ==
  \A k \in KeyIds : ~ Intact(recs, k) \/ (k = NoKey /\ KeysOf(recs) # {})

Bad(f) == f.tail \in {"smear", "junk"} \/ Broken(f.recs)

\* A finished file on the disk is a prefix of the ledger.
Past(d, f) ==
  d.tail = "clean" =>
    StartsWith(f.recs, d.recs) /\ (f.tail = "open" => Len(d.recs) < Len(f.recs))

\* Hook processes: each records one event and is gone, so that no _VERIFIED_HEAD
\* outlives the call it was read back in; and one edit, which cannot be undone by
\* another.
HooksAndOneEdit == LongLived = {} /\ MaxBatch <= 1 /\ MaxEdits <= 1

EditInvariant ==
  /\ \A w \in Writers :
       /\ head[w] = NoHints
       /\ pc[w] \in {"waiting", "locked"} => Len(todo[w]) = 1
       /\ pc[w] = "writing" => todo[w] = << >>
  /\ edits > 0 => Bad(file) /\ Bad(disk)

\* No entry after the break mends it.
LEMMA BrokenExtends ==
  ASSUME NEW recs \in Seq(Entry), NEW more \in Seq(Entry), StartsWith(more, recs),
         Broken(recs)
  PROVE  Broken(more)
<1>1. /\ Len(recs) \in Nat /\ Len(more) \in Nat /\ Len(recs) <= Len(more)
      /\ DOMAIN recs = 1 .. Len(recs) /\ DOMAIN more = 1 .. Len(more)
      /\ \A i \in 1 .. Len(recs) : more[i] = recs[i]
  BY DEF StartsWith
<1>2. SUFFICES ASSUME NEW k \in KeyIds, Intact(more, k)
               PROVE  k = NoKey /\ KeysOf(more) # {}
  BY DEF Broken
<1>3. ASSUME NEW i \in DOMAIN recs
      PROVE  Holds(recs, i, k)
  <2>1. i \in DOMAIN more /\ i \in 1 .. Len(recs) /\ (i # 1 => i - 1 \in 1 .. Len(recs))
    BY <1>1
  <2>2. Holds(more, i, k)
    BY <1>2, <2>1 DEF Intact
  <2>3. more[i] = recs[i] /\ (i # 1 => more[i - 1] = recs[i - 1])
    BY <1>1, <2>1
  <2> QED BY <2>2, <2>3 DEF Holds, Linked
<1>4. k = NoKey /\ KeysOf(recs) # {}
  BY <1>3 DEF Broken, Intact
<1>5. KeysOf(recs) \subseteq KeysOf(more)
  BY <1>1 DEF KeysOf
<1> QED BY <1>4, <1>5

\* Entries whose hashes were made under one key do not verify under another.
LEMMA ForeignKeyFails ==
  ASSUME NEW recs \in Seq(Entry), recs # << >>, NEW e \in Entry,
         NEW own \in KeyIds, recs[1].key = own, recs[1].hash = HashEntry(e, own),
         NEW k \in KeyIds, k # own
  PROVE  ~ Intact(recs, k) \/ (k = NoKey /\ KeysOf(recs) # {})
<1>1. 1 \in DOMAIN recs /\ recs[1] \in Entry
  BY EmptySeq
<1>2. CASE k = NoKey
  <2>1. own \in KeysOf(recs)
    BY <1>1, <1>2 DEF KeysOf
  <2> QED BY <1>2, <2>1
<1>3. CASE k # NoKey
  <2>1. HashEntry(recs[1], k) # recs[1].hash
    BY <1>1, HashInjective
  <2>2. ~ ContentHolds(recs[1], k)
    BY <1>3, <2>1 DEF ContentHolds
  <2> QED BY <1>1, <2>2 DEF Intact, Holds
<1> QED BY <1>2, <1>3

\* An entry edited in place, and one taken out before another, break the chain for
\* every key.
LEMMA AlteredBreaks ==
  ASSUME NEW log \in Seq(Entry), NEW own \in KeyIds, WellChained(log, own),
         NEW i \in DOMAIN log, NEW ev \in Events, ev # log[i].event
  PROVE  Broken([log EXCEPT ![i].event = ev])
<1> DEFINE alt == [log EXCEPT ![i].event = ev]
<1>1. BrokenAt(alt, own, i)
  BY EditNamed
<1>2. /\ DOMAIN alt = DOMAIN log /\ DOMAIN log = 1 .. Len(log) /\ Len(log) \in Nat
      /\ log[1] \in Entry /\ 1 \in DOMAIN log /\ log[i] \in Entry
      /\ alt[i] = [log[i] EXCEPT !.event = ev]
      /\ i # 1 => alt[1] = log[1]
  OBVIOUS
<1>3. [log[i] EXCEPT !.event = ev] \in Entry /\ [log[i] EXCEPT !.event = ev].key = log[i].key
      /\ [log[i] EXCEPT !.event = ev].hash = log[i].hash
  BY <1>2 DEF Entry
<1>4. alt \in Seq(Entry)
  BY <1>3, ExceptSeq
<1>5. alt[1].key = log[1].key /\ alt[1].hash = log[1].hash
  BY <1>2, <1>3
<1> HIDE DEF alt
<1>6. log[1].key = own /\ log[1].hash = HashEntry(log[1], own)
  BY <1>2 DEF WellChained
<1>7. alt # << >>
  BY <1>2
<1>8. ASSUME NEW k \in KeyIds, k # own
      PROVE  ~ Intact(alt, k) \/ (k = NoKey /\ KeysOf(alt) # {})
  BY <1>2, <1>4, <1>5, <1>6, <1>7, <1>8, ForeignKeyFails
<1>9. ~ Intact(alt, own)
  BY <1>1 DEF BrokenAt, Intact
<1> QED BY <1>8, <1>9 DEF Broken, alt

\* An entry taken out before another leaves a gap in the sequence.
LEMMA RemovedBreaks ==
  ASSUME NEW log \in Seq(Entry), NEW own \in KeyIds, WellChained(log, own),
         NEW i \in 1 .. (Len(log) - 1)
  PROVE  Broken(SubSeq(log, 1, i - 1) \o SubSeq(log, i + 1, Len(log)))
<1> DEFINE alt == SubSeq(log, 1, i - 1) \o SubSeq(log, i + 1, Len(log))
<1>1. BrokenAt(alt, own, i)
  BY RemovalNamed
<1>2. Len(log) \in Nat /\ DOMAIN log = 1 .. Len(log)
  OBVIOUS
<1>3. /\ SubSeq(log, 1, i - 1) \in Seq(Entry) /\ Len(SubSeq(log, 1, i - 1)) = i - 1
      /\ i # 1 => SubSeq(log, 1, i - 1)[1] = log[1]
  BY <1>2, SubSeqProperties
<1>4. /\ SubSeq(log, i + 1, Len(log)) \in Seq(Entry)
      /\ Len(SubSeq(log, i + 1, Len(log))) = Len(log) - i
      /\ SubSeq(log, i + 1, Len(log))[1] = log[i + 1]
  BY <1>2, SubSeqProperties
<1>5. /\ alt \in Seq(Entry) /\ Len(alt) = Len(log) - 1
      /\ i # 1 => alt[1] = log[1]
      /\ i = 1 => alt[1] = log[2]
  BY <1>2, <1>3, <1>4, ConcatProperties
<1> HIDE DEF alt
<1>6. PICK j \in DOMAIN log : alt[1] = log[j]
  BY <1>2, <1>5
<1>7. log[j] \in Entry /\ log[j].key = own /\ log[j].hash = HashEntry(log[j], own)
  BY DEF WellChained
<1>8. alt # << >>
  BY <1>2, <1>5
<1>9. ASSUME NEW k \in KeyIds, k # own
      PROVE  ~ Intact(alt, k) \/ (k = NoKey /\ KeysOf(alt) # {})
  BY <1>5, <1>6, <1>7, <1>8, <1>9, ForeignKeyFails
<1>10. ~ Intact(alt, own)
  BY <1>1 DEF BrokenAt, Intact
<1> QED BY <1>9, <1>10 DEF Broken, alt

\* So an edit of a ledger that nothing edited before leaves one that is refused.
LEMMA EditBreaks ==
  ASSUME NEW f \in File, OneChain(f),
         NEW g \in Altered(f) \cup Removed(f) \cup Mangled(f), g # f
  PROVE  Bad(g)
<1>1. PICK own \in KeyIds : WellChained(f.recs, own)
  BY DEF OneChain
<1>2. f.recs \in Seq(Entry)
  BY FileFields
<1>3. CASE g \in Altered(f)
  <2>1. PICK i \in DOMAIN f.recs, ev \in Events :
          g = [f EXCEPT !.recs = [@ EXCEPT ![i].event = ev]]
    BY <1>3 DEF Altered
  <2>2. g = [recs |-> [f.recs EXCEPT ![i].event = ev], tail |-> f.tail]
        /\ f = [recs |-> f.recs, tail |-> f.tail]
    BY <2>1 DEF File
  <2>3. ev # f.recs[i].event
    <3>1. SUFFICES ASSUME ev = f.recs[i].event PROVE g = f
      OBVIOUS
    <3>2. f.recs[i] \in Entry
      BY <1>2
    <3>3. [f.recs[i] EXCEPT !.event = ev] = f.recs[i]
      BY <3>1, <3>2 DEF Entry
    <3>4. [f.recs EXCEPT ![i].event = ev] = f.recs
      BY <1>2, <3>3
    <3> QED BY <2>2, <3>4
  <2> QED BY <1>1, <1>2, <2>2, <2>3, AlteredBreaks DEF Bad
<1>4. CASE g \in Removed(f)
  <2>1. PICK i \in 1 .. (Len(f.recs) - 1) :
          g = [f EXCEPT !.recs = SubSeq(@, 1, i - 1) \o SubSeq(@, i + 1, Len(@))]
    BY <1>4 DEF Removed
  <2>2. g.recs = SubSeq(f.recs, 1, i - 1) \o SubSeq(f.recs, i + 1, Len(f.recs))
    BY <2>1 DEF File
  <2> QED BY <1>1, <1>2, <2>2, RemovedBreaks DEF Bad
<1>5. CASE g \in Mangled(f)
  BY <1>5 DEF Mangled, Bad
<1> QED BY <1>3, <1>4, <1>5

\* What is written over it is refused too,
LEMMA LandStaysBad ==
  ASSUME NEW f \in File, NEW e \in Entry, NEW p \in 0 .. 3, NEW q \in 1 .. 3, Bad(f)
  PROVE  Bad(Land(f, e, p, q))
<1> DEFINE new == Append(f.recs, e)
<1>1. f.recs \in Seq(Entry) /\ f.tail \in Tails /\ Len(f.recs) \in Nat
  BY FileFields
<1>2. new \in Seq(Entry) /\ StartsWith(new, f.recs)
  BY <1>1 DEF StartsWith
<1> HIDE DEF new
<1>3. CASE f.tail = "junk"
  BY <1>3 DEF Land, Bad
<1>4. CASE f.tail # "junk" /\ RunsTogether(f, p)
  <2>1. Land(f, e, p, q).tail \in {"smear", "junk"}
    BY <1>4 DEF Land
  <2> QED BY <2>1 DEF Bad
<1>5. CASE f.tail # "junk" /\ ~ RunsTogether(f, p)
  <2>1. Broken(f.recs)
    BY <1>5 DEF Bad, RunsTogether
  <2>2. Land(f, e, p, q).recs \in {f.recs, new}
    BY <1>5 DEF Land, new
  <2> QED BY <1>1, <1>2, <2>1, <2>2, BrokenExtends DEF Bad
<1> QED BY <1>3, <1>4, <1>5

\* and falls behind what the disk has.
LEMMA LandStaysPast ==
  ASSUME NEW d \in File, NEW f \in File, NEW e \in Entry, NEW p \in 0 .. 3,
         NEW q \in 1 .. 3, p < q, Past(d, f)
  PROVE  Past(d, Land(f, e, p, q))
<1> DEFINE new == Append(f.recs, e)
<1>1. f.recs \in Seq(Entry) /\ Len(f.recs) \in Nat /\ d.recs \in Seq(Entry) /\ Len(d.recs) \in Nat
  BY FileFields
<1>2. SUFFICES ASSUME d.tail = "clean"
               PROVE  /\ StartsWith(Land(f, e, p, q).recs, d.recs)
                      /\ Land(f, e, p, q).tail = "open"
                           => Len(d.recs) < Len(Land(f, e, p, q).recs)
  BY DEF Past
<1>3. StartsWith(f.recs, d.recs) /\ (f.tail = "open" => Len(d.recs) < Len(f.recs))
  BY <1>2 DEF Past
<1>4. StartsWith(new, d.recs) /\ Len(d.recs) < Len(new)
  BY <1>1, <1>3 DEF StartsWith
<1> HIDE DEF new
<1>5. CASE f.tail = "junk"
  BY <1>3, <1>5 DEF Land
<1>6. CASE f.tail # "junk" /\ RunsTogether(f, p)
  <2>1. Land(f, e, p, q).recs = Ended(f) /\ Land(f, e, p, q).tail # "open"
    BY <1>6 DEF Land, Ended
  <2> QED BY <1>1, <1>3, <2>1, EndedKeepsPrefix
<1>7. CASE f.tail # "junk" /\ ~ RunsTogether(f, p)
  <2>1. Land(f, e, p, q) =
          [recs |-> IF p < 2 /\ q >= 2 THEN new ELSE f.recs,
           tail |-> IF q = 1 THEN "torn" ELSE IF q = 2 THEN "open" ELSE "clean"]
    BY <1>7 DEF Land, new
  <2>2. q = 2 => p < 2
    OBVIOUS
  <2> QED BY <1>3, <1>4, <2>1, <2>2
<1> QED BY <1>5, <1>6, <1>7

\* No power loss mends it either.
LEMMA SurvivorsStayBad ==
  ASSUME NEW d \in File, NEW f \in File, Past(d, f), Bad(d), Bad(f),
         NEW s \in Survivors(d, f)
  PROVE  Bad(s)
<1> DEFINE Upto(k, t) == [recs |-> SubSeq(f.recs, 1, k), tail |-> t]
<1>1. f.recs \in Seq(Entry) /\ Len(f.recs) \in Nat /\ d.recs \in Seq(Entry) /\ Len(d.recs) \in Nat
  BY FileFields
<1>2. ASSUME d.tail = "clean", NEW k \in Len(d.recs) .. Len(f.recs), NEW t \in Tails,
             s = Upto(k, t)
      PROVE  Bad(s)
  <2>1. Broken(d.recs) /\ StartsWith(f.recs, d.recs)
    BY <1>2 DEF Bad, Past
  <2>2. s.recs = SubSeq(f.recs, 1, k)
    BY <1>2
  <2>3. /\ s.recs \in Seq(Entry) /\ Len(s.recs) = k
        /\ \A i \in 1 .. k : s.recs[i] = f.recs[i]
    BY <1>1, <2>2, SubSeqProperties
  <2>4. StartsWith(s.recs, d.recs)
    BY <1>1, <2>1, <2>3 DEF StartsWith
  <2> QED BY <1>1, <2>1, <2>3, <2>4, BrokenExtends DEF Bad
<1>3. \/ s = d \/ s = f \/ s.tail = "smear"
      \/ /\ d.tail = "clean"
         /\ \E k \in Len(d.recs) .. Len(f.recs), t \in Tails : s = Upto(k, t)
  <2>1. d.tail = "clean" => Len(d.recs) <= Len(f.recs)
    BY DEF Past, StartsWith
  <2> QED BY <1>1, <2>1 DEF Survivors, Tails
<1>4. CASE s.tail = "smear"
  BY <1>4 DEF Bad
<1> QED BY <1>2, <1>3, <1>4

\* The disk is never ahead of the ledger.
LEMMA PastHolds == Spec => []Past(disk, file)
<1>1. Init => Past(disk, file)
  BY DEF Init, EmptyFile, Past, StartsWith
<1>2. ASSUME NEW f \in File PROVE Past(f, f)
  BY FileFields DEF Past, StartsWith
<1>3. TypeOK /\ TypeOK' /\ Past(disk, file) /\ [Next]_vars => Past(disk, file)'
  <2> SUFFICES ASSUME TypeOK, TypeOK', Past(disk, file), [Next]_vars
               PROVE  Past(disk', file')
    OBVIOUS
  <2>1. file \in File /\ disk \in File /\ file' \in File /\ disk' \in File
    BY DEF TypeOK
  <2>2. CASE UNCHANGED <<file, disk>>
    BY <2>2
  <2>3. CASE disk' = file'
    BY <1>2, <2>1, <2>3
  <2>4. ASSUME NEW w \in Writers, NEW q \in 1 .. 3, Write(w, q)
        PROVE  Past(disk', file')
    <3>1. /\ disk' = disk /\ file' = Land(file, draft[w], put[w], q) /\ put[w] < q
          /\ draft[w] \in Entry /\ put[w] \in 0 .. 3
      BY <2>4 DEF Write, TypeOK
    <3> QED BY <2>1, <3>1, LandStaysPast
  <2>5. ASSUME NEW w \in Writers, Sync(w)
        PROVE  disk' = file'
    BY <2>5 DEF Sync
  <2>6. CASE PowerLoss
    <3>1. disk' = file'
      BY <2>6 DEF PowerLoss
    <3> QED BY <2>3, <3>1
  <2>7. CASE Edit
    <3>1. disk' = file'
      BY <2>7 DEF Edit
    <3> QED BY <2>3, <3>1
  <2>8. ASSUME NEW w \in Writers,
               \/ \E evs \in Batches, k \in KeyIds : Call(w, evs, k)
               \/ Lock(w) \/ Refuse(w) \/ Draft(w) \/ Fail(w) \/ Kill(w)
        PROVE  UNCHANGED <<file, disk>>
    BY <2>8 DEF Call, Lock, Refuse, Draft, Fail, Kill
  <2>9. CASE UNCHANGED vars
    BY <2>2, <2>9 DEF vars
  <2> QED BY <2>2, <2>3, <2>4, <2>5, <2>6, <2>7, <2>8, <2>9 DEF Next
<1> QED BY <1>1, <1>3, TypeCorrect, PTL DEF Spec

\* The end of a call leaves a hook process nothing.
LEMMA EndCallForgets ==
  ASSUME TypeOK, EditInvariant, NEW w \in Writers, NEW how, EndCall(w, how),
         head' = head \/ head' = [head EXCEPT ![w] = NoHints],
         UNCHANGED <<file, edits>>, disk' \in {disk, file}
  PROVE  EditInvariant'
<1>1. DOMAIN pc = Writers /\ DOMAIN todo = Writers /\ DOMAIN head = Writers
  BY DEF TypeOK
<1>2. /\ pc'[w] = "idle"
      /\ \A v \in Writers : v # w => pc'[v] = pc[v] /\ todo'[v] = todo[v]
  BY <1>1 DEF EndCall
<1>3. \A v \in Writers : head'[v] = NoHints
  BY <1>1 DEF EditInvariant
<1>4. \A v \in Writers : /\ head'[v] = NoHints
                         /\ pc'[v] \in {"waiting", "locked"} => Len(todo'[v]) = 1
                         /\ pc'[v] = "writing" => todo'[v] = << >>
  BY <1>2, <1>3 DEF EditInvariant
<1>5. edits' > 0 => Bad(file') /\ Bad(disk')
  BY DEF EditInvariant
<1> QED BY <1>4, <1>5 DEF EditInvariant

\* What an edit broke stays broken, and the writers remember nothing of what they
\* verified before it.
LEMMA EditInvariantHolds == HooksAndOneEdit => (Spec => []EditInvariant)
<1> SUFFICES ASSUME HooksAndOneEdit PROVE Spec => []EditInvariant
  OBVIOUS
<1>0. LongLived = {} /\ MaxBatch <= 1 /\ MaxEdits <= 1 /\ MaxBatch \in Nat /\ MaxEdits \in Nat
  BY LedgerAssumption DEF HooksAndOneEdit
<1>1. Init => EditInvariant
  BY DEF Init, EditInvariant
<1>2. /\ TypeOK /\ TypeOK' /\ ChainInvariant /\ Past(disk, file) /\ EditInvariant
      /\ [Next]_vars
      => EditInvariant'
  <2> SUFFICES ASSUME TypeOK, TypeOK', ChainInvariant, Past(disk, file), EditInvariant,
                      [Next]_vars
               PROVE  EditInvariant'
    OBVIOUS
  <2>0. /\ DOMAIN pc = Writers /\ DOMAIN todo = Writers /\ DOMAIN head = Writers
        /\ edits \in Nat /\ file \in File /\ disk \in File
    BY DEF TypeOK
  <2>1. ASSUME NEW w \in Writers, NEW evs \in Batches, NEW k \in KeyIds, Call(w, evs, k)
        PROVE  EditInvariant'
    <3>1. PICK n \in 1 .. MaxBatch : evs \in [1 .. n -> Events]
      BY <2>1 DEF Batches
    <3>2. n = 1
      BY <1>0
    <3>3. Len(evs) = 1
      BY <3>1, <3>2
    <3>4. /\ UNCHANGED <<file, disk, head, edits>> /\ pc'[w] = "waiting" /\ todo'[w] = evs
          /\ \A v \in Writers : v # w => pc'[v] = pc[v] /\ todo'[v] = todo[v]
      BY <2>0, <2>1 DEF Call
    <3> QED BY <3>3, <3>4 DEF EditInvariant
  <2>2. ASSUME NEW w \in Writers, Lock(w)
        PROVE  EditInvariant'
    <3>1. /\ UNCHANGED <<file, disk, head, edits, todo>> /\ pc[w] = "waiting"
          /\ pc'[w] = "locked" /\ \A v \in Writers : v # w => pc'[v] = pc[v]
      BY <2>0, <2>2 DEF Lock, bounds
    <3> QED BY <3>1 DEF EditInvariant
  <2>3. ASSUME NEW w \in Writers, Refuse(w)
        PROVE  EditInvariant'
    BY <1>0, <2>3, EndCallForgets DEF Refuse, bounds
  <2>4. ASSUME NEW w \in Writers, Draft(w)
        PROVE  EditInvariant'
    <3>1. /\ UNCHANGED <<file, disk, head, edits>> /\ pc[w] = "locked"
          /\ pc'[w] = "writing" /\ todo'[w] = Tail(todo[w])
          /\ \A v \in Writers : v # w => pc'[v] = pc[v] /\ todo'[v] = todo[v]
      BY <2>0, <2>4 DEF Draft, bounds
    <3>2. todo[w] \in Seq(Events) /\ Len(todo[w]) = 1
      BY <3>1 DEF TypeOK, EditInvariant
    <3>3. todo'[w] = << >>
      <4>1. todo[w] # << >>
        BY <3>1 DEF TypeOK
      <4>2. Tail(todo[w]) \in Seq(Events) /\ Len(Tail(todo[w])) = 0
        BY <3>2, <4>1, HeadTailProperties
      <4> QED BY <3>1, <4>2, EmptySeq
    <3> QED BY <3>1, <3>3 DEF EditInvariant
  <2>5. ASSUME NEW w \in Writers, NEW q \in 1 .. 3, Write(w, q)
        PROVE  EditInvariant'
    <3>1. /\ UNCHANGED <<disk, head, edits, pc, todo>>
          /\ file' = Land(file, draft[w], put[w], q)
          /\ draft[w] \in Entry /\ put[w] \in 0 .. 3
      BY <2>5 DEF Write, bounds, TypeOK
    <3>2. edits > 0 => Bad(file')
      BY <2>0, <3>1, LandStaysBad DEF EditInvariant
    <3> QED BY <3>1, <3>2 DEF EditInvariant
  <2>6. ASSUME NEW w \in Writers, Sync(w)
        PROVE  EditInvariant'
    <3>1. pc[w] = "writing" /\ todo[w] = << >>
      BY <2>6 DEF Sync, EditInvariant
    <3>2. /\ EndCall(w, "ok") /\ head' = [head EXCEPT ![w] = NoHints]
          /\ disk' = file /\ UNCHANGED <<file, edits>>
      BY <1>0, <2>6, <3>1 DEF Sync, bounds
    <3> QED BY <3>2, EndCallForgets
  <2>7. ASSUME NEW w \in Writers, Fail(w) \/ Kill(w)
        PROVE  EditInvariant'
    BY <1>0, <2>7, EndCallForgets DEF Fail, Kill
  <2>8. CASE PowerLoss
    <3>1. /\ file' \in Survivors(disk, file) /\ disk' = file' /\ edits' = edits
          /\ \A v \in Writers : pc'[v] = "idle" /\ head'[v] = NoHints
      BY <2>8 DEF PowerLoss
    <3>2. edits > 0 => Bad(file')
      BY <2>0, <3>1, SurvivorsStayBad DEF EditInvariant
    <3> QED BY <3>1, <3>2 DEF EditInvariant
  <2>9. CASE Edit
    <3>1. /\ edits = 0 /\ disk' = file' /\ UNCHANGED <<head, pc, todo>>
          /\ file' \in Altered(file) \cup Removed(file) \cup Mangled(file) /\ file' # file
      BY <1>0, <2>0, <2>9 DEF Edit
    <3>2. OneChain(file)
      BY <3>1 DEF ChainInvariant
    <3>3. Bad(file')
      BY <2>0, <3>1, <3>2, EditBreaks
    <3> QED BY <3>1, <3>3 DEF EditInvariant
  <2>10. CASE UNCHANGED vars
    BY <2>10 DEF vars, bounds, EditInvariant
  <2> QED BY <2>1, <2>2, <2>3, <2>4, <2>5, <2>6, <2>7, <2>8, <2>9, <2>10 DEF Next
<1> QED BY <1>1, <1>2, TypeCorrect, ChainInvariantHolds, PastHolds, PTL DEF Spec

\* Whatever the interleaving and the crashes, no hook process computes a record from a
\* ledger that was edited before its load(): _record_locked() refuses.  With a second
\* edit the first may be undone; and with a process that outlives its call, or a batch,
\* the theorem is false: _VERIFIED_HEAD is read back from the file after the write, and
\* takes an edit made in between for verified.
THEOREM NeverBuries == HooksAndOneEdit => (Spec => NeverBuriesAnEdit)
<1> SUFFICES ASSUME HooksAndOneEdit PROVE Spec => NeverBuriesAnEdit
  OBVIOUS
<1> DEFINE Kept == \A w \in Writers : pc[w] = "locked" /\ pc'[w] = "writing" => edits = 0
<1>1. TypeOK /\ EditInvariant /\ [Next]_vars => Kept
  <2> SUFFICES ASSUME TypeOK, EditInvariant, [Next]_vars,
                      NEW v \in Writers, pc[v] = "locked", pc'[v] = "writing", edits > 0
               PROVE  FALSE
    BY DEF TypeOK
  <2>0. DOMAIN pc = Writers /\ file \in File /\ key[v] \in KeyIds
    BY DEF TypeOK
  <2>1. ASSUME NEW w \in Writers, Draft(w)
        PROVE  FALSE
    <3>1. w = v /\ Refusal(v) = "none"
      BY <2>0, <2>1 DEF Draft
    <3>2. head[v][key[v]] = None
      BY <2>0 DEF EditInvariant, NoHints
    <3>3. /\ ~ Downgrade(v) /\ Intact(file.recs, key[v]) /\ Parses(file)
      BY <3>1, <3>2 DEF Refusal, ChainIntact, HintHolds, Parses
    <3>4. Broken(file.recs)
      BY <3>3 DEF EditInvariant, Bad, Parses, Truncated, Corrupt
    <3>5. key[v] = NoKey /\ KeysOf(file.recs) # {}
      BY <2>0, <3>3, <3>4 DEF Broken
    <3> QED BY <3>3, <3>5 DEF Downgrade, RecordedKeys, KeysOf
  <2>2. ASSUME NEW w \in Writers,
               \/ \E evs \in Batches, k \in KeyIds : Call(w, evs, k)
               \/ Lock(w) \/ (\E q \in 1 .. 3 : Write(w, q)) \/ Sync(w)
        PROVE  FALSE
    BY <2>0, <2>2 DEF Call, Lock, Write, Sync, EndCall
  <2>3. ASSUME NEW w \in Writers, Refuse(w) \/ Fail(w) \/ Kill(w)
        PROVE  FALSE
    BY <2>0, <2>3 DEF Refuse, Fail, Kill, EndCall
  <2>4. CASE PowerLoss \/ Edit \/ UNCHANGED vars
    BY <2>0, <2>4 DEF PowerLoss, Edit, vars
  <2> QED BY <2>1, <2>2, <2>3, <2>4 DEF Next
<1>2. TypeOK /\ EditInvariant /\ [Next]_vars => [Kept]_vars
  BY <1>1
<1> QED BY <1>2, TypeCorrect, EditInvariantHolds, PTL DEF Spec, NeverBuriesAnEdit

-----------------------------------------------------------------------------
(* The sink implements EvidenceLog *)

(* The events of a log are as many as its entries. *)
LEMMA EventsType ==
  ASSUME NEW s \in Seq(Entry)
  PROVE  /\ EventsOf(s) \in Seq(Events) /\ Len(EventsOf(s)) = Len(s)
         /\ \A i \in 1 .. Len(s) : EventsOf(s)[i] = s[i].event
<1>0. \A e \in Entry : e.event \in Events
  BY DEF Entry
<1>1. DOMAIN s = 1 .. Len(s) /\ Len(s) \in Nat /\ \A i \in 1 .. Len(s) : s[i].event \in Events
  BY <1>0
<1>2. EventsOf(s) \in [1 .. Len(s) -> Events] /\ \A i \in 1 .. Len(s) : EventsOf(s)[i] = s[i].event
  BY <1>1 DEF EventsOf
<1>3. EventsOf(s) \in Seq(Events)
  BY <1>1, <1>2
<1>4. DOMAIN EventsOf(s) = 1 .. Len(s)
  BY <1>2
<1>5. Len(EventsOf(s)) = Len(s)
  BY <1>1, <1>3, <1>4, LenProperties
<1>6. QED
  BY <1>2, <1>3, <1>5

(* An appended entry appends its event. *)
LEMMA EventsAppend ==
  ASSUME NEW s \in Seq(Entry), NEW e \in Entry
  PROVE  e.event \in Events /\ EventsOf(Append(s, e)) = Append(EventsOf(s), e.event)
<1> DEFINE t == Append(s, e)
           u == Append(EventsOf(s), e.event)
<1>1. e.event \in Events /\ Len(s) \in Nat
  BY DEF Entry
<1>2. /\ t \in Seq(Entry) /\ Len(t) = Len(s) + 1 /\ t[Len(s) + 1] = e
      /\ \A i \in 1 .. Len(s) : t[i] = s[i]
  BY AppendProperties
<1>3. /\ EventsOf(s) \in Seq(Events) /\ Len(EventsOf(s)) = Len(s)
      /\ \A i \in 1 .. Len(s) : EventsOf(s)[i] = s[i].event
  BY EventsType
<1>4. /\ u \in Seq(Events) /\ Len(u) = Len(s) + 1 /\ u[Len(s) + 1] = e.event
      /\ \A i \in 1 .. Len(s) : u[i] = EventsOf(s)[i]
  BY <1>1, <1>3, AppendProperties
<1>5. /\ EventsOf(t) \in Seq(Events) /\ Len(EventsOf(t)) = Len(s) + 1
      /\ \A i \in 1 .. (Len(s) + 1) : EventsOf(t)[i] = t[i].event
  BY <1>2, EventsType
<1> HIDE DEF t, u
<1>6. \A i \in 1 .. (Len(s) + 1) : EventsOf(t)[i] = u[i]
  BY <1>1, <1>2, <1>3, <1>4, <1>5
<1>7. EventsOf(t) = u
  BY <1>4, <1>5, <1>6, SeqEqual
<1>8. QED
  BY <1>1, <1>7 DEF t, u

(* A cut log loses the events of the entries it loses. *)
LEMMA EventsCut ==
  ASSUME NEW s \in Seq(Entry), NEW n \in 0 .. Len(s)
  PROVE  EventsOf(SubSeq(s, 1, n)) = SubSeq(EventsOf(s), 1, n)
<1> DEFINE t == SubSeq(s, 1, n)
           u == SubSeq(EventsOf(s), 1, n)
<1>1. Len(s) \in Nat /\ n \in Nat
  OBVIOUS
<1>2. t \in Seq(Entry) /\ Len(t) = n /\ \A i \in 1 .. n : t[i] = s[i]
  BY <1>1, SubSeqProperties
<1>3. /\ EventsOf(s) \in Seq(Events) /\ Len(EventsOf(s)) = Len(s)
      /\ \A i \in 1 .. Len(s) : EventsOf(s)[i] = s[i].event
  BY EventsType
<1>4. u \in Seq(Events) /\ Len(u) = n /\ \A i \in 1 .. n : u[i] = EventsOf(s)[i]
  BY <1>1, <1>3, SubSeqProperties
<1>5. /\ EventsOf(t) \in Seq(Events) /\ Len(EventsOf(t)) = n
      /\ \A i \in 1 .. n : EventsOf(t)[i] = t[i].event
  BY <1>2, EventsType
<1> HIDE DEF t, u
<1>6. \A i \in 1 .. n : EventsOf(t)[i] = u[i]
  BY <1>1, <1>2, <1>3, <1>4, <1>5
<1>7. EventsOf(t) = u
  BY <1>4, <1>5, <1>6, SeqEqual
<1>8. QED
  BY <1>7 DEF t, u

(* If nothing after place n was returned, at most n entries are promised. *)
LEMMA PromisedBound ==
  ASSUME NEW s \in Seq(Entry), NEW R, NEW n \in 0 .. Len(s),
         \A j \in 1 .. Len(s) : s[j] \in R => j <= n
  PROVE  Cardinality(PromisedAt(s, R)) \in 0 .. n
<1>1. n \in Nat /\ Len(s) \in Nat
  OBVIOUS
<1>2. PromisedAt(s, R) \subseteq 1 .. n
  BY <1>1 DEF PromisedAt
<1>3. IsFiniteSet(1 .. n) /\ Cardinality(1 .. n) = n
  BY <1>1, FS_Interval
<1>4. /\ IsFiniteSet(PromisedAt(s, R))
      /\ Cardinality(PromisedAt(s, R)) <= n
  BY <1>2, <1>3, FS_Subset
<1>5. Cardinality(PromisedAt(s, R)) \in Nat
  BY <1>4, FS_CardinalityType
<1>6. QED
  BY <1>1, <1>4, <1>5

(* Once the last entry is returned, all are promised. *)
LEMMA PromisedAll ==
  ASSUME NEW s \in Seq(Entry), NEW R, s # << >>, s[Len(s)] \in R
  PROVE  Cardinality(PromisedAt(s, R)) = Len(s)
<1>1. Len(s) \in Nat /\ Len(s) \in 1 .. Len(s)
  BY EmptySeq
<1>2. PromisedAt(s, R) = 1 .. Len(s)
  BY <1>1 DEF PromisedAt
<1>3. QED
  BY <1>1, <1>2, FS_Interval

(* An entry that was not returned promises nothing by being appended ... *)
LEMMA PromisedAppend ==
  ASSUME NEW s \in Seq(Entry), NEW e \in Entry, NEW R, e \notin R
  PROVE  PromisedAt(Append(s, e), R) = PromisedAt(s, R)
<1> DEFINE t == Append(s, e)
<1>1. /\ Len(s) \in Nat /\ Len(t) = Len(s) + 1 /\ t[Len(s) + 1] = e
      /\ \A i \in 1 .. Len(s) : t[i] = s[i]
      /\ DOMAIN t = 1 .. (Len(s) + 1) /\ DOMAIN s = 1 .. Len(s)
  OBVIOUS
<1> HIDE DEF t
<1>2. PromisedAt(t, R) \subseteq PromisedAt(s, R)
  <2>1. SUFFICES ASSUME NEW i \in 1 .. (Len(s) + 1), NEW j \in i .. (Len(s) + 1), t[j] \in R
                 PROVE  i \in PromisedAt(s, R)
    BY <1>1 DEF PromisedAt
  <2>2. j # Len(s) + 1 /\ j \in 1 .. Len(s)
    BY <1>1, <2>1
  <2>3. QED
    BY <1>1, <2>1, <2>2 DEF PromisedAt
<1>3. PromisedAt(s, R) \subseteq PromisedAt(t, R)
  <2>1. SUFFICES ASSUME NEW i \in 1 .. Len(s), NEW j \in i .. Len(s), s[j] \in R
                 PROVE  i \in PromisedAt(t, R)
    BY <1>1 DEF PromisedAt
  <2>2. j \in 1 .. Len(s) /\ j \in i .. (Len(s) + 1) /\ i \in 1 .. (Len(s) + 1)
    BY <1>1
  <2>3. QED
    BY <1>1, <2>1, <2>2 DEF PromisedAt
<1>4. QED
  BY <1>2, <1>3 DEF t

(* ... and takes no promise with it when it is cut off. *)
LEMMA PromisedCut ==
  ASSUME NEW s \in Seq(Entry), NEW R, NEW n \in 0 .. Len(s),
         \A j \in 1 .. Len(s) : s[j] \in R => j <= n
  PROVE  PromisedAt(SubSeq(s, 1, n), R) = PromisedAt(s, R)
<1> DEFINE t == SubSeq(s, 1, n)
<1>1. /\ Len(s) \in Nat /\ n \in Nat /\ Len(t) = n
      /\ \A i \in 1 .. n : t[i] = s[i]
      /\ DOMAIN t = 1 .. n /\ DOMAIN s = 1 .. Len(s)
  BY SubSeqProperties
<1> HIDE DEF t
<1>2. PromisedAt(t, R) \subseteq PromisedAt(s, R)
  <2>1. SUFFICES ASSUME NEW i \in 1 .. n, NEW j \in i .. n, t[j] \in R
                 PROVE  i \in PromisedAt(s, R)
    BY <1>1 DEF PromisedAt
  <2>2. j \in 1 .. n /\ j \in i .. Len(s) /\ i \in 1 .. Len(s)
    BY <1>1
  <2>3. QED
    BY <1>1, <2>1, <2>2 DEF PromisedAt
<1>3. PromisedAt(s, R) \subseteq PromisedAt(t, R)
  <2>1. SUFFICES ASSUME NEW i \in 1 .. Len(s), NEW j \in i .. Len(s), s[j] \in R
                 PROVE  i \in PromisedAt(t, R)
    BY <1>1 DEF PromisedAt
  <2>2. j <= n /\ j \in 1 .. n /\ j \in i .. n /\ i \in 1 .. n
    BY <1>1, <2>1
  <2>3. QED
    BY <1>1, <2>1, <2>2 DEF PromisedAt
<1>4. QED
  BY <1>2, <1>3 DEF t

(* Returning an entry that cannot be loaded promises nothing that can. *)
LEMMA PromisedElsewhere ==
  ASSUME NEW s \in Seq(Entry), NEW R, NEW e, e \notin EntriesOf(s)
  PROVE  PromisedAt(s, R \cup {e}) = PromisedAt(s, R)
<1>1. \A j \in DOMAIN s : s[j] \in R \cup {e} <=> s[j] \in R
  BY DEF EntriesOf
<1>2. DOMAIN s = 1 .. Len(s) /\ Len(s) \in Nat
  OBVIOUS
<1>3. \A i \in 1 .. Len(s) : \A j \in i .. Len(s) : j \in DOMAIN s
  BY <1>2
<1>4. QED
  BY <1>1, <1>2, <1>3 DEF PromisedAt


(* In a chain whose first part holds everything returned, no later place does. *)
LEMMA ReturnedPlaces ==
  ASSUME NEW s \in Seq(Entry), NEW k \in KeyIds, WellChained(s, k),
         NEW t \in Seq(Entry), StartsWith(s, t), NEW R, R \subseteq EntriesOf(t)
  PROVE  \A j \in 1 .. Len(s) : s[j] \in R => j <= Len(t)
<1>1. SUFFICES ASSUME NEW j \in 1 .. Len(s), s[j] \in R
               PROVE  j <= Len(t)
  OBVIOUS
<1>2. PICK i \in 1 .. Len(t) : s[j] = t[i]
  BY <1>1 DEF EntriesOf
<1>3. i \in 1 .. Len(s) /\ t[i] = s[i]
  BY DEF StartsWith
<1>4. s[j].seq = j - 1 /\ s[i].seq = i - 1
  BY <1>3 DEF WellChained, Linked
<1>5. QED
  BY <1>2, <1>3, <1>4

(* A sequence another one starts with is a cut of it. *)
LEMMA StartIsCut ==
  ASSUME NEW s \in Seq(Entry), NEW t \in Seq(Entry), StartsWith(s, t)
  PROVE  Len(t) \in 0 .. Len(s) /\ t = SubSeq(s, 1, Len(t))
<1>1. Len(t) \in Nat /\ Len(s) \in Nat /\ Len(t) <= Len(s)
  BY DEF StartsWith
<1> DEFINE u == SubSeq(s, 1, Len(t))
<1>2. u \in Seq(Entry) /\ Len(u) = Len(t) /\ \A i \in 1 .. Len(t) : u[i] = s[i]
  BY <1>1, SubSeqProperties
<1> HIDE DEF u
<1>3. \A i \in 1 .. Len(t) : t[i] = u[i]
  BY <1>2 DEF StartsWith
<1>4. t = u
  BY <1>2, <1>3, SeqEqual
<1>5. QED
  BY <1>1, <1>4 DEF u

(* ... and a file whose open line was run over is its disk without that line. *)
LEMMA OpenLineBack ==
  ASSUME NEW d \in File, d.tail = "open", d.recs # << >>
  PROVE  \E e \in Entry : d.recs = Append(Ended(d), e)
<1>1. d.recs \in Seq(Entry) /\ Len(d.recs) \in Nat /\ Len(d.recs) # 0
  BY FileFields, EmptySeq
<1> DEFINE n == Len(d.recs)
           e == d.recs[n]
           s == Ended(d)
<1>2. e \in Entry
  BY <1>1
<1>3. s \in Seq(Entry) /\ Len(s) = n - 1 /\ \A i \in 1 .. (n - 1) : s[i] = d.recs[i]
  BY <1>1, SubSeqProperties DEF Ended
<1>4. /\ Append(s, e) \in Seq(Entry) /\ Len(Append(s, e)) = n
      /\ \A i \in 1 .. (n - 1) : Append(s, e)[i] = s[i]
      /\ Append(s, e)[n] = e
  BY <1>1, <1>2, <1>3, AppendProperties
<1>5. \A i \in 1 .. n : Append(s, e)[i] = d.recs[i]
  BY <1>1, <1>3, <1>4
<1>6. Append(s, e) = d.recs
  BY <1>1, <1>4, <1>5, SeqEqual
<1>7. QED
  BY <1>2, <1>6

(* What one os.write() does to the entries that can be loaded. *)
LEMMA LandEntries ==
  ASSUME NEW f \in File, NEW e, NEW p \in 0 .. 3, NEW q \in 1 .. 3
  PROVE  \/ Land(f, e, p, q).recs = f.recs
         \/ f.tail = "open" /\ Land(f, e, p, q).recs = Ended(f)
         \/ Land(f, e, p, q).recs = Append(f.recs, e)
BY DEF Land, Ended

(* Cutting entries that were not returned is a crash the promise allows for. *)
LEMMA CutIsCrash ==
  ASSUME NEW f \in File, NEW k \in KeyIds, WellChained(f.recs, k),
         NEW t \in Seq(Entry), StartsWith(f.recs, t), NEW R, R \subseteq EntriesOf(t)
  PROVE  /\ EventsOf(t) = SubSeq(EventsOf(f.recs), 1, Len(t))
         /\ Len(t) \in Cardinality(PromisedAt(f.recs, R)) .. Len(EventsOf(f.recs))
         /\ PromisedAt(t, R) = PromisedAt(f.recs, R)
<1>1. f.recs \in Seq(Entry) /\ Len(f.recs) \in Nat
  BY FileFields
<1>2. PICK n \in 0 .. Len(f.recs) : n = Len(t) /\ t = SubSeq(f.recs, 1, n)
  BY <1>1, StartIsCut
<1>3. \A j \in 1 .. Len(f.recs) : f.recs[j] \in R => j <= n
  BY <1>1, <1>2, ReturnedPlaces
<1>4. EventsOf(SubSeq(f.recs, 1, n)) = SubSeq(EventsOf(f.recs), 1, n)
  BY <1>1, EventsCut
<1>5. PromisedAt(SubSeq(f.recs, 1, n), R) = PromisedAt(f.recs, R)
  BY <1>1, <1>3, PromisedCut
<1>6. Cardinality(PromisedAt(f.recs, R)) \in 0 .. n
  BY <1>1, <1>3, PromisedBound
<1>7. Len(EventsOf(f.recs)) = Len(f.recs)
  BY <1>1, EventsType
<1>8. n \in Cardinality(PromisedAt(f.recs, R)) .. Len(EventsOf(f.recs))
  BY <1>1, <1>6, <1>7
<1>9. QED
  BY <1>2, <1>4, <1>5, <1>8


\* Nothing but the sink has written the file.
Unedited == edits = 0

(* No edit happens where none is allowed. *)
LEMMA NoEdits ==
  ASSUME MaxEdits = 0
  PROVE  Spec => []Unedited
<1>1. Init => Unedited
  BY DEF Init, Unedited
<1>2. Unedited /\ [Next]_vars => Unedited'
  <2> SUFFICES ASSUME edits = 0, [Next]_vars
               PROVE  edits' = 0
    BY DEF Unedited
  <2>1. ASSUME NEW w \in Writers, NEW evs \in Batches, NEW k \in KeyIds, Call(w, evs, k)
        PROVE  edits' = 0
    BY <2>1 DEF Call
  <2>2. ASSUME NEW w \in Writers, Lock(w) \/ Refuse(w) \/ Draft(w) \/ Sync(w)
        PROVE  edits' = 0
    BY <2>2 DEF Lock, Refuse, Draft, Sync, bounds
  <2>3. ASSUME NEW w \in Writers, NEW q \in 1 .. 3, Write(w, q)
        PROVE  edits' = 0
    BY <2>3 DEF Write, bounds
  <2>4. ASSUME NEW w \in Writers, Fail(w) \/ Kill(w)
        PROVE  edits' = 0
    BY <2>4 DEF Fail, Kill
  <2>5. ASSUME PowerLoss
        PROVE  edits' = 0
    BY <2>5 DEF PowerLoss
  <2>6. ~ Edit
    BY DEF Edit
  <2>7. CASE UNCHANGED vars
    BY <2>7 DEF vars, bounds
  <2>8. QED
    BY <2>1, <2>2, <2>3, <2>4, <2>5, <2>6, <2>7 DEF Next
<1>3. QED
  BY <1>1, <1>2, PTL DEF Spec

(* One os.write() makes an event readable, or takes one that was never promised,
   or neither. *)
LEMMA WriteKeepsPromise ==
  ASSUME TypeOK, ChainInvariant, LineInvariant, edits = 0,
         NEW w \in Writers, NEW q \in 1 .. 3, Write(w, q)
  PROVE  [Evidence!Next]_(Evidence!vars)
<1>1. UNCHANGED <<disk, returned>> /\ pc[w] = "writing" /\ put[w] < q
      /\ file' = Land(file, draft[w], put[w], q)
  BY DEF Write
<1>2. /\ Behind(disk, file) /\ Durable
      /\ LineSoFar(disk, file, draft[w], put[w]) /\ draft[w] \notin returned
  BY <1>1 DEF LineInvariant
<1>3. /\ put[w] \in 0 .. 3 /\ key[w] \in KeyIds /\ draft[w] \in Entry
      /\ file \in File /\ disk \in File /\ file.recs \in Seq(Entry)
      /\ WellChained(file.recs, key[w])
  BY <1>1, FileFields DEF TypeOK, ChainInvariant, DraftFits
<1>4. returned \subseteq EntriesOf(Ended(file))
  BY <1>1, <1>2, <1>3, BehindKeeps DEF Durable
<1>5. Damaged(disk) = FALSE
  BY <1>2 DEF Damaged, LineSoFar
<1>6. \/ file'.recs = file.recs
      \/ file.tail = "open" /\ file'.recs = Ended(file)
      \/ file'.recs = Append(file.recs, draft[w])
  BY <1>1, <1>3, LandEntries
<1>7. CASE file'.recs = file.recs
  BY <1>1, <1>7 DEF Evidence!vars
<1>8. CASE file.tail = "open" /\ file'.recs = Ended(file)
  <2>1. Ended(file) \in Seq(Entry) /\ StartsWith(file.recs, Ended(file))
    BY <1>3, EndedIsCut
  <2>2. /\ EventsOf(Ended(file)) = SubSeq(EventsOf(file.recs), 1, Len(Ended(file)))
        /\ Len(Ended(file)) \in Cardinality(PromisedAt(file.recs, returned)) .. Len(EventsOf(file.recs))
        /\ PromisedAt(Ended(file), returned) = PromisedAt(file.recs, returned)
    BY <1>3, <1>4, <2>1, CutIsCrash
  <2>3. Evidence!Crash
    BY <1>1, <1>8, <2>2 DEF Evidence!Crash
  <2>4. QED
    BY <2>3 DEF Evidence!Next
<1>9. CASE file'.recs = Append(file.recs, draft[w])
  <2>1. /\ draft[w].event \in Events
        /\ EventsOf(file'.recs) = Append(EventsOf(file.recs), draft[w].event)
    BY <1>3, <1>9, EventsAppend
  <2>2. PromisedAt(file'.recs, returned) = PromisedAt(file.recs, returned)
    BY <1>2, <1>3, <1>9, PromisedAppend
  <2>3. Evidence!Record
    BY <1>1, <1>5, <2>1, <2>2 DEF Evidence!Record
  <2>4. QED
    BY <2>3 DEF Evidence!Next
<1>10. QED
  BY <1>6, <1>7, <1>8, <1>9

(* The fsync promises all that can be loaded, or finds the damage. *)
LEMMA SyncKeepsPromise ==
  ASSUME TypeOK, ChainInvariant, LineInvariant, edits = 0,
         NEW w \in Writers, Sync(w)
  PROVE  [Evidence!Next]_(Evidence!vars)
<1>1. file' = file /\ disk' = file /\ pc[w] = "writing" /\ put[w] = 3
      /\ returned' = returned \cup {draft[w]}
  BY DEF Sync
<1>2. /\ Behind(disk, file) /\ Durable
      /\ LineSoFar(disk, file, draft[w], 3) /\ draft[w] \notin returned
  BY <1>1 DEF LineInvariant
<1>3. /\ key[w] \in KeyIds /\ draft[w] \in Entry /\ file \in File /\ disk \in File
      /\ file.recs \in Seq(Entry) /\ Len(file.recs) \in Nat
      /\ WellChained(file.recs, key[w])
  BY <1>1, FileFields DEF TypeOK, ChainInvariant, DraftFits
<1>4. returned \subseteq EntriesOf(Ended(file))
  BY <1>1, <1>2, <1>3, BehindKeeps DEF Durable
<1>5. Damaged(disk) = FALSE
  BY <1>2 DEF Damaged, LineSoFar
<1>6. Len(EventsOf(file.recs)) = Len(file.recs) /\ EventsOf(file.recs) \in Seq(Events)
  BY <1>3, EventsType
<1>7. CASE file.tail = "clean"
  <2>1. file.recs # << >> /\ file.recs[Len(file.recs)] = draft[w]
    BY <1>2, <1>7 DEF LineSoFar
  <2>2. Cardinality(PromisedAt(file.recs, returned')) = Len(file.recs)
    BY <1>1, <1>3, <2>1, PromisedAll
  <2>3. Len(file.recs) - 1 \in 0 .. Len(file.recs)
    BY <1>3, <2>1, EmptySeq
  <2>4. \A j \in 1 .. Len(file.recs) : file.recs[j] \in returned => j <= Len(file.recs) - 1
    BY <1>2, <1>3, <2>1
  <2>5. Cardinality(PromisedAt(file.recs, returned)) \in 0 .. (Len(file.recs) - 1)
    BY <1>3, <2>3, <2>4, PromisedBound
  <2>6. Cardinality(PromisedAt(file.recs, returned'))
          \in (Cardinality(PromisedAt(file.recs, returned)) + 1) .. Len(EventsOf(file.recs))
    BY <1>3, <1>6, <2>2, <2>5
  <2>7. Damaged(disk') = FALSE
    BY <1>1, <1>7 DEF Damaged
  <2>8. Evidence!Promise
    BY <1>1, <1>5, <2>6, <2>7 DEF Evidence!Promise
  <2>9. QED
    BY <2>8 DEF Evidence!Next
<1>8. CASE file.tail = "junk"
  <2>1. draft[w] \notin EntriesOf(file.recs)
    BY <1>2, <1>8 DEF LineSoFar
  <2>2. PromisedAt(file.recs, returned') = PromisedAt(file.recs, returned)
    BY <1>1, <1>3, <2>1, PromisedElsewhere
  <2>3. Damaged(disk') = TRUE
    BY <1>1, <1>8 DEF Damaged
  <2>4. StartsWith(file.recs, file.recs) /\ Ended(file) = file.recs
    BY <1>3, <1>8 DEF StartsWith, Ended
  <2>5. /\ EventsOf(file.recs) = SubSeq(EventsOf(file.recs), 1, Len(file.recs))
        /\ Len(file.recs) \in Cardinality(PromisedAt(file.recs, returned)) .. Len(EventsOf(file.recs))
    BY <1>3, <1>4, <2>4, CutIsCrash
  <2>6. Evidence!Crash
    BY <1>1, <2>2, <2>3, <2>5 DEF Evidence!Crash
  <2>7. QED
    BY <2>6 DEF Evidence!Next
<1>9. QED
  BY <1>2, <1>7, <1>8 DEF LineSoFar


(* A power loss takes only entries nobody was promised; it may also bring back the
   one whose open line had been run over, the damage not having reached the disk. *)
LEMMA PowerLossKeepsPromise ==
  ASSUME TypeOK, ChainInvariant, LineInvariant, edits = 0, PowerLoss
  PROVE  [Evidence!Next]_(Evidence!vars)
<1>1. file' \in Survivors(disk, file) /\ disk' = file' /\ UNCHANGED returned
  BY DEF PowerLoss
<1>2. /\ Behind(disk, file) /\ Durable /\ file \in File /\ disk \in File
      /\ file.recs \in Seq(Entry) /\ Len(file.recs) \in Nat
      /\ disk.recs \in Seq(Entry) /\ Len(disk.recs) \in Nat
  BY FileFields DEF LineInvariant, TypeOK
<1>3. PICK k \in KeyIds : WellChained(file.recs, k)
  BY DEF ChainInvariant, OneChain
<1>4. file' \in File
  BY <1>1, <1>2, SurvivorsPrefix
<1>5. file'.recs \in Seq(Entry)
  BY <1>4, FileFields
<1>6. Damaged(disk) => file' = disk
  BY <1>1, <1>2 DEF Damaged, Behind, Survivors
<1>7. Damaged(disk') \in {Damaged(disk), TRUE}
  <2>1. Damaged(disk) \in BOOLEAN /\ Damaged(disk') \in BOOLEAN
    BY DEF Damaged
  <2>2. Damaged(disk) => Damaged(disk') = Damaged(disk)
    BY <1>1, <1>6
  <2>3. QED
    BY <2>1, <2>2
<1>8. CASE ~ (returned \subseteq EntriesOf(Ended(disk)))
  <2>1. disk = file /\ file.tail = "junk"
    BY <1>2, <1>8 DEF Durable
  <2>2. file' = file
    BY <1>6, <2>1 DEF Damaged
  <2>3. QED
    BY <1>1, <2>1, <2>2 DEF Evidence!vars
<1>9. CASE /\ returned \subseteq EntriesOf(Ended(disk))
           /\ StartsWith(file.recs, file'.recs)
  <2>1. returned \subseteq EntriesOf(Ended(file'))
    BY <1>1, <1>2, <1>9, SurvivorsKeep
  <2>2. returned \subseteq EntriesOf(file'.recs)
    BY <1>4, <2>1, EndedIsCut
  <2>3. /\ EventsOf(file'.recs) = SubSeq(EventsOf(file.recs), 1, Len(file'.recs))
        /\ Len(file'.recs) \in Cardinality(PromisedAt(file.recs, returned)) .. Len(EventsOf(file.recs))
        /\ PromisedAt(file'.recs, returned) = PromisedAt(file.recs, returned)
    BY <1>2, <1>3, <1>5, <1>9, <2>2, CutIsCrash
  <2>4. Evidence!Crash
    BY <1>1, <1>7, <2>3 DEF Evidence!Crash
  <2>5. QED
    BY <2>4 DEF Evidence!Next
<1>10. CASE /\ returned \subseteq EntriesOf(Ended(disk))
            /\ ~ StartsWith(file.recs, file'.recs)
  <2>1. file'.recs = disk.recs
    <3>1. ASSUME NEW n \in 0 .. Len(file.recs), file'.recs = SubSeq(file.recs, 1, n)
          PROVE  StartsWith(file.recs, file'.recs)
      BY <1>2, <3>1, SubSeqProperties DEF StartsWith
    <3>2. QED
      BY <1>1, <1>2, <1>10, <3>1, SurvivorsPrefix
  <2>2. disk.tail = "open" /\ file.tail \in {"smear", "junk"} /\ file.recs = Ended(disk)
    <3>1. disk # file
      BY <1>2, <1>10, <2>1 DEF StartsWith
    <3>2. QED
      BY <1>2, <1>10, <2>1, <3>1 DEF Behind
  <2>3. disk.recs # << >>
    <3>1. StartsWith(file.recs, << >>)
      BY <1>2 DEF StartsWith
    <3>2. QED
      BY <1>10, <2>1, <3>1
  <2>4. file' = disk
    <3>1. file' \in {disk, file, [recs |-> SubSeq(file.recs, 1, Len(file.recs)), tail |-> "smear"]}
      BY <1>1, <2>2 DEF Survivors
    <3>2. SubSeq(file.recs, 1, Len(file.recs)) = file.recs
      BY <1>2, SubSeqFull
    <3>3. StartsWith(file.recs, file.recs)
      BY <1>2 DEF StartsWith
    <3>4. QED
      BY <1>10, <3>1, <3>2, <3>3
  <2>5. PICK e \in Entry : disk.recs = Append(file.recs, e)
    BY <1>2, <2>2, <2>3, OpenLineBack
  <2>6. e \notin returned
    <3>1. \A x \in returned : x.seq < Len(file.recs)
      BY <1>2, <1>3, <1>10, <2>2, ChainPlaces
    <3>2. PICK j \in KeyIds : WellChained(disk.recs, j)
      BY DEF ChainInvariant, OneChain
    <3>3. Len(disk.recs) = Len(file.recs) + 1 /\ disk.recs[Len(file.recs) + 1] = e
      BY <1>2, <2>5
    <3>4. Len(file.recs) + 1 \in DOMAIN disk.recs
      BY <1>2, <3>3
    <3>5. e.seq = Len(file.recs)
      BY <1>2, <3>2, <3>3, <3>4 DEF WellChained, Linked
    <3>6. QED
      BY <1>2, <3>1, <3>5
  <2>7. /\ e.event \in Events
        /\ EventsOf(file'.recs) = Append(EventsOf(file.recs), e.event)
        /\ PromisedAt(file'.recs, returned) = PromisedAt(file.recs, returned)
    BY <1>2, <2>4, <2>5, <2>6, EventsAppend, PromisedAppend
  <2>8. Damaged(disk) = FALSE /\ Damaged(disk') = FALSE
    BY <1>1, <2>2, <2>4 DEF Damaged
  <2>9. Evidence!Record
    BY <1>1, <2>7, <2>8 DEF Evidence!Record
  <2>10. QED
    BY <2>9 DEF Evidence!Next
<1>11. QED
  BY <1>8, <1>9, <1>10

(* A ledger that nothing but the sink writes is the log EvidenceLog promises:
   whatever the writers, keys, batches and crashes, every step of theirs is one of
   its steps, or none that its readers can see. *)
THEOREM SinkImplementsEvidenceLog ==
  ASSUME MaxEdits = 0
  PROVE  Spec => ImplementsEvidenceLog
<1>1. Init => Evidence!Init
  <2> SUFFICES ASSUME Init PROVE Evidence!Init
    OBVIOUS
  <2>1. file.recs = << >> /\ disk.tail = "clean" /\ << >> \in Seq(Entry)
    BY DEF Init, EmptyFile
  <2>2. EventsOf(<< >>) = << >>
    BY EventsType, EmptySeq
  <2>3. PromisedAt(<< >>, returned) = {}
    BY DEF PromisedAt
  <2>4. QED
    BY <2>1, <2>2, <2>3, FS_EmptySet DEF Evidence!Init, Damaged
<1>2. TypeOK /\ ChainInvariant /\ LineInvariant /\ Unedited /\ [Next]_vars
        => [Evidence!Next]_(Evidence!vars)
  <2> SUFFICES ASSUME TypeOK, ChainInvariant, LineInvariant, edits = 0, [Next]_vars
               PROVE  [Evidence!Next]_(Evidence!vars)
    BY DEF Unedited
  <2>u. ASSUME UNCHANGED <<file, disk, returned>>
        PROVE  UNCHANGED (Evidence!vars)
    BY <2>u DEF Evidence!vars
  <2>1. ASSUME NEW w \in Writers, NEW evs \in Batches, NEW k \in KeyIds, Call(w, evs, k)
        PROVE  [Evidence!Next]_(Evidence!vars)
    BY <2>1, <2>u DEF Call
  <2>2. ASSUME NEW w \in Writers, Lock(w) \/ Refuse(w) \/ Draft(w) \/ Fail(w) \/ Kill(w)
        PROVE  [Evidence!Next]_(Evidence!vars)
    BY <2>2, <2>u DEF Lock, Refuse, Draft, Fail, Kill
  <2>3. ASSUME NEW w \in Writers, NEW q \in 1 .. 3, Write(w, q)
        PROVE  [Evidence!Next]_(Evidence!vars)
    BY <2>3, WriteKeepsPromise
  <2>4. ASSUME NEW w \in Writers, Sync(w)
        PROVE  [Evidence!Next]_(Evidence!vars)
    BY <2>4, SyncKeepsPromise
  <2>5. ASSUME PowerLoss
        PROVE  [Evidence!Next]_(Evidence!vars)
    BY <2>5, PowerLossKeepsPromise
  <2>6. ~ Edit
    BY DEF Edit
  <2>7. CASE UNCHANGED vars
    BY <2>7, <2>u DEF vars
  <2>8. QED
    BY <2>1, <2>2, <2>3, <2>4, <2>5, <2>6, <2>7 DEF Next
<1>3. QED
  BY <1>1, <1>2, NoEdits, TypeCorrect, ChainInvariantHolds, LineInvariantHolds, PTL
     DEF Spec, ImplementsEvidenceLog, Evidence!Spec
=============================================================================

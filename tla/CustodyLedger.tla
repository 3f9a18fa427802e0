--------------------------- MODULE CustodyLedger ---------------------------
(***************************************************************************)
(* The ledger file and the processes that write it (ledger/sink.py).       *)
(*                                                                         *)
(* record() is one transaction under an flock: load and verify the file,   *)
(* refuse or chain an entry onto what was loaded, write the line with one  *)
(* or more os.write() calls, fsync, re-read the file into _VERIFIED_HEAD.  *)
(* record_many() repeats it for each event without letting go of the lock. *)
(* Each of these is a step here, because a process can be killed, the      *)
(* machine can lose power, and somebody can edit the file between any two. *)
(*                                                                         *)
(* The file is what load() can make of its bytes: the entries before the   *)
(* first line that does not parse, and how the bytes after them look.      *)
(***************************************************************************)
EXTENDS HashChain, FiniteSets

CONSTANTS
  Writers,      \* processes that call record() or record_many()
  LongLived,    \* those that live from one call to the next (the recorder)
  None,         \* no process, no entry, no hint
  MaxCalls,     \* bound: calls made by all writers together
  MaxBatch,     \* bound: events in one call
  MaxCrashes,   \* bound: process kills, failed writes and power losses
  MaxEdits      \* bound: edits made to the file by something else

ASSUME LedgerAssumption ==
  /\ LongLived \subseteq Writers
  /\ None \notin Writers
  /\ None \notin Entry
  /\ {MaxCalls, MaxBatch, MaxCrashes, MaxEdits} \subseteq Nat

(***************************************************************************)
(* tail:  "clean"  every line parses and the file ends in a newline        *)
(*        "open"   the last entry parses, its newline is missing           *)
(*        "torn"   a final, unterminated piece of one record               *)
(*        "smear"  a final, unterminated line with two records run together*)
(*        "junk"   an unparseable line that is terminated                  *)
(***************************************************************************)
Tails == {"clean", "open", "torn", "smear", "junk"}
File  == [recs : Seq(Entry), tail : Tails]

EmptyFile == [recs |-> << >>, tail |-> "clean"]

VARIABLES
  file,      \* the ledger as processes see it (the page cache)
  disk,      \* the ledger as the disk holds it: what the last fsync covered
  lock,      \* the holder of the flock on .{name}.lock
  pc,        \* where each writer is in record()
  todo,      \* the events its call has still to record
  key,       \* the key its call was given
  draft,     \* the entry it is writing
  put,       \* how much of the draft's line has been written
  head,      \* its _VERIFIED_HEAD, by keyid
  done,      \* the entries its current call has recorded so far
  outcome,   \* how its last call ended
  returned,  \* every entry some _record_locked() has returned
  calls, crashes, edits

bounds == <<calls, crashes, edits>>
vars == <<file, disk, lock, pc, todo, key, draft, put, head, done, outcome,
          returned, bounds>>

Outcomes == {"none", "ok", "downgrade", "wrong_key", "broken", "truncated",
             "corrupt", "error", "killed"}

TypeOK ==
  /\ file \in File
  /\ disk \in File
  /\ lock \in Writers \cup {None}
  /\ pc \in [Writers -> {"idle", "waiting", "locked", "writing"}]
  /\ todo \in [Writers -> Seq(Events)]
  /\ key \in [Writers -> KeyIds]
  /\ draft \in [Writers -> Entry \cup {None}]
  /\ put \in [Writers -> 0 .. 3]
  /\ head \in [Writers -> [KeyIds -> File \cup {None}]]
  /\ done \in [Writers -> Seq(Entry)]
  /\ outcome \in [Writers -> Outcomes]
  /\ returned \subseteq Entry
  /\ calls \in Nat /\ crashes \in Nat /\ edits \in Nat
  \* a call under way has an event to record, and an entry once it writes
  /\ \A w \in Writers : /\ pc[w] \in {"waiting", "locked"} => todo[w] # << >>
                        /\ pc[w] = "writing" => draft[w] # None

NoHints == [k \in KeyIds |-> None]

Init ==
  /\ file = EmptyFile
  /\ disk = EmptyFile
  /\ lock = None
  /\ pc = [w \in Writers |-> "idle"]
  /\ todo = [w \in Writers |-> << >>]
  /\ key = [w \in Writers |-> NoKey]
  /\ draft = [w \in Writers |-> None]
  /\ put = [w \in Writers |-> 0]
  /\ head = [w \in Writers |-> NoHints]
  /\ done = [w \in Writers |-> << >>]
  /\ outcome = [w \in Writers |-> "none"]
  /\ returned = {}
  /\ calls = 0 /\ crashes = 0 /\ edits = 0

-----------------------------------------------------------------------------
(* load() *)

\* Mutant: load() drops an unparseable line without a word.
CorruptUnnoticed(f) == FALSE

\* A final line that does not parse and has no newline is a torn write; any
\* other line that does not parse is corruption.
Truncated(f) == f.tail \in {"torn", "smear"}
Corrupt(f)   == f.tail = "junk"
Parses(f)    == ~ Truncated(f) /\ ~ Corrupt(f)

\* The head hint holds when the file still starts with the very bytes it
\* digests; then only what was appended since is verified.
HintHolds(w) ==
  LET h == head[w][key[w]]
      n == Len(h.recs)
  IN  /\ h # None
      /\ Parses(file)
      /\ n <= Len(file.recs)
      /\ SubSeq(file.recs, 1, n) = h.recs
      /\ n = Len(file.recs) => file.tail = "clean"
      /\ Intact(SubSeq(file.recs, n + 1, Len(file.recs)), key[w])

ChainIntact(w) == HintHolds(w) \/ Intact(file.recs, key[w])

-----------------------------------------------------------------------------
(* _record_locked(): the refusals, in the order the code makes them *)

RecordedKeys == {file.recs[i].key : i \in DOMAIN file.recs} \ {NoKey}

\* Mutants: _reject_downgrade(), _reject_wrong_key() are not called.
DowngradeAllowed(w) == FALSE
WrongKeyUnnamed(w) == FALSE

\* A keyed ledger is not written without its key.
Downgrade(w) == key[w] = NoKey /\ RecordedKeys # {}

\* A key the ledger does not name is a mismatch; it comes before the verdict on
\* the chain, which it would make look tampered with.
WrongKey(w) == key[w] # NoKey /\ RecordedKeys # {} /\ key[w] \notin RecordedKeys

Refusal(w) ==
  IF Downgrade(w) THEN "downgrade"
  ELSE IF WrongKey(w) THEN "wrong_key"
  ELSE IF ~ ChainIntact(w) THEN "broken"
  ELSE IF Truncated(file) THEN "truncated"
  ELSE IF Corrupt(file) THEN "corrupt"
  ELSE "none"

-----------------------------------------------------------------------------
(* _write_all(): the line reaches the file in one os.write() or several.   *)
(* Progress 1 is a piece of the record, 2 all of it but the newline, 3 the *)
(* whole line.                                                             *)

\* The new bytes fall on a line that already holds something else.
RunsTogether(f, p) ==
  f.tail = "smear" \/ (p = 0 /\ f.tail \in {"open", "torn"})

Land(f, e, p, q) ==
  IF f.tail = "junk" THEN f
  ELSE IF RunsTogether(f, p)
    THEN [recs |-> IF f.tail = "open" THEN SubSeq(f.recs, 1, Len(f.recs) - 1)
                                      ELSE f.recs,
          tail |-> IF q = 3 THEN "junk" ELSE "smear"]
  ELSE [recs |-> IF p < 2 /\ q >= 2 THEN Append(f.recs, e) ELSE f.recs,
        tail |-> IF q = 1 THEN "torn" ELSE IF q = 2 THEN "open" ELSE "clean"]

\* What a power loss can leave: the bytes the last fsync covered (d), and any
\* prefix of those written since (f).  Only a clean d is ever written past, but
\* for an open one, on whose last line the next record falls.
Survivors(d, f) ==
  LET n == Len(d.recs)
      m == Len(f.recs)
      Upto(k, t) == [recs |-> SubSeq(f.recs, 1, k), tail |-> t]
  IN  {d, f}
      \cup (IF f.tail = "junk" /\ d.tail # "junk" THEN {Upto(m, "smear")} ELSE {})
      \cup (IF d.tail = "clean"
              THEN {Upto(k, t) : k \in n .. (m - 1), t \in {"clean", "torn"}}
                   \cup {Upto(k, "open") : k \in (n + 1) .. m}
              ELSE {})
      \cup (IF d.tail = "clean" /\ f.tail \in {"torn", "smear", "junk"}
              THEN {Upto(m, "clean"), Upto(m, "torn")}
              ELSE {})

-----------------------------------------------------------------------------
(* The callers *)

\* record(path, event, key), or record_many() with more than one event.
Call(w, evs, k) ==
  /\ pc[w] = "idle"
  /\ calls < MaxCalls
  /\ pc' = [pc EXCEPT ![w] = "waiting"]
  /\ todo' = [todo EXCEPT ![w] = evs]
  /\ key' = [key EXCEPT ![w] = k]
  /\ done' = [done EXCEPT ![w] = << >>]
  /\ outcome' = [outcome EXCEPT ![w] = "none"]
  /\ calls' = calls + 1
  /\ UNCHANGED <<file, disk, lock, draft, put, head, returned, crashes, edits>>

\* _exclusive(): flock(LOCK_EX).
Lock(w) ==
  /\ pc[w] = "waiting"
  /\ lock = None
  /\ lock' = w
  /\ pc' = [pc EXCEPT ![w] = "locked"]
  /\ UNCHANGED <<file, disk, todo, key, draft, put, head, done, outcome,
                 returned, bounds>>

\* Mutant: an exclusive-create lock file, which outlives its holder.
EndCallLeavingLock(w, how) ==
  /\ pc' = [pc EXCEPT ![w] = "idle"]
  /\ todo' = [todo EXCEPT ![w] = << >>]
  /\ draft' = [draft EXCEPT ![w] = None]
  /\ put' = [put EXCEPT ![w] = 0]
  /\ outcome' = [outcome EXCEPT ![w] = how]
  /\ lock' = IF lock = w /\ how # "killed" THEN None ELSE lock

\* The call ends: the lock goes with its file descriptor, and so does
\* everything else if the process ends with the call.
EndCall(w, how) ==
  /\ pc' = [pc EXCEPT ![w] = "idle"]
  /\ todo' = [todo EXCEPT ![w] = << >>]
  /\ draft' = [draft EXCEPT ![w] = None]
  /\ put' = [put EXCEPT ![w] = 0]
  /\ outcome' = [outcome EXCEPT ![w] = how]
  /\ lock' = IF lock = w THEN None ELSE lock

\* load() and a LedgerError.
Refuse(w) ==
  /\ pc[w] = "locked"
  /\ Refusal(w) # "none"
  /\ EndCall(w, Refusal(w))
  /\ head' = IF w \in LongLived THEN head ELSE [head EXCEPT ![w] = NoHints]
  /\ UNCHANGED <<file, disk, key, done, returned, bounds>>

\* load() and append(): the entry is computed from what was loaded.
Draft(w) ==
  /\ pc[w] = "locked"
  /\ Refusal(w) = "none"
  /\ draft' = [draft EXCEPT ![w] = Chained(file.recs, Head(todo[w]), key[w])]
  /\ todo' = [todo EXCEPT ![w] = Tail(@)]
  /\ put' = [put EXCEPT ![w] = 0]
  /\ pc' = [pc EXCEPT ![w] = "writing"]
  /\ UNCHANGED <<file, disk, lock, key, head, done, outcome, returned, bounds>>

\* One os.write() of _write_all()'s loop.
Write(w, q) ==
  /\ pc[w] = "writing"
  /\ put[w] < q
  /\ file' = Land(file, draft[w], put[w], q)
  /\ put' = [put EXCEPT ![w] = q]
  /\ UNCHANGED <<disk, lock, pc, todo, key, draft, head, done, outcome,
                 returned, bounds>>

\* Mutant: _write_all() does not fsync.
SyncNothing(w) ==
  /\ pc[w] = "writing"
  /\ put[w] = 3
  /\ done' = [done EXCEPT ![w] = Append(@, draft[w])]
  /\ returned' = returned \cup {draft[w]}
  /\ IF todo[w] # << >>
       THEN pc' = [pc EXCEPT ![w] = "locked"] /\ UNCHANGED <<lock, todo, draft, put, outcome>>
       ELSE EndCall(w, "ok")
  /\ UNCHANGED <<file, disk, key, head, bounds>>

\* Mutant: record_many() as a loop over record(), a lock for each event.
SyncAndUnlock(w) ==
  /\ pc[w] = "writing"
  /\ put[w] = 3
  /\ disk' = file
  /\ done' = [done EXCEPT ![w] = Append(@, draft[w])]
  /\ returned' = returned \cup {draft[w]}
  /\ IF todo[w] # << >>
       THEN /\ pc' = [pc EXCEPT ![w] = "waiting"]
            /\ lock' = None
            /\ UNCHANGED <<todo, draft, put, outcome>>
       ELSE EndCall(w, "ok")
  /\ UNCHANGED <<file, key, head, bounds>>

\* Mutant: record_many() goes round once more than it has events.
SyncOnceMore(w) ==
  /\ pc[w] = "writing"
  /\ put[w] = 3
  /\ disk' = file
  /\ done' = [done EXCEPT ![w] = Append(@, draft[w])]
  /\ returned' = returned \cup {draft[w]}
  /\ pc' = [pc EXCEPT ![w] = "locked"]
  /\ UNCHANGED <<file, lock, todo, key, draft, put, head, outcome, bounds>>

\* fsync, the re-read into _VERIFIED_HEAD, and the return of _record_locked();
\* record_many() goes on with its next event, still under the lock.
Sync(w) ==
  /\ pc[w] = "writing"
  /\ put[w] = 3
  /\ disk' = file
  /\ done' = [done EXCEPT ![w] = Append(@, draft[w])]
  /\ returned' = returned \cup {draft[w]}
  /\ \/ /\ todo[w] # << >>
        /\ pc' = [pc EXCEPT ![w] = "locked"]
        /\ head' = [head EXCEPT ![w][key[w]] = file]
        /\ UNCHANGED <<lock, todo, draft, put, outcome>>
     \/ /\ todo[w] = << >>
        /\ EndCall(w, "ok")
        /\ head' = IF w \in LongLived THEN [head EXCEPT ![w][key[w]] = file]
                                      ELSE [head EXCEPT ![w] = NoHints]
  /\ UNCHANGED <<file, key, bounds>>

-----------------------------------------------------------------------------
(* What goes wrong *)

\* os.write() or os.fsync() raises (no space, I/O error): the caller gets the
\* exception, the bytes already written stay.
Fail(w) ==
  /\ pc[w] = "writing"
  /\ crashes < MaxCrashes
  /\ EndCall(w, "error")
  /\ head' = IF w \in LongLived THEN head ELSE [head EXCEPT ![w] = NoHints]
  /\ crashes' = crashes + 1
  /\ UNCHANGED <<file, disk, key, done, returned, calls, edits>>

\* The process dies; the kernel lets its flock go.
Kill(w) ==
  /\ pc[w] # "idle"
  /\ crashes < MaxCrashes
  /\ EndCall(w, "killed")
  /\ head' = [head EXCEPT ![w] = NoHints]
  /\ crashes' = crashes + 1
  /\ UNCHANGED <<file, disk, key, done, returned, calls, edits>>

\* The machine goes down: every process dies and the file is what the disk has.
PowerLoss ==
  /\ crashes < MaxCrashes
  /\ \E f \in Survivors(disk, file) : file' = f /\ disk' = f
  /\ lock' = None
  /\ pc' = [w \in Writers |-> "idle"]
  /\ todo' = [w \in Writers |-> << >>]
  /\ draft' = [w \in Writers |-> None]
  /\ put' = [w \in Writers |-> 0]
  /\ head' = [w \in Writers |-> NoHints]
  /\ outcome' = [w \in Writers |-> IF pc[w] = "idle" THEN outcome[w] ELSE "killed"]
  /\ crashes' = crashes + 1
  /\ UNCHANGED <<key, done, returned, calls, edits>>

\* Something that is not the sink changes a line: its event, its presence
\* before a later one, or its being JSON at all.  It does not take the lock.
Altered(f) ==
  {[f EXCEPT !.recs = [@ EXCEPT ![i].event = ev]] : i \in DOMAIN f.recs, ev \in Events}

Removed(f) ==
  {[f EXCEPT !.recs = SubSeq(@, 1, i - 1) \o SubSeq(@, i + 1, Len(@))] :
     i \in 1 .. (Len(f.recs) - 1)}

Mangled(f) ==
  {[recs |-> SubSeq(f.recs, 1, i - 1), tail |-> "junk"] : i \in DOMAIN f.recs}

Edit ==
  /\ edits < MaxEdits
  /\ \E f \in Altered(file) \cup Removed(file) \cup Mangled(file) :
        f # file /\ file' = f /\ disk' = f
  /\ edits' = edits + 1
  /\ UNCHANGED <<lock, pc, todo, key, draft, put, head, done, outcome, returned,
                 calls, crashes>>

-----------------------------------------------------------------------------
Batches == UNION {[1 .. n -> Events] : n \in 1 .. MaxBatch}

Next ==
  \/ \E w \in Writers :
       \/ \E evs \in Batches, k \in KeyIds : Call(w, evs, k)
       \/ Lock(w)
       \/ Refuse(w)
       \/ Draft(w)
       \/ \E q \in 1 .. 3 : Write(w, q)
       \/ Sync(w)
       \/ Fail(w)
       \/ Kill(w)
  \/ PowerLoss
  \/ Edit

Spec == Init /\ [][Next]_vars

\* The kernel wakes a waiter when the flock is let go and runs every process;
\* nothing obliges a crash, a failed write or an edit to happen.
Fairness ==
  \A w \in Writers :
     /\ WF_vars(Lock(w))
     /\ WF_vars(Refuse(w) \/ Draft(w) \/ Sync(w) \/ \E q \in 1 .. 3 : Write(w, q))

FairSpec == Spec /\ Fairness

-----------------------------------------------------------------------------
(* Properties *)

Recorded == {file.recs[i] : i \in DOMAIN file.recs}

\* Whatever the writers' interleaving, the keys they are given and the crashes,
\* the entries load() returns are one chain under one key: no two writers chain
\* onto the same head, and no entry of another key, or of none, is spliced in
\* (_exclusive(), _reject_downgrade(), _reject_wrong_key()).
ChainHolds == edits = 0 => \E k \in KeyIds : WellChained(file.recs, k)

\* What makes ChainHolds inductive: only the holder of the lock loads and
\* writes; an entry under way fits the end of the file; the disk and every head
\* hint hold chains too, a hint one under the key it is filed by.
LockHeld == \A w \in Writers : pc[w] \in {"locked", "writing"} <=> lock = w

OneChain(f) == \E k \in KeyIds : WellChained(f.recs, k)

DraftFits ==
  \A w \in Writers : pc[w] = "writing" =>
     /\ WellChained(file.recs, key[w])
     /\ put[w] < 2 /\ file.tail \notin {"smear", "junk"}
          => \E ev \in Events : draft[w] = Chained(file.recs, ev, key[w])

HintsHonest ==
  \A w \in Writers, k \in KeyIds :
     head[w][k] # None => WellChained(head[w][k].recs, k)

\* A call that has not ended has no outcome yet.
OutcomePending == \A w \in Writers : pc[w] # "idle" => outcome[w] = "none"

ChainInvariant ==
  /\ LockHeld
  /\ edits = 0 => OneChain(file) /\ OneChain(disk) /\ DraftFits /\ HintsHonest

\* An event record() has returned is still there to be loaded; or load() says the
\* file is damaged, and however many crashes there were, no other returned event is
\* missing (the fsync in _write_all(), and the refusals on a torn tail).
LossIsSingleAndSeen ==
  edits = 0 => \/ returned \subseteq Recorded
               \/ ~ Parses(file) /\ Cardinality(returned \ Recorded) <= 1

\* record(): "fsyncs so a crash after the call cannot lose an event already
\* reported as recorded".
ReturnedStaysReadable == edits = 0 => returned \subseteq Recorded

\* Once something else has edited the file, no record is computed from what
\* load() then sees: the break is never buried under new entries
\* (_record_locked()'s refusals, the digest of _VERIFIED_HEAD).
NeverBuriesAnEdit ==
  [][\A w \in Writers : pc[w] = "locked" /\ pc'[w] = "writing" => edits = 0]_vars

\* A refusal speaks of tampering only when the file was edited, or when a keyed
\* caller meets a ledger that was begun without a key; a wrong key, a missing
\* key or a crash is never called tampering (_reject_wrong_key()'s reason to be).
TamperMeansEdited ==
  [][\A w \in Writers :
       pc[w] = "locked" /\ outcome'[w] = "broken"
         => \/ edits > 0
            \/ key[w] # NoKey /\ RecordedKeys = {} /\ file.recs # << >>]_vars

\* The entries of one record_many() are consecutive in the chain.
BatchContiguous ==
  edits = 0 =>
    \A w \in Writers : \A i \in 1 .. (Len(done[w]) - 1) :
       done[w][i + 1].seq = done[w][i].seq + 1

\* What makes LossIsSingleAndSeen inductive.  Ended(f) leaves out an entry whose
\* newline is missing: a record() that returned wrote the newline, so a torn line
\* takes no returned entry with it, and no crash can take one from the disk.
EntriesOf(s) == {s[i] : i \in DOMAIN s}

Ended(f) == IF f.tail = "open" THEN SubSeq(f.recs, 1, Len(f.recs) - 1) ELSE f.recs

StartsWith(t, s) == Len(s) <= Len(t) /\ \A i \in 1 .. Len(s) : t[i] = s[i]

\* The file is the disk's and what was written since, or a record that fell on
\* the disk's open line.
Behind(d, f) ==
  \/ d = f
  \/ /\ d.tail = "clean"
     /\ StartsWith(f.recs, d.recs)
     /\ f.tail = "open" => Len(d.recs) < Len(f.recs)
  \/ /\ d.tail = "open"
     /\ f.tail \in {"smear", "junk"}
     /\ f.recs = Ended(d)

\* How the file ends while the line of entry e is written up to p.
LineSoFar(d, f, e, p) ==
  /\ p = 0 => f.tail \in {"clean", "open"}
  /\ p = 1 => f.tail \in {"torn", "smear"}
  /\ p = 2 => f.tail \in {"open", "smear"}
  /\ p = 3 => f.tail \in {"clean", "junk"}
  /\ d.tail \in {"clean", "open"}
  /\ p > 0 /\ f.tail \in {"clean", "open", "torn"} => d.tail = "clean"
  /\ p >= 2 /\ f.tail \in {"clean", "open"}
       => f.recs # << >> /\ f.recs[Len(f.recs)] = e
  /\ f.tail \in {"smear", "junk"} => e \notin EntriesOf(f.recs)

\* Everything returned is on the disk; or all but one entry is, and nothing will
\* be written any more.
Durable ==
  \/ returned \subseteq EntriesOf(Ended(disk))
  \/ /\ disk = file /\ file.tail = "junk"
     /\ \A w \in Writers : pc[w] # "writing"
     /\ \E e \in returned : returned \ {e} \subseteq EntriesOf(file.recs)

LineInvariant ==
  edits = 0 =>
    /\ Behind(disk, file)
    /\ Durable
    /\ \A w \in Writers : pc[w] = "writing" =>
          LineSoFar(disk, file, draft[w], put[w]) /\ draft[w] \notin returned

\* What makes BatchContiguous inductive: between two entries of a call the chain
\* is as long as the last one left it, or the file is damaged.
LastDone(w) == done[w][Len(done[w])]

BatchInvariant ==
  edits = 0 =>
    \A w \in Writers :
      /\ pc[w] = "waiting" => done[w] = << >>
      /\ pc[w] = "locked" /\ done[w] # << >>
           => file.tail = "junk" \/ Len(file.recs) = LastDone(w).seq + 1
      /\ pc[w] = "writing" /\ done[w] # << >> => draft[w].seq = LastDone(w).seq + 1
      /\ \A i \in 1 .. (Len(done[w]) - 1) : done[w][i + 1].seq = done[w][i].seq + 1

\* Every call returns or dies: no writer waits for the lock for ever.
CallsEnd == \A w \in Writers : pc[w] = "waiting" ~> pc[w] = "idle"

-----------------------------------------------------------------------------
(* The promise the sink makes to its callers, as EvidenceLog states it.  An *)
(* entry is promised once a returned entry is at or after it; the ledger is *)
(* stuck once the disk holds a line that no write of this code can repair.  *)

EventsOf(s) == [i \in DOMAIN s |-> s[i].event]

PromisedAt(s, R) == {i \in DOMAIN s : \E j \in i .. Len(s) : s[j] \in R}

Damaged(f) == f.tail \in {"smear", "junk"}

Evidence == INSTANCE EvidenceLog WITH
  log   <- EventsOf(file.recs),
  kept  <- Cardinality(PromisedAt(file.recs, returned)),
  stuck <- Damaged(disk)

ImplementsEvidenceLog == Evidence!Spec
=============================================================================

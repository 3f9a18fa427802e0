------------------------------ MODULE Segments ------------------------------
(***************************************************************************)
(* Sealing a ledger segment and rotating to the next (ledger/segments.py,  *)
(* `stop-guessing ledger seal`), beside the writers of CustodyLedger.      *)
(*                                                                         *)
(* record() runs under the flock; seal() does not take it.  A file is an   *)
(* inode: os.replace() moves the name of one, and a writer that has opened *)
(* it goes on writing to it under whatever name it has by then.  A record  *)
(* is one step from its os.open() to its fsync() but for that: torn lines  *)
(* are CustodyLedger's subject.  There is one chain key.                   *)
(***************************************************************************)
EXTENDS Naturals, Sequences, FiniteSets

CONSTANTS
  Writers,      \* processes that record
  Sealer,       \* the operator's `ledger seal`, one at a time
  None,         \* no process, file or seal
  Diligent,     \* the operator passes --index and --prev-seal, as the last
                \* seal printed them; otherwise their defaults are used
  MaxRecords,   \* bound: calls of record() by writers
  MaxSeals,     \* bound: calls of seal()
  MaxCrashes    \* bound: processes killed

ASSUME SegmentsAssumption ==
  /\ Sealer \notin Writers
  /\ None \notin Writers \cup {Sealer} \cup Nat
  /\ Diligent \in BOOLEAN
  /\ {MaxRecords, MaxSeals, MaxCrashes} \subseteq Nat

Procs == Writers \cup {Sealer}

\* What is recorded: the n-th call of record(), or the genesis record of a
\* segment, which names the seal it follows by the number of its seal() call.
Event == [op : {"use", "ledger.seal"}, n : Nat]

INSTANCE HashChain WITH Keys <- {"key"}, NoKey <- "none", Events <- Event

Content == Seq(Entry)
Inodes  == 1 .. (MaxRecords + MaxSeals + 1)
Indices == 0 .. MaxSeals

\* A seal names the content it closes by its file digest, and its predecessor
\* by that one's digest; a digest is what it digests, so the digest of a seal
\* is the list of the seals it leads back to.  `call` is sealed_at.
SealBody   == [call : Nat, index : Indices, records : Nat, head : Digest, file : Content]
SealDigest == Seq(SealBody)
Seal       == [body : SealBody, prev : SealDigest]
NoSeals    == << >>      \* prev_seal_digest of the first: GENESIS

ASSUME SealsAssumption == None \notin Seal

DigestOfSeal(s) == Append(s.prev, s.body)

VARIABLES
  inode,      \* content of each file
  live,       \* the inode at the ledger's path, None while there is none
  sidecar,    \* the seal beside the ledger's path
  archive,    \* the inode at each archive name
  archiveSeal,\* the seal beside each archive name
  lock, pc,
  event,      \* what a process is recording
  draft,      \* the entry it computed from what it loaded
  fd,         \* the inode it opened to append to
  loaded,     \* what seal() loaded
  seal,       \* the seal it made
  returned,   \* calls of record() that have returned
  records, seals, crashes,
  unfinished  \* archives whose seal() was killed after os.replace() (not in the code)

vars == <<inode, live, sidecar, archive, archiveSeal, lock, pc, event, draft,
          fd, loaded, seal, returned, records, seals, crashes, unfinished>>

files == <<inode, live, sidecar, archive, archiveSeal>>
call  == <<event, draft, fd, loaded, seal>>

TypeOK ==
  /\ inode \in [Inodes -> Content]
  /\ live \in Inodes \cup {None}
  /\ sidecar \in Seal \cup {None}
  /\ archive \in [Indices -> Inodes \cup {None}]
  /\ archiveSeal \in [Indices -> Seal \cup {None}]
  /\ lock \in Procs \cup {None}
  /\ pc \in [Procs -> {"idle", "waiting", "locked", "drafted", "opened",
                       "loaded", "sealed", "beside", "replaced"}]
  /\ event \in [Procs -> Event \cup {None}]
  /\ draft \in [Procs -> Entry \cup {None}]
  /\ fd \in [Procs -> Inodes \cup {None}]
  /\ loaded \in Content
  /\ seal \in Seal \cup {None}
  /\ returned \subseteq Nat
  /\ records \in Nat /\ seals \in Nat /\ crashes \in Nat
  /\ unfinished \subseteq Indices
  \* a process about to write holds the descriptor it writes through
  /\ \A p \in Procs : pc[p] = "opened" => fd[p] # None

Init ==
  /\ inode = [i \in Inodes |-> << >>]
  /\ live = None
  /\ sidecar = None
  /\ archive = [x \in Indices |-> None]
  /\ archiveSeal = [x \in Indices |-> None]
  /\ lock = None
  /\ pc = [p \in Procs |-> "idle"]
  /\ event = [p \in Procs |-> None]
  /\ draft = [p \in Procs |-> None]
  /\ fd = [p \in Procs |-> None]
  /\ loaded = << >>
  /\ seal = None
  /\ returned = {}
  /\ records = 0 /\ seals = 0 /\ crashes = 0
  /\ unfinished = {}

LiveContent == IF live = None THEN << >> ELSE inode[live]
Named == {live} \cup {archive[x] : x \in Indices}
Fresh == CHOOSE i \in Inodes : i \notin Named /\ inode[i] = << >>
                               /\ \A p \in Procs : fd[p] # i

Busy(p) == pc[p] # "idle"

-----------------------------------------------------------------------------
(* record(), as CustodyLedger has it, by a writer or by _rotate() *)

Call(w) ==
  /\ pc[w] = "idle"
  /\ records < MaxRecords
  /\ records' = records + 1
  /\ event' = [event EXCEPT ![w] = [op |-> "use", n |-> records + 1]]
  /\ pc' = [pc EXCEPT ![w] = "waiting"]
  /\ UNCHANGED <<files, lock, draft, fd, loaded, seal, returned, seals, crashes,
                 unfinished>>

Lock(p) ==
  /\ pc[p] = "waiting"
  /\ lock = None
  /\ lock' = p
  /\ pc' = [pc EXCEPT ![p] = "locked"]
  /\ UNCHANGED <<files, call, returned, records, seals, crashes, unfinished>>

\* load(), and append() onto what it returned.
Draft(p) ==
  /\ pc[p] = "locked"
  /\ Intact(LiveContent, "key")
  /\ draft' = [draft EXCEPT ![p] = Chained(LiveContent, event[p], "key")]
  /\ pc' = [pc EXCEPT ![p] = "drafted"]
  /\ UNCHANGED <<files, lock, event, fd, loaded, seal, returned, records, seals,
                 crashes, unfinished>>

\* "refusing to append to a tampered ledger": the call, or the seal, fails.
Refuse(p) ==
  /\ pc[p] = "locked"
  /\ ~ Intact(LiveContent, "key")
  /\ lock' = None
  /\ pc' = [pc EXCEPT ![p] = "idle"]
  /\ UNCHANGED <<files, call, returned, records, seals, crashes, unfinished>>

\* Mutant: the descriptor of a file that is there already is not kept.
OpenOnlyNew(p) ==
  /\ pc[p] = "drafted"
  /\ live' = IF live = None THEN Fresh ELSE live
  /\ fd' = IF live = None THEN [fd EXCEPT ![p] = Fresh] ELSE fd
  /\ pc' = [pc EXCEPT ![p] = "opened"]
  /\ UNCHANGED <<inode, sidecar, archive, archiveSeal, lock, event, draft,
                 loaded, seal, returned, records, seals, crashes, unfinished>>

\* os.open(p, O_WRONLY | O_CREAT | O_APPEND)
Open(p) ==
  /\ pc[p] = "drafted"
  /\ LET i == IF live = None THEN Fresh ELSE live
     IN  /\ live' = i
         /\ fd' = [fd EXCEPT ![p] = i]
  /\ pc' = [pc EXCEPT ![p] = "opened"]
  /\ UNCHANGED <<inode, sidecar, archive, archiveSeal, lock, event, draft,
                 loaded, seal, returned, records, seals, crashes, unfinished>>

\* os.write(), fsync(), return.
Write(p) ==
  /\ pc[p] = "opened"
  /\ inode' = [inode EXCEPT ![fd[p]] = Append(@, draft[p])]
  /\ fd' = [fd EXCEPT ![p] = None]
  /\ lock' = None
  /\ pc' = [pc EXCEPT ![p] = "idle"]
  /\ returned' = IF p = Sealer THEN returned ELSE returned \cup {event[p].n}
  /\ UNCHANGED <<live, sidecar, archive, archiveSeal, event, draft, loaded,
                 seal, records, seals, crashes, unfinished>>

-----------------------------------------------------------------------------
(* seal() *)

\* load(p), and the refusals.
StartSeal ==
  /\ pc[Sealer] = "idle"
  /\ seals < MaxSeals
  /\ seals' = seals + 1
  /\ LiveContent # << >>
  /\ Intact(LiveContent, "key")
  /\ loaded' = LiveContent
  /\ pc' = [pc EXCEPT ![Sealer] = "loaded"]
  /\ UNCHANGED <<files, lock, event, draft, fd, seal, returned, records, crashes,
                 unfinished>>

\* What the operator passes: the next free index and the digest of the seal
\* before it, or the defaults 0 and GENESIS.
NextIndex == Cardinality({x \in Indices : archive[x] # None})
\* Mutant: the segment index is never advanced.
IndexStays == 0
Index == IF Diligent THEN NextIndex ELSE 0
\* Mutant: every seal is given GENESIS for its predecessor.
PrevSealForgotten == NoSeals
PrevSeal ==
  IF Index = 0 THEN NoSeals
  ELSE IF archiveSeal[Index - 1] = None THEN NoSeals
  ELSE DigestOfSeal(archiveSeal[Index - 1])

\* file_digest(p) reads the file again; the counts and the head are those of
\* what was loaded.
MakeSeal ==
  /\ pc[Sealer] = "loaded"
  /\ seal' = [body |-> [call |-> seals, index |-> Index, records |-> Len(loaded),
                        head |-> HeadOf(loaded), file |-> LiveContent],
              prev |-> PrevSeal]
  /\ pc' = [pc EXCEPT ![Sealer] = "sealed"]
  /\ UNCHANGED <<files, lock, event, draft, fd, loaded, returned, records,
                 seals, crashes, unfinished>>

WriteSidecar ==
  /\ pc[Sealer] = "sealed"
  /\ sidecar' = seal
  /\ pc' = [pc EXCEPT ![Sealer] = "beside"]
  /\ UNCHANGED <<inode, live, archive, archiveSeal, lock, call, returned,
                 records, seals, crashes, unfinished>>

\* _rotate(): os.replace(p, archive) takes whatever had the archive's name.
Replace ==
  /\ pc[Sealer] = "beside"
  /\ live # None
  /\ archive' = [archive EXCEPT ![seal.body.index] = live]
  /\ live' = None
  /\ pc' = [pc EXCEPT ![Sealer] = "replaced"]
  /\ UNCHANGED <<inode, sidecar, archiveSeal, lock, call, returned, records,
                 seals, crashes, unfinished>>

\* Mutant: _rotate() opens the next segment without its genesis record.
MoveSidecarAndStop ==
  /\ pc[Sealer] = "replaced"
  /\ archiveSeal' = IF sidecar = None THEN archiveSeal
                    ELSE [archiveSeal EXCEPT ![seal.body.index] = sidecar]
  /\ sidecar' = None
  /\ pc' = [pc EXCEPT ![Sealer] = "idle"]
  /\ UNCHANGED <<inode, live, archive, lock, event, draft, fd, loaded, seal,
                 returned, records, seals, crashes, unfinished>>

\* The sidecar follows, and the genesis record of the next segment is recorded.
MoveSidecar ==
  /\ pc[Sealer] = "replaced"
  /\ archiveSeal' = IF sidecar = None THEN archiveSeal
                    ELSE [archiveSeal EXCEPT ![seal.body.index] = sidecar]
  /\ sidecar' = None
  /\ event' = [event EXCEPT ![Sealer] = [op |-> "ledger.seal", n |-> seal.body.call]]
  /\ pc' = [pc EXCEPT ![Sealer] = "waiting"]
  /\ UNCHANGED <<inode, live, archive, lock, draft, fd, loaded, seal, returned,
                 records, seals, crashes, unfinished>>

-----------------------------------------------------------------------------
\* seal() is past os.replace(), and its genesis record is not written.
Rotating == pc[Sealer] \in {"replaced", "waiting", "locked", "drafted", "opened"}

\* A process is killed; the kernel closes its descriptors and lets its flock go.
Kill(p) ==
  /\ Busy(p)
  /\ crashes < MaxCrashes
  /\ crashes' = crashes + 1
  /\ pc' = [pc EXCEPT ![p] = "idle"]
  /\ fd' = [fd EXCEPT ![p] = None]
  /\ lock' = IF lock = p THEN None ELSE lock
  /\ unfinished' = IF p = Sealer /\ Rotating THEN unfinished \cup {seal.body.index}
                   ELSE unfinished
  /\ UNCHANGED <<files, event, draft, loaded, seal, returned, records, seals>>

Next ==
  \/ \E w \in Writers : Call(w)
  \/ \E p \in Procs : Lock(p) \/ Draft(p) \/ Refuse(p) \/ Open(p) \/ Write(p) \/ Kill(p)
  \/ StartSeal \/ MakeSeal \/ WriteSidecar \/ Replace \/ MoveSidecar

Spec == Init /\ [][Next]_vars

-----------------------------------------------------------------------------
(* verify_sealed() and verify_series() *)

VerifySealed(x) ==
  LET s == archiveSeal[x]
      c == inode[archive[x]]
  IN  /\ archive[x] # None
      /\ s # None
      /\ Intact(c, "key")
      /\ c = s.body.file
      /\ HeadOf(c) = s.body.head
      /\ Len(c) = s.body.records

\* The operator hands it the archives there are, in the order of their names.
VerifySeries ==
  \A x \in 0 .. (NextIndex - 1) :
     /\ VerifySealed(x)
     /\ archiveSeal[x].prev =
          IF x = 0 THEN NoSeals ELSE DigestOfSeal(archiveSeal[x - 1])

-----------------------------------------------------------------------------
(* Properties *)

KeptEntries == UNION {{inode[i][j] : j \in DOMAIN inode[i]} : i \in Named \ {None}}
KeptRecords == {e.event.n : e \in {e \in KeptEntries : e.event.op = "use"}}

\* "no evidence is ever discarded to make room": every call of record() that
\* has returned is in the ledger or in one of its archives.
EvidenceKept == returned \subseteq KeptRecords

\* What seal() counted is in the archive still, the seal's head is the last of it,
\* and the seal names the one before.
Describes(s, x) ==
  /\ s.body.index = x
  /\ s.body.records \in 1 .. Len(inode[archive[x]])
  /\ s.body.head = inode[archive[x]][s.body.records].hash
  /\ s.prev = IF x = 0 \/ archiveSeal[x - 1] = None THEN NoSeals
             ELSE DigestOfSeal(archiveSeal[x - 1])

\* It has its seal, and nothing was written to it after seal() had loaded it.
Complete(x) ==
  archiveSeal[x] # None /\ Len(inode[archive[x]]) = archiveSeal[x].body.records

\* Whatever is recorded beside the seals, and whoever is killed, an archive is a
\* chain that holds and begins with what its seal describes, and it lacks a seal
\* only if its seal() was killed as it rotated.  verify_series() refuses the
\* archives exactly when one of them was written to as it was sealed, or lacks
\* its seal.
SeriesHolds ==
  /\ \A x \in 0 .. (NextIndex - 1) :
       /\ Intact(inode[archive[x]], "key")
       /\ IF archiveSeal[x] = None
            THEN x \in unfinished \/ (pc[Sealer] = "replaced" /\ seal.body.index = x)
            ELSE Describes(archiveSeal[x], x)
  /\ VerifySeries <=> \A x \in 0 .. (NextIndex - 1) : Complete(x)

\* Once a seal() has ended, and not by a kill as it rotated, the live segment has the
\* record that names its seal, so that a segment that goes missing is detected; or
\* the live segment is broken, which every record() and seal() is refused for.
LiveFollowsSeal ==
  LET last  == NextIndex - 1
      names == [op |-> "ledger.seal", n |-> archiveSeal[last].body.call]
  IN  ~ Rotating /\ NextIndex > 0 /\ last \notin unfinished
        => \/ \E j \in DOMAIN LiveContent : LiveContent[j].event = names
           \/ ~ Intact(LiveContent, "key")

\* _exclusive(): no "structurally broken chain produced by two correct callers".
LiveChainHolds == Intact(LiveContent, "key")
=============================================================================

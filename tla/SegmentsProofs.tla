---------------------------- MODULE SegmentsProofs ----------------------------
(***************************************************************************)
(* Sealing and rotating, for any number of writers, records and seals, by  *)
(* an operator who passes each seal the index and the digest of the one    *)
(* before (Diligent).                                                      *)
(*                                                                         *)
(* The archives are filled in order, so the index of a seal is free when   *)
(* its file is moved there, no name of a file is ever taken from it, and   *)
(* what was written stays in a file that has a name.  Under the flock an   *)
(* entry that was drafted fits the file it is written to, or begins one    *)
(* that is empty; so a file that was sealed keeps its chain and what was   *)
(* loaded of it, whoever goes on writing to it.                            *)
(***************************************************************************)
EXTENDS Segments, FiniteSetTheorems, SequenceTheorems, TLAPS

----------------------------------------------------------------------------
(* The invariant *)

\* The archives there are
Filled == {x \in Indices : archive[x] # None}

\* A seal() is between what it loaded and os.replace(); p is in record()
Sealing == pc[Sealer] \in {"loaded", "sealed", "beside"}
RecordPCs == {"waiting", "locked", "drafted", "opened"}
Recording(p) == pc[p] \in RecordPCs

\* The archives are the first ones, each of them by a seal() of its own, and a seal
\* has the index after theirs until its file is there.
InOrder ==
  /\ NextIndex \in Nat /\ Filled = 0 .. (NextIndex - 1)
  /\ NextIndex + (IF Sealing THEN 1 ELSE 0) <= seals /\ seals <= MaxSeals
  /\ pc[Sealer] \in {"sealed", "beside"} => seal \in Seal /\ seal.body.index = NextIndex
  /\ Rotating => seal \in Seal /\ seal.body.index = NextIndex - 1

\* A process in record() has its event, and the entry of it once it has one, and
\* nothing else has a descriptor.
Working ==
  \A p \in Procs :
    /\ Recording(p) => /\ event[p] \in Event
                       /\ event[p].op = IF p = Sealer THEN "ledger.seal" ELSE "use"
    /\ pc[p] \in {"drafted", "opened"} => draft[p] \in Entry /\ draft[p].event = event[p]
    /\ fd[p] # None => pc[p] = "opened"
    /\ p # Sealer => Recording(p) \/ pc[p] = "idle"

\* A file with something in it, or open, has a name, and an archive is not the live one.
AllNamed ==
  /\ \A i \in Inodes : (inode[i] # << >> \/ \E p \in Procs : fd[p] = i) => i \in Named
  /\ live # None => \A x \in Indices : archive[x] # live

\* Only who has the flock has drafted or opened, and the operator opens the live file.
Locked ==
  /\ \A p \in Procs : pc[p] \in {"locked", "drafted", "opened"} => lock = p
  /\ pc[Sealer] = "opened" => fd[Sealer] = live

\* Entry e is what append() makes to follow content c.
Extends(c, e) == Intact(c, "key") /\ e = Chained(c, e.event, "key")

\* What was drafted fits the live file, unless that was moved away since; and then what
\* is opened is empty.
Drafted ==
  \A p \in Procs :
    /\ pc[p] = "drafted" => live = None \/ Extends(LiveContent, draft[p])
    /\ pc[p] = "opened" => inode[fd[p]] = << >> \/ Extends(inode[fd[p]], draft[p])

\* An archive has something in it, and its chain holds.
Archived ==
  \A x \in Indices : archive[x] # None =>
    inode[archive[x]] # << >> /\ Intact(inode[archive[x]], "key")

\* The digest a seal of index x names, and the seal of archive x: the sidecar is to
\* follow when it is the last that was moved.
Before(x) == IF x = 0 \/ archiveSeal[x - 1] = None THEN NoSeals
             ELSE DigestOfSeal(archiveSeal[x - 1])
SealOf(x) == IF pc[Sealer] = "replaced" /\ x = NextIndex - 1 THEN seal ELSE archiveSeal[x]

\* Content c begins with s; a seal is one of the first entries of c.
Begins(s, c) == Len(s) <= Len(c) /\ \A i \in 1 .. Len(s) : s[i] = c[i]
Closes(s, c) ==
  /\ s.body.records \in 1 .. Len(s.body.file) /\ Begins(s.body.file, c)
  /\ s.body.head = c[s.body.records].hash

\* A seal is made of what the live file begins with, until that is moved.
SealFits ==
  /\ Sealing => /\ live # None /\ loaded # << >>
                /\ Begins(loaded, LiveContent) /\ Intact(LiveContent, "key")
  /\ pc[Sealer] \in {"sealed", "beside"} =>
       Closes(seal, LiveContent) /\ seal.prev = Before(NextIndex)
  /\ pc[Sealer] \in {"beside", "replaced"} => sidecar = seal

\* Every archive has a seal of what it begins with, which names the one before, unless
\* its seal() was killed; and there is no other seal.
SealsIt(s, c, d, x) == s \in Seal /\ s.body.index = x /\ Closes(s, c) /\ s.prev = d
Sealed(x) ==
  IF SealOf(x) = None THEN x \in unfinished
  ELSE SealsIt(SealOf(x), inode[archive[x]], Before(x), x)
Series ==
  /\ \A x \in 0 .. (NextIndex - 1) : Sealed(x)
  /\ \A x \in Indices : archiveSeal[x] # None =>
       x < NextIndex /\ ~ (pc[Sealer] = "replaced" /\ x = NextIndex - 1)

\* The live file has the record of the last seal, or refuses it, or the operator has it
\* in hand; unless he was killed with it.
NamesLast(e) == e = [op |-> "ledger.seal", n |-> archiveSeal[NextIndex - 1].body.call]
NamedIn(c)   == \E j \in DOMAIN c : NamesLast(c[j].event)
Follows == NextIndex > 0 /\ NextIndex - 1 \notin unfinished =>
  /\ pc[Sealer] = "idle" \/ Sealing => NamedIn(LiveContent) \/ ~ Intact(LiveContent, "key")
  /\ Recording(Sealer) => NamesLast(event[Sealer])

IInv ==
  /\ TypeOK /\ InOrder /\ Working /\ AllNamed /\ EvidenceKept
  /\ Locked /\ Drafted /\ Archived /\ SealFits /\ Series /\ Follows

----------------------------------------------------------------------------
(* What append() and seal() make *)

\* head() is a digest and append() makes an entry of its event.
LEMMA ChainedIsEntry ==
  ASSUME NEW log \in Content, NEW ev \in Event
  PROVE  /\ HeadOf(log) \in Digest
         /\ Chained(log, ev, "key") \in Entry /\ Chained(log, ev, "key").event = ev
<1>1. HeadOf(log) \in Digest
  <2>1. CASE log = << >>
    BY <2>1 DEF HeadOf, GENESIS, Digest
  <2>2. CASE log # << >>
    <3>1. log[Len(log)] \in Entry
      BY <2>2 DEF Content
    <3> QED BY <2>2, <3>1 DEF HeadOf, Entry
  <2> QED BY <2>1, <2>2
<1> DEFINE new == [seq |-> Len(log), key |-> "key", event |-> ev, mac |-> "key"]
<1>2. Len(log) \in Nat /\ "key" \in KeyIds
  BY DEF Content, KeyIds
<1>3. new \in Link
  BY <1>2 DEF Link
<1>4. Append(HeadOf(log), new) \in Digest
  BY <1>1, <1>3 DEF Digest
<1>5. Chained(log, ev, "key") =
        [seq |-> Len(log), prev |-> HeadOf(log), key |-> "key", event |-> ev,
         hash |-> Append(HeadOf(log), new)]
  BY DEF Chained, HashEntry
<1> DEFINE h == HeadOf(log)
           d == Append(HeadOf(log), new)
           e == Chained(log, ev, "key")
<1>6. e = [seq |-> Len(log), prev |-> h, key |-> "key", event |-> ev, hash |-> d]
      /\ h \in Digest /\ d \in Digest
  BY <1>1, <1>4, <1>5
<1> HIDE DEF new, h, d, e
<1>7. e \in Entry /\ e.event = ev
  BY <1>2, <1>6 DEF Entry
<1> QED BY <1>1, <1>7 DEF e

\* The live content is one, and an empty file is intact.
LEMMA LiveType ==
  ASSUME TypeOK
  PROVE  LiveContent \in Content
<1>1. << >> \in Content
  BY DEF Content
<1> QED BY <1>1 DEF LiveContent, TypeOK

\* The digest of a seal is one.
LEMMA SealDigestType ==
  ASSUME NEW s \in Seal
  PROVE  DigestOfSeal(s) \in SealDigest
BY DEF DigestOfSeal, Seal, SealDigest

\* No file is None, and neither is a process.
LEMMA NoneIsNothing ==
  /\ None \notin Inodes /\ None \notin Procs /\ None \notin Nat
  /\ MaxSeals \in Nat /\ MaxRecords \in Nat /\ Sealer \in Procs
BY SegmentsAssumption DEF Inodes, Procs

----------------------------------------------------------------------------
(* The archives *)

\* An archive is there when its index is below the next, which is the number of them.
LEMMA FilledBelowNext ==
  ASSUME InOrder, NEW x \in Indices
  PROVE  /\ archive[x] # None <=> x < NextIndex
         /\ NextIndex \in Nat /\ x \in Nat
<1>1. x \in Nat /\ (x \in Filled <=> x < NextIndex)
  BY NoneIsNothing DEF InOrder, Indices
<1> QED BY <1>1 DEF Filled, InOrder

\* What fills the first free archive leaves them in order.
LEMMA NextIsFilled ==
  ASSUME InOrder, NextIndex < MaxSeals, NEW i, i # None, archive \in [Indices -> Inodes \cup {None}],
         archive' = [archive EXCEPT ![NextIndex] = i]
  PROVE  NextIndex' = NextIndex + 1 /\ Filled' = 0 .. NextIndex /\ NextIndex \in Indices
<1>0. NextIndex \in Nat /\ NextIndex \in Indices
  BY NoneIsNothing DEF InOrder, Indices
<1>1. \A x \in Indices : archive'[x] # None <=> x \in 0 .. NextIndex
  BY <1>0, FilledBelowNext DEF Indices
<1>2. Filled' = 0 .. NextIndex
  BY <1>0, <1>1, NoneIsNothing DEF Filled, Indices
<1>3. Cardinality(0 .. NextIndex) = NextIndex + 1
  BY <1>0, FS_Interval
<1> QED BY <1>0, <1>2, <1>3 DEF NextIndex, Filled

\* While no file is live there is one that nothing uses: only the archives have names,
\* and they are fewer than the files there may be.
LEMMA FreshIsFree ==
  ASSUME TypeOK, InOrder, AllNamed, live = None
  PROVE  /\ Fresh \in Inodes /\ Fresh \notin Named /\ inode[Fresh] = << >>
         /\ \A p \in Procs : fd[p] # Fresh
<1> DEFINE below == 0 .. (NextIndex - 1)
           used == {archive[x] : x \in below}
           f == [x \in below |-> archive[x]]
<1>1. NextIndex \in Nat /\ NextIndex <= MaxSeals /\ below \subseteq Indices
  BY NoneIsNothing DEF InOrder, TypeOK, Indices
<1>2. IsFiniteSet(below) /\ Cardinality(below) = NextIndex
  BY <1>1, FS_Interval
<1>3. f \in Surjection(below, used)
  BY DEF Surjection
<1>4. IsFiniteSet(used) /\ Cardinality(used) \in Nat /\ Cardinality(used) <= NextIndex
  BY <1>2, <1>3, FS_Surjection, FS_CardinalityType
<1>5. Named \ {None} \subseteq used
  BY <1>1, FilledBelowNext DEF Named, Indices
<1>6. \E i \in Inodes : i \notin Named
  <2> SUFFICES ASSUME Inodes \subseteq Named PROVE FALSE
    OBVIOUS
  <2>1. Inodes \in SUBSET used
    BY <1>5, NoneIsNothing
  <2>2. Cardinality(Inodes) = MaxRecords + MaxSeals + 1
    BY NoneIsNothing, FS_Interval DEF Inodes
  <2>3. Cardinality(Inodes) <= Cardinality(used)
    BY <1>4, <2>1, FS_Subset
  <2> QED BY <1>1, <1>4, <2>2, <2>3, NoneIsNothing
<1>7. \E i \in Inodes : i \notin Named /\ inode[i] = << >> /\ \A p \in Procs : fd[p] # i
  BY <1>6 DEF AllNamed
<1> QED BY <1>7 DEF Fresh

----------------------------------------------------------------------------
(* What steps leave alone *)

\* A step of p in record(), or its end
RecordStep(p) == Lock(p) \/ Draft(p) \/ Refuse(p) \/ Open(p) \/ Write(p) \/ Kill(p)
SealStep == StartSeal \/ MakeSeal \/ WriteSidecar \/ Replace \/ MoveSidecar

\* A step is a writer's call, a step in record(), or one of seal().
LEMMA StepIsOfOne ==
  ASSUME [Next]_vars
  PROVE  \/ \E w \in Writers : Call(w)
         \/ \E p \in Procs : RecordStep(p)
         \/ SealStep \/ UNCHANGED vars
BY DEF Next, RecordStep, SealStep

\* record() touches no archive and no seal, and its process goes on in it or is idle.
LEMMA RecordFrame ==
  ASSUME TypeOK, NEW p \in Procs, RecordStep(p)
  PROVE  /\ UNCHANGED <<archive, archiveSeal, sidecar, event, loaded, seal, records, seals>>
         /\ pc'[p] \in {"locked", "drafted", "opened", "idle"}
         /\ \A q \in Procs \ {p} : pc'[q] = pc[q] /\ fd'[q] = fd[q] /\ draft'[q] = draft[q]
         /\ pc'[p] # "idle" => Recording(p)
         /\ unfinished' # unfinished => Kill(p)
         /\ inode' # inode => Write(p)
         /\ live' # live => Open(p)
<1> USE DEF TypeOK, files, call, Recording, RecordPCs
<1>1. CASE Lock(p)
  BY <1>1 DEF Lock
<1>2. CASE Draft(p)
  BY <1>2 DEF Draft
<1>3. CASE Refuse(p)
  BY <1>3 DEF Refuse
<1>4. CASE Open(p)
  BY <1>4 DEF Open
<1>5. CASE Write(p)
  BY <1>5 DEF Write
<1>6. CASE Kill(p)
  BY <1>6 DEF Kill
<1> QED BY <1>1, <1>2, <1>3, <1>4, <1>5, <1>6 DEF RecordStep

\* seal() itself neither writes to a file nor opens one.
LEMMA SealFrame ==
  ASSUME TypeOK, SealStep
  PROVE  /\ UNCHANGED <<inode, lock, draft, fd, returned, records, crashes, unfinished>>
         /\ \A q \in Procs \ {Sealer} : pc'[q] = pc[q] /\ event'[q] = event[q]
<1> USE DEF TypeOK, files, call
<1>1. CASE StartSeal
  BY <1>1 DEF StartSeal
<1>2. CASE MakeSeal
  BY <1>2 DEF MakeSeal
<1>3. CASE WriteSidecar
  BY <1>3 DEF WriteSidecar
<1>4. CASE Replace
  BY <1>4 DEF Replace
<1>5. CASE MoveSidecar
  BY <1>5 DEF MoveSidecar
<1> QED BY <1>1, <1>2, <1>3, <1>4, <1>5 DEF SealStep

\* What depends on the archives alone changes with them.
LEMMA SameArchives ==
  ASSUME UNCHANGED archive
  PROVE  NextIndex' = NextIndex /\ Filled' = Filled
BY DEF NextIndex, Filled

----------------------------------------------------------------------------
(* Types *)

\* A seal is one, with the index of the archive to be.
LEMMA MadeSealType ==
  ASSUME TypeOK, InOrder, Diligent, MakeSeal
  PROVE  /\ seal' \in Seal /\ seal'.body.index = NextIndex /\ NextIndex \in Indices
         /\ seal'.prev = Before(NextIndex)
         /\ seal'.body.file = LiveContent /\ seal'.body.head = HeadOf(loaded)
         /\ seal'.body.records = Len(loaded)
<1>1. Index = NextIndex /\ NextIndex \in Indices
  BY NoneIsNothing DEF MakeSeal, InOrder, Sealing, Index, TypeOK, Indices
<1>2. PrevSeal \in SealDigest
  <2>1. << >> \in SealDigest
    BY DEF SealDigest
  <2>2. Index # 0 => Index - 1 \in Indices
    BY <1>1, NoneIsNothing DEF Indices
  <2>3. Index # 0 /\ archiveSeal[Index - 1] # None => DigestOfSeal(archiveSeal[Index - 1]) \in SealDigest
    BY <2>2, SealDigestType DEF TypeOK
  <2> QED BY <2>1, <2>3 DEF PrevSeal, NoSeals
<1>3. PrevSeal = Before(NextIndex)
  BY <1>1, NoneIsNothing DEF PrevSeal, Before, Indices
<1> DEFINE body == [call |-> seals, index |-> Index, records |-> Len(loaded),
                    head |-> HeadOf(loaded), file |-> LiveContent]
           d == PrevSeal
<1>4. HeadOf(loaded) \in Digest /\ Len(loaded) \in Nat /\ LiveContent \in Content
  <2>1. [op |-> "use", n |-> 0] \in Event
    BY DEF Event
  <2> QED BY <2>1, ChainedIsEntry, LiveType DEF TypeOK, Content
<1>5. body \in SealBody
  BY <1>1, <1>4 DEF SealBody, TypeOK
<1>6. seal' = [body |-> body, prev |-> d]
  BY DEF MakeSeal
<1>7. body.index = NextIndex /\ body.file = LiveContent /\ body.head = HeadOf(loaded)
      /\ body.records = Len(loaded)
  BY <1>1
<1> HIDE DEF body, d
<1>8. seal' \in Seal /\ seal'.body = body /\ seal'.prev = d
  BY <1>2, <1>5, <1>6 DEF Seal, d
<1> QED BY <1>1, <1>3, <1>7, <1>8 DEF d

\* Every action leaves every variable of its type.
LEMMA TypeStep ==
  ASSUME TypeOK, InOrder, Working, AllNamed, Diligent, [Next]_vars
  PROVE  TypeOK'
<1> USE DEF files, call
<1> DEFINE PCs == {"idle", "waiting", "locked", "drafted", "opened",
                   "loaded", "sealed", "beside", "replaced"}
<1>1. ASSUME NEW w \in Writers, Call(w) PROVE TypeOK'
  <2>1. [op |-> "use", n |-> records + 1] \in Event
    BY DEF TypeOK, Event
  <2>3. /\ event' = [event EXCEPT ![w] = [op |-> "use", n |-> records + 1]]
        /\ pc' = [pc EXCEPT ![w] = "waiting"] /\ records' = records + 1
        /\ UNCHANGED <<files, lock, draft, fd, loaded, seal, returned, seals, crashes, unfinished>>
    BY <1>1 DEF Call
  <2> QED BY <2>1, <2>3 DEF TypeOK, Procs
<1>2. ASSUME NEW p \in Procs, Lock(p) \/ Refuse(p) \/ Kill(p) PROVE TypeOK'
  <2>1. CASE Lock(p)
    BY <2>1 DEF TypeOK, Lock
  <2>2. CASE Refuse(p)
    BY <2>2 DEF TypeOK, Refuse
  <2>3. CASE Kill(p)
    <3>1. lock' \in Procs \cup {None}
      BY <2>3 DEF TypeOK, Kill
    <3>2. unfinished' \subseteq Indices
      <4>1. Rotating => seal.body.index \in Indices
        BY DEF InOrder, Seal, SealBody
      <4> QED BY <2>3, <4>1 DEF TypeOK, Kill
    <3> QED BY <2>3, <3>1, <3>2 DEF TypeOK, Kill
  <2> QED BY <1>2, <2>1, <2>2, <2>3
<1>3. ASSUME NEW p \in Procs, Draft(p) PROVE TypeOK'
  <2>1. Chained(LiveContent, event[p], "key") \in Entry
    BY <1>3, LiveType, ChainedIsEntry DEF Draft, Working, Recording, RecordPCs
  <2> QED BY <1>3, <2>1 DEF TypeOK, Draft
<1>4. ASSUME NEW p \in Procs, Open(p) PROVE TypeOK'
  <2> DEFINE i == IF live = None THEN Fresh ELSE live
  <2>1. i \in Inodes /\ i # None
    BY FreshIsFree, NoneIsNothing DEF TypeOK
  <2>2. live' = i /\ fd' = [fd EXCEPT ![p] = i]
    BY <1>4 DEF Open
  <2> HIDE DEF i
  <2> QED BY <1>4, <2>1, <2>2 DEF TypeOK, Open
<1>5. ASSUME NEW p \in Procs, Write(p) PROVE TypeOK'
  <2>1. fd[p] \in Inodes /\ draft[p] \in Entry
    BY <1>5, NoneIsNothing DEF TypeOK, Write, Working
  <2>2. Append(inode[fd[p]], draft[p]) \in Content
    BY <2>1 DEF TypeOK, Content
  <2>3. returned' \subseteq Nat
    <3>1. event[p] \in Event
      BY <1>5 DEF Write, Working, Recording, RecordPCs
    <3> QED BY <1>5, <3>1 DEF Write, Event, TypeOK
  <2> QED BY <1>5, <2>1, <2>2, <2>3, NoneIsNothing DEF TypeOK, Write
<1>6. CASE StartSeal
  <2>2. /\ pc' = [pc EXCEPT ![Sealer] = "loaded"] /\ seals' = seals + 1 /\ loaded' = LiveContent
        /\ UNCHANGED <<files, lock, event, draft, fd, seal, returned, records, crashes, unfinished>>
    BY <1>6 DEF StartSeal
  <2> QED BY <2>2, LiveType, NoneIsNothing DEF TypeOK
<1>7. CASE MakeSeal
  <2>1. /\ pc' = [pc EXCEPT ![Sealer] = "sealed"]
        /\ UNCHANGED <<files, lock, event, draft, fd, loaded, returned, records,
                       seals, crashes, unfinished>>
    BY <1>7 DEF MakeSeal
  <2>2. seal' \in Seal
    BY <1>7, MadeSealType
  <2> QED BY <2>1, <2>2, NoneIsNothing DEF TypeOK
<1>8. CASE WriteSidecar
  BY <1>8, NoneIsNothing DEF TypeOK, WriteSidecar
<1>9. CASE Replace
  BY <1>9, NoneIsNothing DEF TypeOK, Replace
<1>10. CASE MoveSidecar
  <2>1. seal \in Seal /\ seal.body.call \in Nat
    BY <1>10 DEF MoveSidecar, InOrder, Rotating, Seal, SealBody
  <2>2. [op |-> "ledger.seal", n |-> seal.body.call] \in Event
    BY <2>1 DEF Event
  <2>3. archiveSeal' \in [Indices -> Seal \cup {None}]
    BY <1>10 DEF MoveSidecar, TypeOK
  <2>4. /\ event' = [event EXCEPT ![Sealer] = [op |-> "ledger.seal", n |-> seal.body.call]]
        /\ pc' = [pc EXCEPT ![Sealer] = "waiting"] /\ sidecar' = None
        /\ UNCHANGED <<inode, live, archive, lock, draft, fd, loaded, seal, returned,
                       records, seals, crashes, unfinished>>
    BY <1>10 DEF MoveSidecar
  <2> QED BY <2>2, <2>3, <2>4, NoneIsNothing DEF TypeOK
<1>11. CASE UNCHANGED vars
  BY <1>11 DEF TypeOK, vars
<1> QED BY <1>1, <1>2, <1>3, <1>4, <1>5, <1>6, <1>7, <1>8, <1>9, <1>10, <1>11 DEF Next

----------------------------------------------------------------------------
(* The archives are filled in order *)

\* Under an operator who passes the next index, no archive is replaced.
LEMMA InOrderStep ==
  ASSUME TypeOK, InOrder, Working, Diligent, [Next]_vars
  PROVE  InOrder'
<1> USE DEF files, call
<1>1. ASSUME NEW w \in Writers, Call(w) PROVE InOrder'
  <2>1. UNCHANGED archive /\ seals' = seals /\ seal' = seal /\ pc'[Sealer] = pc[Sealer]
    BY <1>1, SegmentsAssumption DEF Call, TypeOK, Procs
  <2> QED BY <2>1, SameArchives DEF InOrder, Sealing, Rotating
<1>2. ASSUME NEW p \in Procs, RecordStep(p) PROVE InOrder'
  <2>1. UNCHANGED archive /\ seals' = seals /\ seal' = seal
    BY <1>2, RecordFrame
  <2>2. pc'[Sealer] = pc[Sealer] \/ pc'[Sealer] \in {"locked", "drafted", "opened", "idle"}
    BY <1>2, RecordFrame, NoneIsNothing
  <2>4. Rotating' => Rotating
    BY <1>2, RecordFrame, NoneIsNothing DEF Rotating, Recording, RecordPCs
  <2>3. seals \in Nat /\ seals' = seals /\ NextIndex \in Nat
    BY <2>1 DEF TypeOK, InOrder
  <2> QED BY <2>1, <2>2, <2>3, <2>4, SameArchives DEF InOrder, Sealing
<1>3. CASE StartSeal
  <2>1. UNCHANGED archive /\ seals' = seals + 1 /\ seals < MaxSeals /\ pc'[Sealer] = "loaded"
        /\ pc[Sealer] = "idle"
    BY <1>3, NoneIsNothing DEF StartSeal, TypeOK
  <2>2. seals \in Nat /\ NextIndex \in Nat /\ NextIndex <= seals
    BY <2>1 DEF TypeOK, InOrder, Sealing
  <2> QED BY <2>1, <2>2, SameArchives, NoneIsNothing DEF InOrder, Sealing, Rotating
<1>4. CASE MakeSeal
  <2>1. UNCHANGED archive /\ seals' = seals /\ pc'[Sealer] = "sealed" /\ pc[Sealer] = "loaded"
    BY <1>4, NoneIsNothing DEF MakeSeal, TypeOK
  <2>2. seal' \in Seal /\ seal'.body.index = NextIndex
    BY <1>4, MadeSealType
  <2> QED BY <2>1, <2>2, SameArchives DEF InOrder, Sealing, Rotating
<1>5. CASE WriteSidecar
  <2>1. UNCHANGED <<archive, seals, seal>> /\ pc'[Sealer] = "beside" /\ pc[Sealer] = "sealed"
    BY <1>5, NoneIsNothing DEF WriteSidecar, TypeOK
  <2> QED BY <2>1, SameArchives DEF InOrder, Sealing, Rotating
<1>6. CASE Replace
  <2>1. UNCHANGED <<seals, seal>> /\ pc'[Sealer] = "replaced" /\ pc[Sealer] = "beside"
        /\ live # None /\ archive' = [archive EXCEPT ![seal.body.index] = live]
    BY <1>6, NoneIsNothing DEF Replace, TypeOK
  <2>2. seal.body.index = NextIndex /\ NextIndex \in Nat /\ NextIndex + 1 <= seals
        /\ seals \in Nat /\ seals <= MaxSeals /\ seal \in Seal
    BY <2>1 DEF InOrder, Sealing, Rotating, TypeOK
  <2>3. NextIndex' = NextIndex + 1 /\ Filled' = 0 .. NextIndex
    <3>1. PICK i : i = live
      OBVIOUS
    <3>2. archive' = [archive EXCEPT ![NextIndex] = i] /\ i # None /\ NextIndex < MaxSeals
      BY <2>1, <2>2, <3>1, NoneIsNothing
    <3>3. archive \in [Indices -> Inodes \cup {None}]
      BY DEF TypeOK
    <3> QED BY <3>2, <3>3, NextIsFilled
  <2>4. NextIndex' - 1 = NextIndex /\ NextIndex' \in Nat
    BY <2>2, <2>3
  <2> QED BY <2>1, <2>2, <2>3, <2>4 DEF InOrder, Sealing, Rotating
<1>7. CASE MoveSidecar
  <2>1. UNCHANGED <<archive, seals, seal>> /\ pc'[Sealer] = "waiting" /\ pc[Sealer] = "replaced"
    BY <1>7, NoneIsNothing DEF MoveSidecar, TypeOK
  <2> QED BY <2>1, SameArchives DEF InOrder, Sealing, Rotating
<1>8. CASE UNCHANGED vars
  <2>1. UNCHANGED <<archive, seals, seal, pc>>
    BY <1>8 DEF vars
  <2> QED BY <2>1, SameArchives DEF InOrder, Sealing, Rotating
<1> QED BY <1>1, <1>2, <1>3, <1>4, <1>5, <1>6, <1>7, <1>8, StepIsOfOne DEF SealStep

----------------------------------------------------------------------------
(* What a process is recording *)

\* What one process has to do with Working.
Works(p) ==
  /\ Recording(p) => /\ event[p] \in Event
                     /\ event[p].op = IF p = Sealer THEN "ledger.seal" ELSE "use"
  /\ pc[p] \in {"drafted", "opened"} => draft[p] \in Entry /\ draft[p].event = event[p]
  /\ fd[p] # None => pc[p] = "opened"
  /\ p # Sealer => Recording(p) \/ pc[p] = "idle"

\* A process that a step leaves alone goes on as it was.
LEMMA WorksAlone ==
  ASSUME Working, NEW q \in Procs,
         pc'[q] = pc[q], event'[q] = event[q], draft'[q] = draft[q], fd'[q] = fd[q]
  PROVE  Works(q)'
<1>1. Works(q)
  BY DEF Working, Works
<1> QED BY <1>1 DEF Works, Recording, RecordPCs

\* What a process in record() holds stays what it loaded and made.
LEMMA WorkingStep ==
  ASSUME TypeOK, InOrder, Working, [Next]_vars
  PROVE  Working'
<1> USE DEF files, call
<1>0. SUFFICES \A q \in Procs : Works(q)'
  BY DEF Working, Works
<1>1. ASSUME NEW w \in Writers, Call(w) PROVE \A q \in Procs : Works(q)'
  <2>1. ASSUME NEW q \in Procs \ {w} PROVE Works(q)'
    <3>1. pc'[q] = pc[q] /\ event'[q] = event[q] /\ draft'[q] = draft[q] /\ fd'[q] = fd[q]
      BY <1>1, <2>1 DEF Call, TypeOK
    <3> QED BY <3>1, WorksAlone
  <2> DEFINE ev == [op |-> "use", n |-> records + 1]
  <2>2. ev \in Event /\ ev.op = "use"
    BY DEF TypeOK, Event
  <2>3. /\ pc'[w] = "waiting" /\ pc[w] = "idle" /\ event'[w] = ev /\ fd'[w] = fd[w]
        /\ w # Sealer /\ w \in Procs
    BY <1>1, SegmentsAssumption DEF Call, TypeOK, Procs
  <2>4. fd'[w] = None
    BY <2>3 DEF Working
  <2> HIDE DEF ev
  <2>5. Works(w)'
    BY <2>2, <2>3, <2>4 DEF Works, Recording, RecordPCs
  <2> QED BY <2>1, <2>5
<1>2. ASSUME NEW p \in Procs, RecordStep(p) PROVE \A q \in Procs : Works(q)'
  <2>1. ASSUME NEW q \in Procs \ {p} PROVE Works(q)'
    <3>1. pc'[q] = pc[q] /\ event'[q] = event[q] /\ draft'[q] = draft[q] /\ fd'[q] = fd[q]
      BY <1>2, <2>1, RecordFrame
    <3> QED BY <3>1, WorksAlone
  <2>2. Works(p) /\ event' = event
    BY <1>2, RecordFrame DEF Working, Works
  <2>3. Works(p)'
    <3> USE DEF Works, Recording, RecordPCs, TypeOK
    <3>1. CASE Lock(p)
      BY <2>2, <3>1 DEF Lock
    <3>2. CASE Draft(p)
      <4>1. LiveContent \in Content /\ event[p] \in Event
        BY <2>2, <3>2, LiveType DEF Draft
      <4> DEFINE e == Chained(LiveContent, event[p], "key")
      <4>2. e \in Entry /\ e.event = event[p]
        BY <4>1, ChainedIsEntry
      <4>3. draft'[p] = e /\ pc'[p] = "drafted" /\ pc[p] = "locked" /\ fd' = fd
        BY <3>2 DEF Draft
      <4> HIDE DEF e
      <4> QED BY <2>2, <4>2, <4>3
    <3>3. CASE Refuse(p)
      BY <2>2, <3>3 DEF Refuse
    <3>4. CASE Open(p)
      BY <2>2, <3>4 DEF Open
    <3>5. CASE Write(p)
      BY <2>2, <3>5 DEF Write
    <3>6. CASE Kill(p)
      BY <2>2, <3>6 DEF Kill
    <3> QED BY <1>2, <3>1, <3>2, <3>3, <3>4, <3>5, <3>6 DEF RecordStep
  <2> QED BY <2>1, <2>3
<1>3. ASSUME SealStep PROVE \A q \in Procs : Works(q)'
  <2>1. ASSUME NEW q \in Procs \ {Sealer} PROVE Works(q)'
    <3>1. pc'[q] = pc[q] /\ event'[q] = event[q] /\ draft'[q] = draft[q] /\ fd'[q] = fd[q]
      BY <1>3, <2>1, SealFrame
    <3> QED BY <3>1, WorksAlone
  <2>2. ~ Recording(Sealer) /\ fd'[Sealer] = None
    <3>1. ~ Recording(Sealer)
      BY <1>3 DEF SealStep, StartSeal, MakeSeal, WriteSidecar, Replace, MoveSidecar, Recording, RecordPCs
    <3>2. fd[Sealer] = None
      BY <3>1, NoneIsNothing DEF Working, Recording, RecordPCs
    <3> QED BY <1>3, <3>1, <3>2, SealFrame
  <2>3. Works(Sealer)'
    <3>1. CASE StartSeal \/ MakeSeal \/ WriteSidecar \/ Replace
      <4>1. pc'[Sealer] \in {"loaded", "sealed", "beside", "replaced"}
        BY <3>1, NoneIsNothing DEF StartSeal, MakeSeal, WriteSidecar, Replace, TypeOK
      <4> QED BY <2>2, <4>1 DEF Works, Recording, RecordPCs
    <3>2. CASE MoveSidecar
      <4> DEFINE ev == [op |-> "ledger.seal", n |-> seal.body.call]
      <4>1. seal \in Seal /\ seal.body.call \in Nat
        BY <3>2 DEF MoveSidecar, InOrder, Rotating, Seal, SealBody
      <4>2. ev \in Event /\ ev.op = "ledger.seal"
        BY <4>1 DEF Event
      <4>3. event'[Sealer] = ev /\ pc'[Sealer] = "waiting"
        BY <3>2, NoneIsNothing DEF MoveSidecar, TypeOK
      <4> HIDE DEF ev
      <4> QED BY <2>2, <4>2, <4>3 DEF Works, Recording, RecordPCs
    <3> QED BY <1>3, <3>1, <3>2 DEF SealStep
  <2> QED BY <2>1, <2>3
<1>4. CASE UNCHANGED vars
  <2>1. UNCHANGED <<pc, event, draft, fd>>
    BY <1>4 DEF vars
  <2> QED BY <2>1, WorksAlone
<1> QED BY <1>1, <1>2, <1>3, <1>4, StepIsOfOne

----------------------------------------------------------------------------
(* Files keep their names, and the names keep what was written *)

\* Only a record() writes to a file or opens one, and only rotating moves one.
LEMMA OtherSteps ==
  ASSUME TypeOK, [Next]_vars, ~ Replace, \A p \in Procs : ~ Open(p) /\ ~ Write(p)
  PROVE  /\ UNCHANGED <<inode, live, archive, returned>>
         /\ \A q \in Procs : fd'[q] = fd[q] \/ fd'[q] = None
<1> USE DEF files, call, TypeOK
<1>1. ASSUME NEW w \in Writers, Call(w)
      PROVE  UNCHANGED <<inode, live, archive, returned, fd>>
  BY <1>1 DEF Call
<1>2. ASSUME NEW p \in Procs, Lock(p) \/ Draft(p) \/ Refuse(p)
      PROVE  UNCHANGED <<inode, live, archive, returned, fd>>
  BY <1>2 DEF Lock, Draft, Refuse
<1>3. ASSUME NEW p \in Procs, Kill(p)
      PROVE  /\ UNCHANGED <<inode, live, archive, returned>>
             /\ \A q \in Procs : fd'[q] = fd[q] \/ fd'[q] = None
  BY <1>3 DEF Kill
<1>4. CASE StartSeal \/ MakeSeal \/ WriteSidecar \/ MoveSidecar
  BY <1>4 DEF StartSeal, MakeSeal, WriteSidecar, MoveSidecar
<1>5. CASE UNCHANGED vars
  BY <1>5 DEF vars
<1> QED BY <1>1, <1>2, <1>3, <1>4, <1>5 DEF Next

\* The archive that os.replace() makes was not there.
LEMMA ReplaceFills ==
  ASSUME TypeOK, InOrder, Replace
  PROVE  /\ seal.body.index = NextIndex /\ NextIndex \in Indices /\ archive[NextIndex] = None
         /\ archive' = [archive EXCEPT ![NextIndex] = live] /\ live # None /\ live' = None
         /\ UNCHANGED <<inode, fd, returned>>
<1>1. seal.body.index = NextIndex /\ NextIndex \in Indices
  BY NoneIsNothing DEF Replace, InOrder, Sealing, TypeOK, Indices
<1>2. archive[NextIndex] = None
  BY <1>1, FilledBelowNext
<1> QED BY <1>1, <1>2 DEF Replace, call

\* No file loses its name.
LEMMA NamesKept ==
  ASSUME TypeOK, InOrder, AllNamed, [Next]_vars, NEW i \in Named, i # None
  PROVE  i \in Named'
<1>1. CASE Replace
  <2>1. CASE i = live
    BY <1>1, <2>1, ReplaceFills DEF Named, TypeOK
  <2>2. CASE i # live
    <3>1. PICK x \in Indices : i = archive[x]
      BY <2>2 DEF Named
    <3>2. x # NextIndex
      BY <1>1, <3>1, ReplaceFills
    <3>3. archive'[x] = i
      BY <1>1, <3>1, <3>2, ReplaceFills DEF TypeOK
    <3> QED BY <3>3 DEF Named
  <2> QED BY <2>1, <2>2
<1>2. ASSUME NEW p \in Procs, Open(p) PROVE i \in Named'
  BY <1>2 DEF Open, Named
<1>3. ASSUME NEW p \in Procs, Write(p) PROVE i \in Named'
  BY <1>3 DEF Write, Named
<1>4. CASE ~ Replace /\ \A p \in Procs : ~ Open(p) /\ ~ Write(p)
  <2>1. live' = live /\ archive' = archive
    BY <1>4, OtherSteps
  <2> QED BY <2>1 DEF Named
<1> QED BY <1>1, <1>2, <1>3, <1>4

\* A rename takes a name and gives one: nothing is written where no name leads.
LEMMA AllNamedStep ==
  ASSUME TypeOK, InOrder, AllNamed, [Next]_vars
  PROVE  AllNamed'
<1>1. CASE Replace
  <2>1. ASSUME NEW i \in Inodes, inode'[i] # << >> \/ \E p \in Procs : fd'[p] = i
        PROVE  i \in Named'
    <3>1. i \in Named /\ i # None
      BY <1>1, <2>1, ReplaceFills, NoneIsNothing DEF AllNamed
    <3> QED BY <3>1, NamesKept
  <2>2. live' = None
    BY <1>1, ReplaceFills
  <2> QED BY <2>1, <2>2 DEF AllNamed
<1>2. ASSUME NEW p \in Procs, Open(p) PROVE AllNamed'
  <2>1. /\ live' = IF live = None THEN Fresh ELSE live
        /\ fd' = [fd EXCEPT ![p] = live'] /\ inode' = inode /\ archive' = archive
    BY <1>2 DEF Open
  <2>2. ASSUME NEW i \in Inodes, inode'[i] # << >> \/ \E q \in Procs : fd'[q] = i
        PROVE  i \in Named'
    <3>1. CASE i = live'
      BY <3>1 DEF Named
    <3>2. CASE i # live'
      <4>1. inode[i] # << >> \/ \E q \in Procs : fd[q] = i
        BY <2>1, <2>2, <3>2 DEF TypeOK
      <4>2. i \in Named /\ i # None
        BY <4>1, NoneIsNothing DEF AllNamed
      <4> QED BY <4>2, NamesKept
    <3> QED BY <3>1, <3>2
  <2>3. ASSUME NEW x \in Indices PROVE archive'[x] # live'
    <3>1. CASE live = None
      BY <2>1, <3>1, FreshIsFree DEF Named
    <3>2. CASE live # None
      BY <2>1, <3>2 DEF AllNamed
    <3> QED BY <3>1, <3>2
  <2> QED BY <2>2, <2>3 DEF AllNamed
<1>3. ASSUME NEW p \in Procs, Write(p) PROVE AllNamed'
  <2>1. /\ inode' = [inode EXCEPT ![fd[p]] = Append(@, draft[p])]
        /\ fd' = [fd EXCEPT ![p] = None] /\ live' = live /\ archive' = archive
    BY <1>3 DEF Write
  <2>2. ASSUME NEW i \in Inodes, inode'[i] # << >> \/ \E q \in Procs : fd'[q] = i
        PROVE  i \in Named'
    <3>1. inode[i] # << >> \/ \E q \in Procs : fd[q] = i
      BY <2>1, <2>2, NoneIsNothing DEF TypeOK
    <3>2. i \in Named /\ i # None
      BY <3>1, NoneIsNothing DEF AllNamed
    <3> QED BY <3>2, NamesKept
  <2> QED BY <2>1, <2>2 DEF AllNamed
<1>4. CASE ~ Replace /\ \A p \in Procs : ~ Open(p) /\ ~ Write(p)
  <2>1. /\ inode' = inode /\ live' = live /\ archive' = archive
        /\ \A q \in Procs : fd'[q] = fd[q] \/ fd'[q] = None
    BY <1>4, OtherSteps
  <2>2. Named' = Named
    BY <2>1 DEF Named
  <2> QED BY <2>1, <2>2, NoneIsNothing DEF AllNamed
<1> QED BY <1>1, <1>2, <1>3, <1>4

\* What is in a file that has a name stays in one.
LEMMA EntriesKept ==
  ASSUME TypeOK, InOrder, Working, AllNamed, [Next]_vars
  PROVE  KeptEntries \subseteq KeptEntries'
<1> SUFFICES ASSUME NEW i \in Named, i # None, NEW j \in DOMAIN inode[i]
             PROVE  inode[i][j] \in KeptEntries'
  BY DEF KeptEntries
<1>1. i \in Named'
  BY NamesKept
<1>2. i \in Inodes
  BY DEF Named, TypeOK
<1>3. j \in DOMAIN inode'[i] /\ inode'[i][j] = inode[i][j]
  <2>1. ASSUME NEW p \in Procs, Write(p) PROVE j \in DOMAIN inode'[i] /\ inode'[i][j] = inode[i][j]
    <3>1. fd[p] \in Inodes /\ draft[p] \in Entry
      BY <2>1, NoneIsNothing DEF TypeOK, Write, Working
    <3>2. inode[i] \in Seq(Entry)
      BY <1>2 DEF TypeOK, Content
    <3>3. CASE i = fd[p]
      <4>1. inode'[i] = Append(inode[i], draft[p])
        BY <1>2, <2>1, <3>3 DEF Write, TypeOK
      <4> QED BY <3>1, <3>2, <4>1
    <3>4. CASE i # fd[p]
      BY <1>2, <2>1, <3>4 DEF Write, TypeOK
    <3> QED BY <3>3, <3>4
  <2>2. CASE Replace \/ \E p \in Procs : Open(p)
    <3>1. inode' = inode
      BY <2>2, ReplaceFills DEF Open
    <3> QED BY <3>1
  <2>3. CASE ~ Replace /\ \A p \in Procs : ~ Open(p) /\ ~ Write(p)
    <3>1. inode' = inode
      BY <2>3, OtherSteps
    <3> QED BY <3>1
  <2> QED BY <2>1, <2>2, <2>3
<1>4. \E k \in Named' \ {None} : k = i /\ j \in DOMAIN inode'[k] /\ inode'[k][j] = inode[i][j]
  BY <1>1, <1>3
<1> QED BY <1>4 DEF KeptEntries

\* So a record that is in a named file stays in one.
LEMMA EvidenceKeptStep ==
  ASSUME TypeOK, InOrder, Working, AllNamed, EvidenceKept, [Next]_vars
  PROVE  EvidenceKept'
<1>1. KeptRecords \subseteq KeptRecords'
  BY EntriesKept DEF KeptRecords
<1>2. ASSUME NEW p \in Procs, Write(p), p # Sealer PROVE event[p].n \in KeptRecords'
  <2>1. /\ fd[p] \in Inodes /\ draft[p] \in Entry /\ draft[p].event = event[p]
        /\ event[p].op = "use"
    BY <1>2, NoneIsNothing DEF TypeOK, Write, Working, Recording, RecordPCs
  <2>2. fd[p] \in Named /\ fd[p] # None
    BY <2>1, NoneIsNothing DEF AllNamed
  <2>3. fd[p] \in Named'
    BY <2>2, NamesKept
  <2>4. inode[fd[p]] \in Seq(Entry) /\ inode'[fd[p]] = Append(inode[fd[p]], draft[p])
    BY <1>2, <2>1 DEF Write, TypeOK, Content
  <2> DEFINE n == Len(inode[fd[p]]) + 1
  <2>5. n \in DOMAIN inode'[fd[p]] /\ inode'[fd[p]][n] = draft[p]
    BY <2>1, <2>4
  <2>6. \E i \in Named' \ {None} : \E j \in DOMAIN inode'[i] : draft[p] = inode'[i][j]
    BY <2>2, <2>3, <2>5
  <2>7. draft[p] \in KeptEntries'
    BY <2>6 DEF KeptEntries
  <2> QED BY <2>1, <2>7 DEF KeptRecords
<1>3. ASSUME NEW p \in Procs, Write(p) PROVE EvidenceKept'
  <2>1. returned' = IF p = Sealer THEN returned ELSE returned \cup {event[p].n}
    BY <1>3 DEF Write
  <2> QED BY <1>1, <1>2, <1>3, <2>1 DEF EvidenceKept
<1>4. CASE \A p \in Procs : ~ Write(p)
  <2>1. returned' = returned
    <3>1. CASE Replace \/ \E p \in Procs : Open(p)
      BY <3>1, ReplaceFills DEF Open
    <3>2. CASE ~ Replace /\ \A p \in Procs : ~ Open(p) /\ ~ Write(p)
      BY <3>2, OtherSteps
    <3> QED BY <1>4, <3>1, <3>2
  <2> QED BY <1>1, <2>1 DEF EvidenceKept
<1> QED BY <1>3, <1>4

----------------------------------------------------------------------------
(* What a file that grows keeps *)

\* Content d is c, or c and an entry more that fits it, if there was anything to fit.
Grows(c, d) ==
  d = c \/ \E e \in Entry : d = Append(c, e) /\ (c # << >> => Extends(c, e))

\* An entry that append() made for a chain makes a longer chain.
LEMMA ExtendedHolds ==
  ASSUME NEW c \in Content, NEW e \in Entry, Extends(c, e)
  PROVE  Intact(Append(c, e), "key")
<1> DEFINE n == Len(c) + 1
           d == Append(c, e)
<1>1. /\ e.seq = Len(c) /\ e.prev = HeadOf(c) /\ e.key = "key"
      /\ e.hash = HashEntry(e, "key")
  <2> DEFINE ev == e.event
             base == [seq |-> Len(c), prev |-> HeadOf(c), key |-> "key", event |-> ev]
             h == HashEntry(base, "key")
  <2>1. e = [seq |-> Len(c), prev |-> HeadOf(c), key |-> "key", event |-> ev, hash |-> h]
    BY DEF Extends, Chained
  <2> HIDE DEF ev, h
  <2>2. e.seq = Len(c) /\ e.prev = HeadOf(c) /\ e.key = "key" /\ e.event = ev /\ e.hash = h
    BY <2>1
  <2>3. h = HashEntry(e, "key")
    BY <2>2 DEF HashEntry, h
  <2> QED BY <2>2, <2>3
<1>2. /\ c \in Seq(Entry) /\ Len(c) \in Nat /\ DOMAIN c = 1 .. Len(c)
      /\ DOMAIN d = 1 .. n /\ d[n] = e /\ \A i \in 1 .. Len(c) : d[i] = c[i]
  BY DEF Content
<1> HIDE DEF d
<1>3. ASSUME NEW i \in 1 .. Len(c) PROVE Holds(d, i, "key")
  <2>1. Holds(c, i, "key")
    BY <1>2 DEF Extends, Intact
  <2>2. i # 1 => i - 1 \in 1 .. Len(c)
    BY <1>2
  <2> QED BY <1>2, <2>1, <2>2 DEF Holds, Linked
<1>4. Holds(d, n, "key")
  <2>1. HeadOf(c) = IF n = 1 THEN GENESIS ELSE d[n - 1].hash
    <3>1. CASE Len(c) = 0
      BY <1>2, <3>1, EmptySeq DEF HeadOf
    <3>2. CASE Len(c) # 0
      <4>1. c # << >> /\ n # 1 /\ n - 1 \in 1 .. Len(c) /\ n - 1 = Len(c)
        BY <1>2, <3>2
      <4>2. d[n - 1] = c[Len(c)]
        BY <1>2, <4>1
      <4> QED BY <4>1, <4>2 DEF HeadOf
    <3> QED BY <3>1, <3>2
  <2>2. Linked(d, n)
    BY <1>1, <1>2, <2>1 DEF Linked
  <2>3. ContentHolds(d[n], "key")
    BY <1>1, <1>2 DEF ContentHolds
  <2> QED BY <2>2, <2>3 DEF Holds
<1> QED BY <1>2, <1>3, <1>4 DEF Intact, d

\* A chain that is broken stays so, whatever is appended to it.
LEMMA BrokenStays ==
  ASSUME NEW c \in Content, NEW e \in Entry, ~ Intact(c, "key")
  PROVE  ~ Intact(Append(c, e), "key")
<1> DEFINE d == Append(c, e)
<1>1. PICK i \in DOMAIN c : ~ Holds(c, i, "key")
  BY DEF Intact
<1>2. /\ i \in DOMAIN d /\ d[i] = c[i] /\ (i # 1 => d[i - 1] = c[i - 1])
  BY DEF Content
<1>3. ~ Holds(d, i, "key")
  BY <1>1, <1>2 DEF Holds, Linked
<1> QED BY <1>2, <1>3 DEF Intact

\* What grows keeps a chain that holds, a break, a beginning, a seal and a record.
LEMMA GrowthKeeps ==
  ASSUME NEW c \in Content, NEW d, Grows(c, d)
  PROVE  /\ c # << >> /\ Intact(c, "key") => d # << >> /\ Intact(d, "key")
         /\ ~ Intact(c, "key") => ~ Intact(d, "key")
         /\ \A s \in Content : Begins(s, c) => Begins(s, d)
         /\ \A s \in Seal : Closes(s, c) => Closes(s, d)
         /\ \A j \in DOMAIN c : j \in DOMAIN d /\ d[j] = c[j]
<1>1. CASE d = c
  BY <1>1
<1>2. ASSUME NEW e \in Entry, d = Append(c, e), c # << >> => Extends(c, e)
      PROVE  /\ c # << >> /\ Intact(c, "key") => d # << >> /\ Intact(d, "key")
             /\ ~ Intact(c, "key") => ~ Intact(d, "key")
             /\ \A s \in Content : Begins(s, c) => Begins(s, d)
             /\ \A s \in Seal : Closes(s, c) => Closes(s, d)
             /\ \A j \in DOMAIN c : j \in DOMAIN d /\ d[j] = c[j]
  <2>1. /\ c \in Seq(Entry) /\ Len(c) \in Nat /\ DOMAIN c = 1 .. Len(c)
        /\ Len(d) = Len(c) + 1 /\ d # << >> /\ DOMAIN d = 1 .. (Len(c) + 1)
        /\ \A i \in 1 .. Len(c) : d[i] = c[i]
    BY <1>2 DEF Content
  <2>2. \A s \in Content : Begins(s, c) => Begins(s, d)
    <3> SUFFICES ASSUME NEW s \in Content, Begins(s, c) PROVE Begins(s, d)
      OBVIOUS
    <3>1. Len(s) \in Nat /\ Len(s) <= Len(c) /\ \A i \in 1 .. Len(s) : s[i] = c[i]
      BY DEF Content, Begins
    <3> QED BY <2>1, <3>1 DEF Begins
  <2>3. \A s \in Seal : Closes(s, c) => Closes(s, d)
    <3> SUFFICES ASSUME NEW s \in Seal, Closes(s, c) PROVE Closes(s, d)
      OBVIOUS
    <3>1. s.body.file \in Content
      BY DEF Seal, SealBody
    <3>2. Len(s.body.file) \in Nat /\ Len(s.body.file) <= Len(c)
      BY <3>1 DEF Closes, Begins, Content
    <3>3. s.body.records \in 1 .. Len(c)
      BY <2>1, <3>2 DEF Closes
    <3> QED BY <2>1, <2>2, <3>1, <3>3 DEF Closes
  <2> QED BY <1>2, <2>1, <2>2, <2>3, ExtendedHolds, BrokenStays
<1> QED BY <1>1, <1>2 DEF Grows

\* What a process writes, and where.
LEMMA WriteFits ==
  ASSUME TypeOK, Working, Drafted, NEW p \in Procs, Write(p)
  PROVE  /\ fd[p] \in Inodes /\ draft[p] \in Entry /\ draft[p].event = event[p]
         /\ inode'[fd[p]] = Append(inode[fd[p]], draft[p])
         /\ inode[fd[p]] # << >> => Extends(inode[fd[p]], draft[p])
         /\ \A i \in Inodes : i # fd[p] => inode'[i] = inode[i]
         /\ live' = live
<1>1. fd[p] \in Inodes /\ draft[p] \in Entry /\ draft[p].event = event[p]
  BY NoneIsNothing DEF TypeOK, Write, Working
<1> QED BY <1>1 DEF Write, TypeOK, Drafted

\* Every step leaves a file as it was, or with an entry more.
LEMMA FilesGrow ==
  ASSUME TypeOK, InOrder, Working, Drafted, [Next]_vars, NEW i \in Inodes
  PROVE  Grows(inode[i], inode'[i])
<1>1. ASSUME NEW p \in Procs, Write(p) PROVE Grows(inode[i], inode'[i])
  BY <1>1, WriteFits DEF Grows
<1>2. CASE \A p \in Procs : ~ Write(p)
  <2>1. inode' = inode
    <3>1. CASE Replace \/ \E p \in Procs : Open(p)
      BY <3>1, ReplaceFills DEF Open
    <3>2. CASE ~ Replace /\ \A p \in Procs : ~ Open(p) /\ ~ Write(p)
      BY <3>2, OtherSteps
    <3> QED BY <1>2, <3>1, <3>2
  <2> QED BY <2>1 DEF Grows
<1> QED BY <1>1, <1>2

\* And so the live content, until it is moved away.
LEMMA LiveGrows ==
  ASSUME TypeOK, InOrder, Working, AllNamed, Drafted, [Next]_vars, ~ Replace
  PROVE  /\ live # None => live' = live
         /\ Grows(LiveContent, LiveContent')
<1>1. CASE live # None
  <2>1. live' = live
    <3>1. ASSUME NEW p \in Procs, Open(p) \/ Write(p) PROVE live' = live
      BY <1>1, <3>1 DEF Open, Write
    <3>2. CASE \A p \in Procs : ~ Open(p) /\ ~ Write(p)
      BY <3>2, OtherSteps
    <3> QED BY <3>1, <3>2
  <2>2. live \in Inodes
    BY <1>1 DEF TypeOK
  <2>3. Grows(inode[live], inode'[live])
    BY <2>2, FilesGrow
  <2> QED BY <1>1, <2>1, <2>3 DEF LiveContent
<1>2. CASE live = None
  <2>1. LiveContent' = << >>
    <3>1. ASSUME NEW p \in Procs, Open(p) PROVE LiveContent' = << >>
      <4>1. live' = Fresh /\ inode' = inode
        BY <1>2, <3>1 DEF Open
      <4>2. Fresh \in Inodes /\ inode[Fresh] = << >>
        BY <1>2, FreshIsFree
      <4> QED BY <4>1, <4>2, NoneIsNothing DEF LiveContent
    <3>2. ASSUME NEW p \in Procs, Write(p) PROVE LiveContent' = << >>
      BY <1>2, <3>2 DEF Write, LiveContent
    <3>3. CASE \A p \in Procs : ~ Open(p) /\ ~ Write(p)
      BY <1>2, <3>3, OtherSteps DEF LiveContent
    <3> QED BY <3>1, <3>2, <3>3
  <2> QED BY <1>2, <2>1 DEF LiveContent, Grows
<1> QED BY <1>1, <1>2

----------------------------------------------------------------------------
(* What a process in record() has found, and keeps *)

\* The flock has one holder; the operator's file is the live one, as he alone moves it.
LEMMA LockedStep ==
  ASSUME TypeOK, InOrder, Working, AllNamed, Locked, [Next]_vars
  PROVE  Locked'
<1> DEFINE Inside == {"locked", "drafted", "opened"}
<1> USE DEF files, call
<1>1. ASSUME NEW w \in Writers, Call(w) PROVE Locked'
  BY <1>1, SegmentsAssumption DEF Call, TypeOK, Procs, Locked
<1>2. ASSUME NEW p \in Procs, RecordStep(p) PROVE Locked'
  <2>0. \A q \in Procs \ {p} : pc'[q] = pc[q] /\ fd'[q] = fd[q]
    BY <1>2, RecordFrame
  <2>1. ASSUME NEW q \in Procs, pc'[q] \in Inside PROVE lock' = q
    <3>1. CASE Lock(p)
      BY <2>0, <2>1, <3>1, NoneIsNothing DEF Lock, Locked, TypeOK
    <3>2. CASE Draft(p)
      BY <2>0, <2>1, <3>2 DEF Draft, Locked, TypeOK
    <3>3. CASE Refuse(p)
      BY <2>0, <2>1, <3>3 DEF Refuse, Locked, TypeOK
    <3>4. CASE Open(p)
      BY <2>0, <2>1, <3>4 DEF Open, Locked, TypeOK
    <3>5. CASE Write(p)
      BY <2>0, <2>1, <3>5 DEF Write, Locked, TypeOK
    <3>6. CASE Kill(p)
      BY <2>0, <2>1, <3>6 DEF Kill, Locked, TypeOK
    <3> QED BY <1>2, <3>1, <3>2, <3>3, <3>4, <3>5, <3>6 DEF RecordStep
  <2>2. ASSUME pc'[Sealer] = "opened" PROVE fd'[Sealer] = live'
    <3>1. CASE Open(p) /\ p = Sealer
      BY <3>1, NoneIsNothing DEF Open, TypeOK
    <3>2. CASE ~ (Open(p) /\ p = Sealer)
      <4>1. pc[Sealer] = "opened" /\ p # Sealer
        <5>1. p = Sealer => pc'[Sealer] # "opened"
          BY <1>2, <3>2, NoneIsNothing DEF RecordStep, Lock, Draft, Refuse, Write, Kill, TypeOK
        <5> QED BY <2>0, <2>2, <5>1, NoneIsNothing
      <4>2. fd[Sealer] = live /\ live # None /\ fd'[Sealer] = fd[Sealer]
        BY <2>0, <4>1, NoneIsNothing DEF Locked, TypeOK
      <4>3. live' = live
        <5>1. Open(p) => live' = live
          BY <4>2 DEF Open
        <5> QED BY <1>2, <5>1, RecordFrame
      <4> QED BY <4>2, <4>3
    <3> QED BY <3>1, <3>2
  <2> QED BY <2>1, <2>2 DEF Locked
<1>3. CASE SealStep
  <2>1. lock' = lock /\ \A q \in Procs \ {Sealer} : pc'[q] = pc[q]
    BY <1>3, SealFrame
  <2>2. pc'[Sealer] \notin Inside
    BY <1>3, NoneIsNothing DEF SealStep, StartSeal, MakeSeal, WriteSidecar, Replace, MoveSidecar, TypeOK
  <2> QED BY <2>1, <2>2, NoneIsNothing DEF Locked
<1>4. CASE UNCHANGED vars
  BY <1>4 DEF vars, Locked
<1> QED BY <1>1, <1>2, <1>3, <1>4, StepIsOfOne

\* What was drafted under the flock fits the file there was, which nobody else wrote to.
LEMMA DraftedStep ==
  ASSUME TypeOK, InOrder, Working, AllNamed, Locked, Drafted, [Next]_vars
  PROVE  Drafted'
<1> DEFINE Fits(p) ==
      /\ pc[p] = "drafted" => live = None \/ Extends(LiveContent, draft[p])
      /\ pc[p] = "opened" => inode[fd[p]] = << >> \/ Extends(inode[fd[p]], draft[p])
<1> USE DEF files, call
<1>0. \A q \in Procs : Fits(q)
  BY DEF Drafted
\* A step that leaves the files alone, and one that only takes the live one away
<1>1. ASSUME NEW q \in Procs, inode' = inode, live' = live \/ live' = None,
             pc'[q] \in {"drafted", "opened"} => pc'[q] = pc[q] /\ draft'[q] = draft[q] /\ fd'[q] = fd[q]
      PROVE  Fits(q)'
  <2>1. CASE pc'[q] = "drafted"
    <3>1. pc[q] = "drafted" /\ draft'[q] = draft[q]
      BY <1>1, <2>1
    <3>2. live' # None => LiveContent' = LiveContent
      BY <1>1 DEF LiveContent
    <3>3. live = None => live' = None
      BY <1>1
    <3>4. live' = None \/ Extends(LiveContent', draft'[q])
      BY <1>0, <3>1, <3>2, <3>3
    <3> QED BY <2>1, <3>4
  <2>2. CASE pc'[q] = "opened"
    <3>1. pc[q] = "opened" /\ draft'[q] = draft[q] /\ inode'[fd'[q]] = inode[fd[q]]
      BY <1>1, <2>2
    <3>2. inode'[fd'[q]] = << >> \/ Extends(inode'[fd'[q]], draft'[q])
      BY <1>0, <3>1
    <3> QED BY <2>2, <3>2
  <2>3. CASE pc'[q] \notin {"drafted", "opened"}
    BY <2>3
  <2> QED BY <2>1, <2>2, <2>3
<1>2. SUFFICES ASSUME NEW q \in Procs PROVE Fits(q)'
  BY DEF Drafted
<1>3. ASSUME NEW w \in Writers, Call(w) PROVE Fits(q)'
  <2>1. /\ inode' = inode /\ live' = live
        /\ pc'[q] \in {"drafted", "opened"} => pc'[q] = pc[q] /\ draft'[q] = draft[q] /\ fd'[q] = fd[q]
    BY <1>3 DEF Call, TypeOK, Procs
  <2> QED BY <1>1, <2>1
<1>4. ASSUME NEW p \in Procs, Lock(p) \/ Refuse(p) \/ Kill(p) PROVE Fits(q)'
  <2>1. inode' = inode /\ live' = live
    BY <1>4 DEF Lock, Refuse, Kill
  <2>2. q # p => pc'[q] = pc[q] /\ draft'[q] = draft[q] /\ fd'[q] = fd[q]
    BY <1>4, RecordFrame DEF RecordStep
  <2>3. pc'[p] \notin {"drafted", "opened"}
    BY <1>4 DEF Lock, Refuse, Kill, TypeOK
  <2> QED BY <1>1, <2>1, <2>2, <2>3
<1>5. ASSUME NEW p \in Procs, Draft(p) PROVE Fits(q)'
  <2>1. inode' = inode /\ live' = live /\ LiveContent' = LiveContent
    BY <1>5 DEF Draft, LiveContent
  <2>2. CASE q = p
    <3> DEFINE e == Chained(LiveContent, event[p], "key")
    <3>1. LiveContent \in Content /\ event[p] \in Event
      BY <1>5, LiveType DEF Draft, Working, Recording, RecordPCs
    <3>2. e.event = event[p]
      BY <3>1, ChainedIsEntry
    <3>3. draft'[p] = e /\ pc'[p] = "drafted" /\ Intact(LiveContent, "key")
      BY <1>5 DEF Draft, TypeOK
    <3>4. Chained(LiveContent, e.event, "key") = e
      BY <3>2
    <3> HIDE DEF e
    <3>5. Extends(LiveContent', draft'[p])
      BY <2>1, <3>3, <3>4 DEF Extends
    <3> QED BY <2>2, <3>3, <3>5
  <2>3. CASE q # p
    <3>1. pc'[q] = pc[q] /\ draft'[q] = draft[q] /\ fd'[q] = fd[q]
      BY <1>5, <2>3, RecordFrame DEF RecordStep
    <3> QED BY <1>1, <2>1, <3>1
  <2> QED BY <2>2, <2>3
\* Nobody else is in there.
<1>6. ASSUME NEW p \in Procs, Open(p) \/ Write(p), q # p PROVE Fits(q)'
  <2>1. pc'[q] = pc[q] /\ pc[p] \in {"drafted", "opened"}
    BY <1>6, RecordFrame DEF RecordStep, Open, Write
  <2>2. pc[q] \notin {"drafted", "opened"}
    BY <1>6, <2>1 DEF Locked
  <2> QED BY <2>1, <2>2
<1>7. ASSUME NEW p \in Procs, Open(p), q = p PROVE Fits(q)'
  <2>1. /\ pc[p] = "drafted" /\ pc'[p] = "opened" /\ inode' = inode /\ draft' = draft
        /\ fd'[p] = IF live = None THEN Fresh ELSE live
    BY <1>7 DEF Open, TypeOK
  <2>2. CASE live = None
    <3>1. inode'[fd'[p]] = << >>
      BY <2>1, <2>2, FreshIsFree
    <3> QED BY <1>7, <2>1, <3>1
  <2>3. CASE live # None
    <3>1. Extends(LiveContent, draft[p]) /\ inode'[fd'[p]] = LiveContent
      BY <1>0, <2>1, <2>3 DEF LiveContent
    <3>2. Extends(inode'[fd'[p]], draft'[p])
      BY <2>1, <3>1
    <3> QED BY <1>7, <2>1, <3>2
  <2> QED BY <2>2, <2>3
<1>8. ASSUME NEW p \in Procs, Write(p), q = p PROVE Fits(q)'
  <2>1. pc'[q] = "idle"
    BY <1>8 DEF Write, TypeOK
  <2> QED BY <2>1
<1>9. CASE SealStep
  <2>1. inode' = inode /\ draft' = draft /\ fd' = fd /\ \A o \in Procs \ {Sealer} : pc'[o] = pc[o]
    BY <1>9, SealFrame
  <2>2. live' = live \/ live' = None
    BY <1>9 DEF SealStep, StartSeal, MakeSeal, WriteSidecar, Replace, MoveSidecar
  <2>3. pc'[Sealer] \notin {"drafted", "opened"}
    BY <1>9, NoneIsNothing DEF SealStep, StartSeal, MakeSeal, WriteSidecar, Replace, MoveSidecar, TypeOK
  <2> QED BY <1>1, <2>1, <2>2, <2>3
<1>10. CASE UNCHANGED vars
  <2>1. UNCHANGED <<inode, live, pc, draft, fd>>
    BY <1>10 DEF vars
  <2> QED BY <1>1, <2>1
<1> QED BY <1>3, <1>4, <1>5, <1>6, <1>7, <1>8, <1>9, <1>10, StepIsOfOne DEF RecordStep

----------------------------------------------------------------------------
(* What is sealed and archived *)

\* A writer's step, a step in record(), or none: nothing of seal() changes.
LEMMA NotSealing ==
  ASSUME TypeOK, [Next]_vars, ~ SealStep
  PROVE  /\ UNCHANGED <<archive, archiveSeal, sidecar, loaded, seal>>
         /\ event'[Sealer] = event[Sealer]
         /\ pc'[Sealer] = pc[Sealer] \/ RecordStep(Sealer)
<1> USE DEF files, call, TypeOK
<1>1. ASSUME NEW w \in Writers, Call(w)
      PROVE  /\ UNCHANGED <<archive, archiveSeal, sidecar, loaded, seal>>
             /\ event'[Sealer] = event[Sealer] /\ pc'[Sealer] = pc[Sealer]
  BY <1>1, SegmentsAssumption DEF Call, Procs
<1>2. ASSUME NEW p \in Procs, RecordStep(p)
      PROVE  /\ UNCHANGED <<archive, archiveSeal, sidecar, loaded, seal, event>>
             /\ p # Sealer => pc'[Sealer] = pc[Sealer]
  BY <1>2, RecordFrame, NoneIsNothing
<1>3. CASE UNCHANGED vars
  BY <1>3 DEF vars
<1> QED BY <1>1, <1>2, <1>3, StepIsOfOne

\* What is archived goes on holding.
LEMMA ArchivedStep ==
  ASSUME IInv, [Next]_vars
  PROVE  Archived'
<1> USE DEF IInv
<1> SUFFICES ASSUME NEW x \in Indices, archive'[x] # None
             PROVE  inode'[archive'[x]] # << >> /\ Intact(inode'[archive'[x]], "key")
  BY DEF Archived
<1>1. CASE archive'[x] = archive[x]
  <2>1. archive[x] \in Inodes /\ inode[archive[x]] \in Content
    BY <1>1 DEF TypeOK
  <2>2. inode[archive[x]] # << >> /\ Intact(inode[archive[x]], "key")
    BY <1>1 DEF Archived
  <2> QED BY <1>1, <2>1, <2>2, FilesGrow, GrowthKeeps
<1>2. CASE archive'[x] # archive[x]
  <2>1. Replace
    <3>1. ASSUME SealStep, ~ Replace PROVE archive' = archive
      BY <3>1 DEF SealStep, StartSeal, MakeSeal, WriteSidecar, MoveSidecar, files
    <3> QED BY <1>2, <3>1, NotSealing
  <2>2. archive'[x] = live /\ inode' = inode /\ live # None
    BY <1>2, <2>1, ReplaceFills DEF TypeOK
  <2>3. loaded # << >> /\ Begins(loaded, LiveContent) /\ Intact(LiveContent, "key")
    BY <2>1 DEF Replace, SealFits, Sealing
  <2>4. LiveContent # << >>
    BY <2>3 DEF Begins, TypeOK, Content
  <2> QED BY <2>2, <2>3, <2>4 DEF LiveContent
<1> QED BY <1>1, <1>2

\* A seal() in its course, beside those who go on writing to what it loaded.
LEMMA SealFitsStep ==
  ASSUME IInv, Diligent, [Next]_vars
  PROVE  SealFits'
<1> USE DEF IInv
<1>0. /\ Sealing => /\ live # None /\ loaded # << >>
                    /\ Begins(loaded, LiveContent) /\ Intact(LiveContent, "key")
      /\ pc[Sealer] \in {"sealed", "beside"} =>
           Closes(seal, LiveContent) /\ seal.prev = Before(NextIndex) /\ seal \in Seal
      /\ pc[Sealer] \in {"beside", "replaced"} => sidecar = seal
      /\ loaded \in Content /\ LiveContent \in Content
  BY LiveType DEF SealFits, InOrder, TypeOK
<1>1. CASE StartSeal
  <2>1. /\ pc'[Sealer] = "loaded" /\ loaded' = LiveContent /\ LiveContent # << >>
        /\ Intact(LiveContent, "key") /\ inode' = inode /\ live' = live
    BY <1>1, NoneIsNothing DEF StartSeal, TypeOK, files
  <2>2. LiveContent' = LiveContent /\ live # None
    BY <2>1 DEF LiveContent
  <2>3. Intact(LiveContent', "key") /\ Begins(loaded', LiveContent')
    BY <1>0, <2>1, <2>2 DEF Begins, Content
  <2> QED BY <2>1, <2>2, <2>3 DEF SealFits, Sealing
<1>2. CASE MakeSeal
  <2>1. /\ pc'[Sealer] = "sealed" /\ pc[Sealer] = "loaded"
        /\ UNCHANGED <<inode, live, archive, archiveSeal, sidecar, loaded>>
    BY <1>2, NoneIsNothing DEF MakeSeal, TypeOK, files
  <2>2. LiveContent' = LiveContent /\ NextIndex' = NextIndex
    BY <2>1, SameArchives DEF LiveContent
  <2>3. Before(NextIndex)' = Before(NextIndex)
    BY <2>1, <2>2 DEF Before
  <2>4. /\ seal' \in Seal /\ seal'.prev = Before(NextIndex)
        /\ seal'.body.file = LiveContent /\ seal'.body.head = HeadOf(loaded)
        /\ seal'.body.records = Len(loaded)
    BY <1>2, MadeSealType
  <2>5. /\ loaded # << >> /\ Begins(loaded, LiveContent) /\ live # None /\ Intact(LiveContent, "key")
    BY <1>0, <2>1 DEF Sealing
  <2>6. Len(loaded) \in 1 .. Len(LiveContent) /\ loaded[Len(loaded)] = LiveContent[Len(loaded)]
    BY <1>0, <2>5 DEF Begins, Content
  <2>7. Begins(LiveContent, LiveContent)
    BY <1>0 DEF Begins, Content
  <2>8. Closes(seal', LiveContent)
    BY <2>4, <2>5, <2>6, <2>7 DEF Closes, HeadOf
  <2>9. Closes(seal', LiveContent') /\ Begins(loaded', LiveContent') /\ Intact(LiveContent', "key")
    BY <2>1, <2>2, <2>5, <2>8
  <2> QED BY <2>1, <2>2, <2>3, <2>4, <2>5, <2>9 DEF SealFits, Sealing
<1>3. CASE WriteSidecar
  <2>1. /\ pc'[Sealer] = "beside" /\ pc[Sealer] = "sealed" /\ sidecar' = seal
        /\ UNCHANGED <<inode, live, archive, archiveSeal, loaded, seal>>
    BY <1>3, NoneIsNothing DEF WriteSidecar, TypeOK, call
  <2>2. LiveContent' = LiveContent /\ NextIndex' = NextIndex
    BY <2>1, SameArchives DEF LiveContent
  <2>3. Before(NextIndex)' = Before(NextIndex)
    BY <2>1, <2>2 DEF Before
  <2>4. Closes(seal', LiveContent') /\ Begins(loaded', LiveContent') /\ Intact(LiveContent', "key")
    BY <1>0, <2>1, <2>2 DEF Sealing
  <2> QED BY <1>0, <2>1, <2>2, <2>3, <2>4 DEF SealFits, Sealing
<1>4. CASE Replace
  <2>1. pc'[Sealer] = "replaced" /\ pc[Sealer] = "beside" /\ sidecar' = sidecar /\ seal' = seal
    BY <1>4, NoneIsNothing DEF Replace, TypeOK, call
  <2> QED BY <1>0, <2>1 DEF SealFits, Sealing
<1>5. CASE MoveSidecar
  <2>1. pc'[Sealer] = "waiting"
    BY <1>5, NoneIsNothing DEF MoveSidecar, TypeOK
  <2> QED BY <2>1 DEF SealFits, Sealing
<1>6. CASE ~ SealStep /\ pc'[Sealer] # pc[Sealer]
  <2>1. pc'[Sealer] \in {"locked", "drafted", "opened", "idle"}
    BY <1>6, NotSealing, RecordFrame, NoneIsNothing
  <2> QED BY <2>1 DEF SealFits, Sealing
<1>7. CASE ~ SealStep /\ pc'[Sealer] = pc[Sealer]
  <2>1. UNCHANGED <<archive, archiveSeal, sidecar, loaded, seal>> /\ ~ Replace
    BY <1>7, NotSealing DEF SealStep
  <2>2. NextIndex' = NextIndex /\ Before(NextIndex)' = Before(NextIndex)
    BY <2>1, SameArchives DEF Before
  <2>3. (live # None => live' = live) /\ Grows(LiveContent, LiveContent')
    BY <2>1, LiveGrows
  <2>4. ASSUME Sealing
        PROVE  live' # None /\ Begins(loaded', LiveContent') /\ Intact(LiveContent', "key")
    <3>1. live # None /\ loaded # << >> /\ Begins(loaded, LiveContent) /\ Intact(LiveContent, "key")
      BY <1>0, <2>4
    <3>2. LiveContent # << >>
      BY <1>0, <3>1 DEF Begins, Content
    <3> QED BY <1>0, <2>1, <2>3, <3>1, <3>2, GrowthKeeps
  <2>5. ASSUME pc[Sealer] \in {"sealed", "beside"} PROVE Closes(seal', LiveContent')
    BY <1>0, <2>1, <2>3, <2>5, GrowthKeeps
  <2>6. Sealing' = Sealing
    BY <1>7 DEF Sealing
  <2> QED BY <1>0, <1>7, <2>1, <2>2, <2>4, <2>5, <2>6 DEF SealFits
<1> QED BY <1>1, <1>2, <1>3, <1>4, <1>5, <1>6, <1>7 DEF SealStep

\* An archive's seal stays as it is, and one of what the archive begins with.
LEMMA SealedStays ==
  ASSUME IInv, [Next]_vars, NEW x \in 0 .. (NextIndex - 1), archive'[x] = archive[x],
         SealOf(x)' = SealOf(x), Before(x)' = Before(x), unfinished \subseteq unfinished'
  PROVE  Sealed(x)'
<1> USE DEF IInv
<1>1. Sealed(x) /\ x \in Indices /\ archive[x] \in Inodes
  <2>1. x \in Indices
    BY DEF InOrder, Filled
  <2>2. archive[x] # None
    BY <2>1, FilledBelowNext DEF InOrder
  <2> QED BY <2>1, <2>2 DEF Series, TypeOK
<1>2. CASE SealOf(x) = None
  <2>1. x \in unfinished'
    BY <1>1, <1>2 DEF Sealed
  <2> QED BY <1>2, <2>1 DEF Sealed
<1>3. CASE SealOf(x) # None
  <2>1. SealsIt(SealOf(x), inode[archive[x]], Before(x), x)
    BY <1>1, <1>3 DEF Sealed
  <2>2. Closes(SealOf(x), inode'[archive[x]])
    BY <1>1, <2>1, FilesGrow, GrowthKeeps DEF SealsIt, TypeOK
  <2>3. SealsIt(SealOf(x)', inode'[archive'[x]], Before(x)', x)
    BY <2>1, <2>2 DEF SealsIt
  <2> QED BY <1>3, <2>3 DEF Sealed
<1> QED BY <1>2, <1>3

\* A new archive has a seal of what it begins with, which names the last.
LEMMA SeriesStep ==
  ASSUME IInv, Diligent, [Next]_vars
  PROVE  Series'
<1> USE DEF IInv
<1>0. /\ NextIndex \in Nat /\ 0 .. (NextIndex - 1) \subseteq Indices
      /\ \A x \in 0 .. (NextIndex - 1) : Sealed(x)
      /\ \A x \in Indices : archiveSeal[x] # None =>
           x < NextIndex /\ ~ (pc[Sealer] = "replaced" /\ x = NextIndex - 1)
  BY DEF InOrder, Filled, Series
\* A step that moves neither a file nor a seal into the archives, nor ends a seal()
<1>1. ASSUME UNCHANGED <<archive, archiveSeal>>, pc[Sealer] # "replaced", pc'[Sealer] # "replaced",
             unfinished \subseteq unfinished'
      PROVE  Series'
  <2>1. NextIndex' = NextIndex
    BY <1>1, SameArchives
  <2>2. ASSUME NEW x \in 0 .. (NextIndex - 1) PROVE Sealed(x)'
    <3>1. SealOf(x)' = SealOf(x) /\ Before(x)' = Before(x)
      BY <1>1 DEF SealOf, Before
    <3> QED BY <1>1, <3>1, SealedStays
  <2> QED BY <1>0, <1>1, <2>1, <2>2 DEF Series
<1>2. CASE Replace
  <2>1. /\ pc'[Sealer] = "replaced" /\ pc[Sealer] = "beside"
        /\ UNCHANGED <<inode, archiveSeal, seal, unfinished>>
        /\ archive' = [archive EXCEPT ![NextIndex] = live] /\ live # None
        /\ NextIndex \in Indices /\ NextIndex < MaxSeals
    BY <1>2, NoneIsNothing, ReplaceFills DEF Replace, TypeOK, call, InOrder, Sealing
  <2>2. NextIndex' = NextIndex + 1
    <3>1. PICK i : i = live
      OBVIOUS
    <3>2. archive' = [archive EXCEPT ![NextIndex] = i] /\ i # None
      BY <2>1, <3>1
    <3>3. archive \in [Indices -> Inodes \cup {None}]
      BY DEF TypeOK
    <3> QED BY <2>1, <3>2, <3>3, NextIsFilled
  <2>3. ASSUME NEW x \in 0 .. (NextIndex - 1) PROVE Sealed(x)'
    <3>1. x # NextIndex /\ x # NextIndex' - 1
      BY <1>0, <2>2, <2>3
    <3>2. archive'[x] = archive[x]
      BY <1>0, <2>1, <3>1 DEF TypeOK
    <3>3. SealOf(x)' = SealOf(x) /\ Before(x)' = Before(x)
      BY <2>1, <3>1 DEF SealOf, Before
    <3> QED BY <2>1, <3>2, <3>3, SealedStays
  <2>4. ASSUME NEW x, x = NextIndex PROVE Sealed(x)'
    <3>1. NextIndex' - 1 = NextIndex
      BY <1>0, <2>2
    <3>2. archive'[NextIndex] = live
      BY <2>1 DEF TypeOK
    <3>3. seal \in Seal /\ Closes(seal, LiveContent) /\ seal.prev = Before(NextIndex)
          /\ seal.body.index = NextIndex
      BY <2>1 DEF SealFits, InOrder
    <3>4. LiveContent = inode[live]
      BY <2>1 DEF LiveContent
    <3>5. SealOf(x)' = seal /\ Before(x)' = Before(x) /\ archive'[x] = live
      BY <2>1, <2>4, <3>1, <3>2 DEF SealOf, Before
    <3>6. SealsIt(SealOf(x)', inode'[archive'[x]], Before(x)', x)
      BY <2>1, <2>4, <3>3, <3>4, <3>5 DEF SealsIt
    <3>7. SealOf(x)' # None
      BY <3>3, <3>5, SealsAssumption
    <3> QED BY <3>6, <3>7 DEF Sealed
  <2>5. \A x \in 0 .. NextIndex : Sealed(x)'
    BY <1>0, <2>3, <2>4
  <2>6. NextIndex' - 1 = NextIndex
    BY <1>0, <2>2
  <2>7. \A x \in Indices : archiveSeal'[x] # None => x < NextIndex' /\ x # NextIndex' - 1
    BY <1>0, <2>1, <2>2, NoneIsNothing DEF Indices
  <2> QED BY <2>5, <2>6, <2>7 DEF Series
<1>3. CASE MoveSidecar
  <2>1. /\ pc[Sealer] = "replaced" /\ pc'[Sealer] = "waiting"
        /\ UNCHANGED <<inode, archive, seal, unfinished>>
        /\ sidecar = seal /\ seal \in Seal /\ seal.body.index = NextIndex - 1
    BY <1>3, NoneIsNothing DEF MoveSidecar, TypeOK, SealFits, InOrder, Rotating
  <2>2. archiveSeal' = [archiveSeal EXCEPT ![NextIndex - 1] = seal]
    BY <1>3, <2>1, SealsAssumption DEF MoveSidecar
  <2>3. NextIndex' = NextIndex
    BY <2>1, SameArchives
  <2>4. NextIndex - 1 \in Indices /\ NextIndex - 1 < NextIndex
    BY <1>0, <2>1 DEF Seal, SealBody
  <2>5. ASSUME NEW x \in 0 .. (NextIndex - 1) PROVE Sealed(x)'
    <3>1. SealOf(x)' = SealOf(x)
      BY <1>0, <2>1, <2>2, <2>3 DEF SealOf, TypeOK
    <3>2. Before(x)' = Before(x)
      <4>1. CASE x = 0
        BY <4>1 DEF Before
      <4>2. CASE x # 0
        <5>1. x - 1 \in Indices /\ x - 1 # NextIndex - 1
          BY <1>0, <4>2
        <5>2. archiveSeal'[x - 1] = archiveSeal[x - 1]
          BY <2>2, <5>1 DEF TypeOK
        <5> QED BY <4>2, <5>2 DEF Before
      <4> QED BY <4>1, <4>2
    <3> QED BY <2>1, <3>1, <3>2, SealedStays
  <2>6. \A x \in Indices : archiveSeal'[x] # None => x < NextIndex'
    BY <1>0, <2>2, <2>3, <2>4 DEF TypeOK
  <2> QED BY <2>1, <2>3, <2>5, <2>6 DEF Series
<1>4. CASE StartSeal \/ MakeSeal \/ WriteSidecar
  <2>1. /\ UNCHANGED <<archive, archiveSeal, unfinished>>
        /\ pc[Sealer] # "replaced" /\ pc'[Sealer] # "replaced"
    BY <1>4, NoneIsNothing DEF StartSeal, MakeSeal, WriteSidecar, TypeOK, files
  <2> QED BY <1>1, <2>1
<1>5. ASSUME ~ SealStep, ~ Kill(Sealer) PROVE Series'
  <2>1. UNCHANGED <<archive, archiveSeal, seal>> /\ (pc'[Sealer] = pc[Sealer] \/ RecordStep(Sealer))
    BY <1>5, NotSealing
  <2>2. unfinished \subseteq unfinished'
    <3>1. ASSUME NEW p \in Procs, RecordStep(p) PROVE unfinished \subseteq unfinished'
      BY <3>1, RecordFrame DEF Kill
    <3>2. ASSUME NEW w \in Writers, Call(w) PROVE unfinished \subseteq unfinished'
      BY <3>2 DEF Call
    <3> QED BY <1>5, <3>1, <3>2, StepIsOfOne DEF vars
  <2>3. CASE pc[Sealer] # "replaced"
    <3>1. pc'[Sealer] # "replaced"
      BY <2>1, <2>3, RecordFrame, NoneIsNothing
    <3> QED BY <1>1, <2>1, <2>2, <2>3, <3>1
  <2>4. CASE pc[Sealer] = "replaced"
    <3>1. pc'[Sealer] = "replaced"
      BY <1>5, <2>1, <2>4 DEF RecordStep, Lock, Draft, Refuse, Open, Write
    <3>2. NextIndex' = NextIndex
      BY <2>1, SameArchives
    <3>3. ASSUME NEW x \in 0 .. (NextIndex - 1) PROVE Sealed(x)'
      <4>1. SealOf(x)' = SealOf(x) /\ Before(x)' = Before(x)
        BY <2>1, <2>4, <3>1, <3>2 DEF SealOf, Before
      <4> QED BY <2>1, <2>2, <4>1, SealedStays
    <3> QED BY <1>0, <2>1, <2>4, <3>1, <3>2, <3>3 DEF Series
  <2> QED BY <2>3, <2>4
<1>6. CASE Kill(Sealer)
  <2>1. /\ UNCHANGED <<archive, archiveSeal, inode>> /\ pc'[Sealer] = "idle"
        /\ unfinished' = IF Rotating THEN unfinished \cup {seal.body.index} ELSE unfinished
    BY <1>6, NoneIsNothing DEF Kill, files, TypeOK
  <2>2. CASE pc[Sealer] # "replaced"
    BY <1>1, <2>1, <2>2
  \* The seal beside the ledger's path does not follow its archive any more.
  <2>3. CASE pc[Sealer] = "replaced"
    <3>1. NextIndex' = NextIndex /\ NextIndex - 1 \in unfinished' /\ unfinished \subseteq unfinished'
      BY <2>1, <2>3, SameArchives DEF Rotating, InOrder
    <3>2. ASSUME NEW x \in 0 .. (NextIndex - 1) PROVE Sealed(x)'
      <4>1. CASE x = NextIndex - 1
        <5>1. SealOf(x)' = None
          BY <1>0, <2>1, <2>3, <4>1 DEF SealOf
        <5> QED BY <3>1, <4>1, <5>1 DEF Sealed
      <4>2. CASE x # NextIndex - 1
        <5>1. SealOf(x)' = SealOf(x) /\ Before(x)' = Before(x)
          BY <2>1, <3>1, <4>2 DEF SealOf, Before
        <5> QED BY <2>1, <3>1, <5>1, SealedStays
      <4> QED BY <4>1, <4>2
    <3> QED BY <1>0, <2>1, <3>1, <3>2 DEF Series
  <2> QED BY <2>2, <2>3
<1> QED BY <1>2, <1>3, <1>4, <1>5, <1>6 DEF SealStep

----------------------------------------------------------------------------
(* What the next segment has in it *)

\* The record of the last seal is written to the live file, and stays there.
LEMMA FollowsStep ==
  ASSUME IInv, Diligent, [Next]_vars
  PROVE  Follows'
<1> USE DEF IInv
<1> SUFFICES ASSUME NextIndex' > 0, NextIndex' - 1 \notin unfinished'
             PROVE  Follows'
  BY DEF Follows
<1>1. CASE Replace
  <2>1. pc'[Sealer] = "replaced"
    BY <1>1, NoneIsNothing DEF Replace, TypeOK
  <2> QED BY <2>1 DEF Follows, Sealing, Recording, RecordPCs
<1>2. CASE MoveSidecar
  <2>1. /\ pc[Sealer] = "replaced" /\ pc'[Sealer] = "waiting" /\ archive' = archive
        /\ sidecar = seal /\ seal \in Seal /\ seal.body.index = NextIndex - 1
        /\ event'[Sealer] = [op |-> "ledger.seal", n |-> seal.body.call]
    BY <1>2, NoneIsNothing DEF MoveSidecar, TypeOK, SealFits, InOrder, Rotating
  <2>2. archiveSeal' = [archiveSeal EXCEPT ![NextIndex - 1] = seal]
    BY <1>2, <2>1, SealsAssumption DEF MoveSidecar
  <2>3. NextIndex' = NextIndex /\ NextIndex - 1 \in Indices
    BY <2>1, SameArchives DEF Seal, SealBody
  <2>4. archiveSeal'[NextIndex - 1] = seal
    BY <2>2, <2>3 DEF TypeOK
  <2>5. NamesLast(event[Sealer])'
    BY <2>1, <2>3, <2>4 DEF NamesLast
  <2> QED BY <2>1, <2>5 DEF Follows, Sealing, Recording, RecordPCs
\* The record stays what it was, and where it was.
<1>3. ASSUME UNCHANGED <<archive, archiveSeal>>, ~ Replace, unfinished \subseteq unfinished'
      PROVE  /\ \A e : NamesLast(e)' <=> NamesLast(e)
             /\ pc[Sealer] = "idle" \/ Sealing =>
                  NamedIn(LiveContent)' \/ ~ Intact(LiveContent', "key")
             /\ Recording(Sealer) => NamesLast(event[Sealer])
  <2>1. NextIndex' = NextIndex
    BY <1>3, SameArchives
  <2>2. \A e : NamesLast(e)' <=> NamesLast(e)
    BY <1>3, <2>1 DEF NamesLast
  <2>3. NextIndex > 0 /\ NextIndex - 1 \notin unfinished
    BY <1>3, <2>1
  <2>4. Grows(LiveContent, LiveContent') /\ LiveContent \in Content
    BY <1>3, LiveGrows, LiveType
  <2>5. NamedIn(LiveContent) => NamedIn(LiveContent)'
    <3> SUFFICES ASSUME NEW j \in DOMAIN LiveContent, NamesLast(LiveContent[j].event)
                 PROVE  NamedIn(LiveContent)'
      BY DEF NamedIn
    <3>1. j \in DOMAIN LiveContent' /\ LiveContent'[j] = LiveContent[j]
      BY <2>4, GrowthKeeps
    <3>2. NamesLast(LiveContent[j].event)'
      BY <2>2, <3>1
    <3> QED BY <3>1, <3>2 DEF NamedIn
  <2>6. ~ Intact(LiveContent, "key") => ~ Intact(LiveContent', "key")
    BY <2>4, GrowthKeeps
  <2> QED BY <2>2, <2>3, <2>5, <2>6 DEF Follows
<1>4. CASE StartSeal \/ MakeSeal \/ WriteSidecar
  <2>1. /\ UNCHANGED <<archive, archiveSeal, unfinished>>
        /\ pc[Sealer] = "idle" \/ Sealing
        /\ pc'[Sealer] \in {"loaded", "sealed", "beside"} /\ ~ Replace
    BY <1>4, NoneIsNothing DEF StartSeal, MakeSeal, WriteSidecar, Replace, TypeOK, files, Sealing
  <2>2. NamedIn(LiveContent)' \/ ~ Intact(LiveContent', "key")
    BY <1>3, <2>1
  <2> QED BY <2>1, <2>2 DEF Follows, Recording, RecordPCs
<1>5. ASSUME ~ SealStep PROVE Follows'
  <2>0. unfinished \subseteq unfinished'
    <3>1. ASSUME NEW p \in Procs, RecordStep(p) PROVE unfinished \subseteq unfinished'
      BY <3>1, RecordFrame DEF Kill
    <3>2. ASSUME NEW w \in Writers, Call(w) PROVE unfinished \subseteq unfinished'
      BY <3>2 DEF Call
    <3> QED BY <1>5, <3>1, <3>2, StepIsOfOne DEF vars
  <2>1. /\ UNCHANGED <<archive, archiveSeal>> /\ event'[Sealer] = event[Sealer] /\ ~ Replace
        /\ pc'[Sealer] = pc[Sealer] \/ RecordStep(Sealer)
    BY <1>5, NotSealing DEF SealStep
  <2>2. /\ \A e : NamesLast(e)' <=> NamesLast(e)
        /\ pc[Sealer] = "idle" \/ Sealing =>
             NamedIn(LiveContent)' \/ ~ Intact(LiveContent', "key")
        /\ Recording(Sealer) => NamesLast(event[Sealer])'
    BY <1>3, <2>0, <2>1
  <2>3. CASE pc'[Sealer] = pc[Sealer]
    <3>1. Sealing' = Sealing /\ Recording(Sealer)' = Recording(Sealer)
      BY <2>3 DEF Sealing, Recording
    <3> QED BY <2>2, <2>3, <3>1 DEF Follows
  <2>4. CASE Lock(Sealer) \/ Draft(Sealer) \/ Open(Sealer)
    <3>1. Recording(Sealer) /\ pc'[Sealer] \in {"locked", "drafted", "opened"}
      BY <2>4, NoneIsNothing DEF Lock, Draft, Open, TypeOK, Recording, RecordPCs
    <3> QED BY <2>2, <3>1 DEF Follows, Sealing, Recording, RecordPCs
  <2>5. CASE Refuse(Sealer)
    <3>1. ~ Intact(LiveContent, "key") /\ pc'[Sealer] = "idle" /\ UNCHANGED <<inode, live>>
      BY <2>5, NoneIsNothing DEF Refuse, TypeOK, files
    <3>2. ~ Intact(LiveContent', "key")
      BY <3>1 DEF LiveContent
    <3> QED BY <3>1, <3>2 DEF Follows, Recording, RecordPCs
  <2>6. CASE Write(Sealer)
    <3>1. /\ fd[Sealer] \in Inodes /\ draft[Sealer] \in Entry /\ draft[Sealer].event = event[Sealer]
          /\ inode'[fd[Sealer]] = Append(inode[fd[Sealer]], draft[Sealer]) /\ live' = live
      BY <2>6, WriteFits, NoneIsNothing
    <3>2. fd[Sealer] = live /\ pc'[Sealer] = "idle" /\ Recording(Sealer)
      BY <2>6, NoneIsNothing DEF Locked, Write, TypeOK, Recording, RecordPCs
    <3>3. LiveContent' = Append(inode[live], draft[Sealer]) /\ inode[live] \in Seq(Entry)
      BY <3>1, <3>2, NoneIsNothing DEF LiveContent, TypeOK, Content
    <3> DEFINE j == Len(inode[live]) + 1
    <3>4. j \in DOMAIN LiveContent' /\ LiveContent'[j] = draft[Sealer]
      BY <3>1, <3>3
    <3> HIDE DEF j
    <3>5. NamesLast(event[Sealer])'
      BY <2>2, <3>2
    <3>6. LiveContent'[j].event = event'[Sealer]
      BY <2>1, <3>1, <3>4
    <3>7. NamedIn(LiveContent)'
      BY <3>4, <3>5, <3>6 DEF NamedIn
    <3> QED BY <3>2, <3>7 DEF Follows, Recording, RecordPCs
  <2>7. CASE Kill(Sealer)
    <3>1. pc'[Sealer] = "idle" /\ NextIndex' = NextIndex
          /\ unfinished' = IF Rotating THEN unfinished \cup {seal.body.index} ELSE unfinished
      BY <2>1, <2>7, SameArchives, NoneIsNothing DEF Kill, TypeOK
    <3>2. ~ Rotating
      BY <3>1 DEF InOrder
    <3>3. pc[Sealer] = "idle" \/ Sealing
      BY <3>2, NoneIsNothing DEF Rotating, Sealing, TypeOK
    <3> QED BY <2>2, <3>1, <3>3 DEF Follows, Recording, RecordPCs
  <2> QED BY <2>1, <2>3, <2>4, <2>5, <2>6, <2>7 DEF RecordStep
<1> QED BY <1>1, <1>2, <1>4, <1>5 DEF SealStep

----------------------------------------------------------------------------
(* The invariant, and what follows from it *)

\* Every part of the invariant is kept by every step,
LEMMA Inductive ==
  ASSUME IInv, Diligent, [Next]_vars
  PROVE  IInv'
<1>1. TypeOK /\ InOrder /\ Working /\ AllNamed /\ EvidenceKept /\ Locked /\ Drafted
  BY DEF IInv
<1>2. TypeOK' /\ InOrder' /\ Working' /\ AllNamed' /\ EvidenceKept' /\ Locked' /\ Drafted'
  BY <1>1, TypeStep, InOrderStep, WorkingStep, AllNamedStep, EvidenceKeptStep, LockedStep,
     DraftedStep
<1>3. Archived' /\ SealFits' /\ Series' /\ Follows'
  BY ArchivedStep, SealFitsStep, SeriesStep, FollowsStep
<1> QED BY <1>2, <1>3 DEF IInv

\* holds at first,
LEMMA Initial ==
  ASSUME Init
  PROVE  IInv
<1>1. Filled = {} /\ NextIndex = 0
  <2>1. \A x \in Indices : archive[x] = None
    BY DEF Init
  <2>2. Filled = {}
    BY <2>1 DEF Filled
  <2> QED BY <2>2, FS_EmptySet DEF NextIndex, Filled
<1>2. pc[Sealer] = "idle" /\ \A p \in Procs : pc[p] = "idle" /\ fd[p] = None
  BY NoneIsNothing DEF Init
<1>3. TypeOK
  <2>1. << >> \in Content
    BY DEF Content
  <2> QED BY <2>1 DEF Init, TypeOK
<1>4. InOrder
  BY <1>1, <1>2, NoneIsNothing DEF Init, InOrder, Sealing, Rotating
<1>5. Working
  BY <1>2 DEF Working, Recording, RecordPCs
<1>6. AllNamed
  BY <1>2, NoneIsNothing DEF Init, AllNamed
<1>7. EvidenceKept
  BY DEF Init, EvidenceKept
<1>8. Locked /\ Drafted /\ SealFits /\ Follows
  BY <1>1, <1>2 DEF Locked, Drafted, SealFits, Sealing, Follows
<1>9. Archived /\ Series
  BY <1>1 DEF Init, Archived, Series
<1> QED BY <1>3, <1>4, <1>5, <1>6, <1>7, <1>8, <1>9 DEF IInv

\* and so always.
LEMMA Invariant ==
  ASSUME Diligent
  PROVE  Spec => []IInv
<1>1. Init => IInv
  BY Initial
<1>2. IInv /\ [Next]_vars => IInv'
  BY Inductive
<1> QED BY <1>1, <1>2, PTL DEF Spec

\* An operator who passes each seal the next index keeps the files, the seals and the
\* processes of ledger/segments.py of their types: in particular every file that
\* os.open(O_CREAT) makes is one that nothing uses.
THEOREM SegmentsTypes ==
  ASSUME Diligent
  PROVE  Spec => []TypeOK
<1>1. IInv => TypeOK
  BY DEF IInv
<1> QED BY <1>1, Invariant, PTL

\* Every call of record() that has returned is in the ledger or in one of its archives,
\* however seals, writers and kills interleave (segments.py, "no evidence is ever
\* discarded to make room").
THEOREM SegmentsKeepEvidence ==
  ASSUME Diligent
  PROVE  Spec => []EvidenceKept
<1>1. IInv => EvidenceKept
  BY DEF IInv
<1> QED BY <1>1, Invariant, PTL

\* Whatever is recorded beside the seals and whoever is killed, every archive is a chain
\* that holds, begins with what its seal describes and lacks a seal only if its seal()
\* was killed as it rotated; and verify_series() refuses the archives exactly when one
\* was written to as it was sealed, or lacks its seal.
THEOREM SegmentsVerify ==
  ASSUME Diligent
  PROVE  Spec => []SeriesHolds
<1>1. ASSUME IInv PROVE SeriesHolds
  <2>0. \A x \in 0 .. (NextIndex - 1) :
          /\ x \in Indices /\ archive[x] # None /\ inode[archive[x]] \in Content
          /\ Intact(inode[archive[x]], "key")
    <3> TAKE x \in 0 .. (NextIndex - 1)
    <3>1. x \in Indices /\ archive[x] # None
      BY <1>1, FilledBelowNext DEF IInv, InOrder, Filled
    <3> QED BY <1>1, <3>1 DEF IInv, Archived, TypeOK
  <2>1. ASSUME NEW x \in 0 .. (NextIndex - 1)
        PROVE  IF archiveSeal[x] = None
                 THEN x \in unfinished \/ (pc[Sealer] = "replaced" /\ seal.body.index = x)
                 ELSE Describes(archiveSeal[x], x) /\ Closes(archiveSeal[x], inode[archive[x]])
                      /\ archiveSeal[x] \in Seal
    <3>1. CASE pc[Sealer] = "replaced" /\ x = NextIndex - 1
      BY <1>1, <2>0, <3>1 DEF IInv, Series, InOrder, Rotating
    <3>2. CASE ~ (pc[Sealer] = "replaced" /\ x = NextIndex - 1)
      <4>1. Sealed(x) /\ SealOf(x) = archiveSeal[x]
        BY <1>1, <3>2 DEF IInv, Series, SealOf
      <4>2. CASE archiveSeal[x] = None
        BY <4>1, <4>2 DEF Sealed
      <4>3. CASE archiveSeal[x] # None
        <5> DEFINE s == archiveSeal[x]
        <5>1. /\ s \in Seal /\ s.body.index = x /\ Closes(s, inode[archive[x]])
              /\ s.prev = Before(x)
          BY <4>1, <4>3 DEF Sealed, SealsIt
        <5>2. s.body.records \in 1 .. Len(inode[archive[x]])
          <6>1. s.body.file \in Content
            BY <5>1 DEF Seal, SealBody
          <6> QED BY <2>0, <5>1, <6>1 DEF Closes, Begins, Content
        <5> QED BY <4>3, <5>1, <5>2 DEF Describes, Closes, Before
      <4> QED BY <4>2, <4>3
    <3> QED BY <3>1, <3>2
  \* What is as long as it was sealed is what was sealed.
  <2>2. ASSUME NEW x \in 0 .. (NextIndex - 1) PROVE VerifySealed(x) <=> Complete(x)
    <3> DEFINE s == archiveSeal[x]
               c == inode[archive[x]]
    <3> SUFFICES ASSUME Complete(x) PROVE VerifySealed(x)
      BY DEF VerifySealed, Complete
    <3>1. /\ s # None /\ s \in Seal /\ Closes(s, c) /\ Len(c) = s.body.records
          /\ c \in Content /\ s.body.file \in Content
      BY <2>0, <2>1 DEF Complete, Seal, SealBody
    <3> HIDE DEF c, s
    <3>2. /\ Len(s.body.file) = Len(c) /\ \A i \in 1 .. Len(c) : s.body.file[i] = c[i]
          /\ Len(c) \in 1 .. Len(c)
      BY <3>1 DEF Closes, Begins, Content
    <3>3. s.body.file = c
      BY <3>1, <3>2 DEF Content
    <3>4. HeadOf(c) = s.body.head
      <4>1. c # << >>
        BY <3>1, <3>2, EmptySeq DEF Content
      <4> QED BY <3>1, <4>1 DEF HeadOf, Closes
    <3> QED BY <2>0, <3>1, <3>3, <3>4 DEF VerifySealed, c, s
  <2>3. ASSUME NEW x \in 0 .. (NextIndex - 1), \A y \in 0 .. (NextIndex - 1) : Complete(y)
        PROVE  archiveSeal[x].prev =
                 IF x = 0 THEN NoSeals ELSE DigestOfSeal(archiveSeal[x - 1])
    <3>1. Describes(archiveSeal[x], x)
      BY <2>1, <2>3 DEF Complete
    <3>2. x # 0 => x - 1 \in 0 .. (NextIndex - 1)
      BY <1>1 DEF IInv, InOrder
    <3>3. x # 0 => archiveSeal[x - 1] # None
      BY <2>3, <3>2 DEF Complete
    <3> QED BY <3>1, <3>3 DEF Describes
  <2>4. VerifySeries <=> \A x \in 0 .. (NextIndex - 1) : Complete(x)
    BY <2>2, <2>3 DEF VerifySeries
  <2> QED BY <2>0, <2>1, <2>4 DEF SeriesHolds
<1>2. IInv => SeriesHolds
  BY <1>1
<1> QED BY <1>2, Invariant, PTL

\* Once a seal() has ended, unless it was killed as it rotated, the live segment has the
\* record that names its seal, or is broken and takes no record and no seal.
THEOREM SegmentsFollow ==
  ASSUME Diligent
  PROVE  Spec => []LiveFollowsSeal
<1>1. ASSUME IInv PROVE LiveFollowsSeal
  <2> SUFFICES ASSUME ~ Rotating, NextIndex > 0, NextIndex - 1 \notin unfinished
               PROVE  NamedIn(LiveContent) \/ ~ Intact(LiveContent, "key")
    BY DEF LiveFollowsSeal, NamedIn, NamesLast
  <2>1. pc[Sealer] = "idle" \/ Sealing
    BY <1>1, NoneIsNothing DEF IInv, TypeOK, Rotating, Sealing
  <2> QED BY <1>1, <2>1 DEF IInv, Follows
<1>2. IInv => LiveFollowsSeal
  BY <1>1
<1> QED BY <1>2, Invariant, PTL
=============================================================================

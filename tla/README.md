# Verification of STOP-GUESSING

TLA+ models of the custody recorder in `src/stop_guessing`, the TLC runs that
check them on small instances, and theorems checked by TLAPS for every instance.
Paths below are relative to `src/stop_guessing/` unless they say otherwise
(`install.sh` and `scripts/` are those of `src/`).

STOP-GUESSING records what an AI agent does with classified files. Hooks of the
host (Claude Code) run before and after each tool call; each is a short-lived
process. The gate classifies the paths in a call, derives what the session has
touched so far from an append-only, hash-chained ledger, weighs the policies and
answers allow, ask or deny; every hook appends what it saw. An optional daemon
owns the ledger in place of the hooks. Segments of the ledger can be sealed, and
claims about the tool itself are proved, recorded and ratcheted.

## 1. Inventory

| Component | State it keeps | Operations | Meets | What is hard |
|---|---|---|---|---|
| Hash chain (`ledger/chain.py`) | none | `append`, `verify`, `head` | sink, segments | keyed and unkeyed entries in one chain; a wrong key must not look like tampering |
| Ledger sink (`ledger/sink.py`) | the file, its flock, `_VERIFIED_HEAD` | `record`, `record_many`, `load` | every writer | concurrent processes, torn writes, power loss, a cache of "already verified", edits by others |
| Segments (`ledger/segments.py`, `cli/cmd_ledger.py`) | live file, sidecar, archives | `seal`, `_rotate`, `verify_sealed`, `verify_series` | sink, by renaming its file | no lock, four file operations, names supplied by the operator |
| Recorder (`recorder/daemon.py`, `recorder/client.py`) | socket, counters; owns the ledger | `serve`, `append`, `verify`, `state`, `ping` | sink below, hooks above | lost answers, timeouts and fallback, stale sockets, overlapping starts |
| Labels (`taint/labels.py`) | none | `join`, `dominates`, `is_classified` | state, gate | a label must not get lost |
| Session state (`taint/state.py`, `taint/persist.py`) | cache file per session | `touch`, `rebuild`, `save`, `load`, `reconcile_with_ledger` | gate, hook_post, lifecycle hooks | rebuilt from the ledger by every hook; lost updates; decision and result describe one effect |
| Gate and result hook (`cli/gate.py`, `cli/hook_gate.py`, `cli/hook_post.py`, `cli/hook_lifecycle.py`) | per-session lock | `decide`, `record_result`, lifecycle events | state, policies, recorder | parallel calls, hooks killed by the host, fail-open |
| Policies (`policy/engine.py`, `data/policy`) | none | `evaluate` | gate | forbid over ask over permit |
| Handlers and delegation (`handlers.py`, `delegate.py`, `sandbox.py`) | handler index, scripts with their tests and signatures | `find`, `run`, `scaffold`, `run_test`, `sign_script` | gate | files that are rewritten between being digested, tested and executed |
| Reconciliation and alerts (`ledger/reconcile.py`, `ledger/alerts.py`) | none | `reconcile`, `classify` | `turn_stop`, ledger | pairing dispatches with results some of which are lost or still to come |
| Claims and proofs (`prove/runner.py`, `scope.py`, `witness.py`, `judge.py`, `cli/cmd_prove.py`) | `claims.yaml`, proof ledger | `run_one`, `run_all`, `check`, `retract`, `attest_self` | sink, AI-CAIQ | a file without a lock, digests read after the run, a ratchet that must not turn back |
| AI-CAIQ (`caiq/`, `cli/cmd_caiq.py`) | answers file, workbook | `derive`, `fill`, `evidence` | claims | hand edits; a proof about a document that cites proofs |
| Keys (`attest/keys.py`) and installer (`install.sh`) | key file, runtime, hook scripts, registrations | `discover`, install, uninstall | every writer | kills between two files; a key that must outlive installs |
| Release scripts (`scripts/`) | bundle, snapshots, the issue tracker | `build`, `verify`, `compare`, file and close issues | claims, audit predicates | readings taken one after the other; retries |
| Record builder, exports, other commands, compat | none that outlives a call | formatting, validation | ledger, read-only | - |

What makes each correct:

* **chain / sink**: the file is one chain under one key whatever writers and
  crashes do; a record that was returned is not lost without notice; a refusal
  speaks of tampering only after an edit; an edit is not built upon.
* **segments**: no returned record disappears; the series of seals verifies; the
  live segment names the seal before it.
* **recorder**: an event a hook was told is recorded is there, once unless a
  failure made it fall back; one that is told to be lost is not; one daemon owns
  the ledger; no hook waits for ever.
* **gate and state**: what one gate let through is known to the next, however
  the two overlap; results are not dropped when state is rebuilt.
* **labels**: joining is a least upper bound, and classified stays classified.
* **turn end**: what is named unclosed was opened and never closed, and wakes a
  human.
* **claims**: what counts as proven ran as it now stands, what is cited passed,
  and a claim is narrowed only by a recorded retraction.
* **AI-CAIQ**: an answer in the workbook comes from proofs; one undisturbed proof
  of the release claim is enough.
* **delegation**: what runs on live data is what its test passed on.
* **installer and keys**: what is registered can run when no installer is at it, and
  the next one mends what a killed one left; the key that records are
  under is never lost.
* **release scripts**: a bundle describes the tree that was attested, "intact"
  means claim by claim, and a finding has one issue.

`PROJECT.json` lists every component, also those that are not modelled, and the
hazards of the code at their lines.

## 2. Modules

| Module | Models | Built on |
|---|---|---|
| `HashChain` | `chain.py`: entries, `append`, `verify`, `head` as operators | - |
| `CustodyLedger` | `sink.py`: writers, file, disk, lock, head cache, crashes, edits | `HashChain` |
| `EvidenceLog` | what the sink promises: an abstract log (no code of its own) | - |
| `Segments` | `segments.py` beside writers of the sink | `HashChain` |
| `Recorder` | `daemon.py` and `client.py`: request, answer, fallback, socket life | an abstract ledger |
| `Labels` | `labels.py` | - |
| `Custody` | gate, result hook, lifecycle hooks, state and policies of one session | `Labels`, an abstract ledger and recorder |
| `Claims` | `run_one`, `run_all`, `check`, `retract` over `claims.yaml` and the proof ledger | an abstract ledger |
| `ProofStore` | what those promise to readers: passing proofs, live proofs, verdicts (no state of its own in the code) | - |
| `Questionnaire` | AI-CAIQ answers and workbook, the release claim's procedure, `attest --self` | `ProofStore` |
| `Delegation` | `delegate.py`, and `handlers.py` as far as it runs scripts | - |
| `Turns` | `turn_stop()`, `reconcile.py`, `alerts.py` over overlapping calls | an abstract ledger |
| `Profile` | `install.sh`, `keys.py`, and who records under which key | an abstract ledger |
| `Release` | `release_bundle.py` beside edits of the tree | - |
| `Tracker` | `file_audit_issues.py` beside fixes and other runs | - |
| `Guard` | `attest_guard.py` and the two readings of `attest_self()` | - |
| `MC...` | constants for TLC; `MCTools` plays seven of the modules as scenes | one each, `MCTools` seven |
| `...Proofs` | theorems: `CustodyLedger` (with `HashChain`), `Segments`, `Recorder`, `Custody` (with `Labels`), `Claims`, `Turns`, `Profile`, and `Tools`: the scenes of `MCTools`, with `Delegation` | the module of that name |

### HashChain and CustodyLedger

A digest is the sequence of links it digests, with the key that made it, so equal
digests have equal contents and collisions do not exist. `Holds(log, i, k)` is
the check `verify()` makes of entry *i*, split into the link and the content as
in the code.

In `CustodyLedger` a call of `record()` is `Call`, `Lock` (flock), `Refuse` or
`Draft` (load, verify, `_reject_downgrade`, `_reject_wrong_key`, chain the
entry), `Write` (some bytes by `os.write`, at least one, until the line is out),
`Sync` (fsync, refresh `_VERIFIED_HEAD`, return). `record_many()` goes from
`Sync` back to `Draft` under the lock. `Fail`, `Kill`, `PowerLoss` and `Edit`
come between any two. A line has four lengths: nothing, part of it, all but the
newline, all (`put` is 0 to 3). The file is the entries `load()` can return and a
`tail` that says what follows them: `clean`, `open` (a complete record without
its newline), `torn`, `smear` (two records run together on the last line),
`junk` (an unparseable line with a newline). `disk` is what the last fsync
covered; after a power loss any prefix between it and `file` survives.

`EvidenceLog` is the abstract view: a log that grows, promises a prefix and takes
nothing back from it, and once damaged stops. `ImplementsEvidenceLog` is the
refinement: `log` is what is readable, `kept` counts returned entries.

### Segments

`seal()` is `StartSeal` (load), `MakeSeal` (`file_digest` reads again),
`WriteSidecar`, `Replace`, `MoveSidecar` and a `record()` of the genesis entry.
Files are inodes, so that a writer that opened the live file before `Replace`
goes on writing the archive. `Diligent` says whether the operator passes
`--index` and `--prev-seal`. The ghost `unfinished` names the archives whose seal()
was killed while it rotated (`Rotating`: after `os.replace()`, before the genesis
record is written).

### Recorder

A hook's `append()` is `Append_`, `FindDaemon`/`FindNone` (the ping), `Send`,
`Receive` or `GiveUp` (timeout, EOF), `Direct` (the fallback), `Return`. The
daemon's handler is `HandlerTurnsAway` (peer or event refused at the boundary), or
`HandlerLocks` (inside `record()`, with the ledger's flock in `writing`) and then
`HandlerRecords` (or the sink refuses) or `HandlerFails`; then `Reply`. It may still
record what its client has given up on, and may hang anywhere, also with the lock;
`Dies` is the kernel dropping it. `serve()` and `main()` are one step per operation
on the socket's name (`Start`, `MeetOther`, `MeetNone`, `Unlink`, `Bind`, `Listen`,
`Close`, `Leave`, `Crash`).
`Accepts` stands for what the sink's refusals come to here.

### Custody

One session. The host makes tool calls (`Call`, from the set `Requests`), each
with a gate process: `Enter` takes `_session_lock()` and derives the state
(`StateFor`), `Pass` is the early return, `Decide` weighs the policies, touches
the state and saves the cache, `Record_` appends and answers the host. Then
`Approve` (the prompt), `Run` or `Abort`, and hook_post: `PostRead` (outside any
lock, as in the code), `PostTouch` (under `persist.exclusive()`), `PostRecord`.
`Die` ends a hook anywhere: the host fails open, the record may be absent, whole
or torn. `DaemonStart`/`DaemonStop`, `Seal`, `Note`, `Compact`, `SubagentStop`
and `state --rebuild` happen at any time. The installed hook_post runs its file
as `__main__` and cannot record a result (section 5); `setting.imported` says
whether the hook is that one or the imported, whole one, so that both the system
as installed and the one the code means are checked.

A ledger record has what `rebuild()` reads of it: call, op, outcome and the
artifacts named. `Counts` is the pairing of records by (call, op) and the
skipping of denies; `Rebuilt` is the replay. `Unnamed` is the `artifact_id` ""
that further classified inputs of a command share. A `delegated` decision is the
handler's answer, recorded as a deny.

Abstracted: counters and edges of the state, which no shipped policy reads;
regular expressions (`Labelling` is their result per artifact; the host's paths
and the canonical ones differ only in whether the first input is named); a
recorder answers correctly or not in time, and refuses events without
`known_gaps` and `alterations` (the detail is in `Recorder`); the sink is an
append that a torn ledger refuses (the detail is in `CustodyLedger`). A record
that names no artifact is kept only when it is the ledger's first, because that
is the only time it changes what a hook is told.

### Claims and ProofStore

A prove process starts and imports the code (`Begin`), then takes each claim
through `Observe` (the procedure and the driven surfaces), `Record` (`proof.run`,
with digests read from the disk at that moment), `Pin` (`claim.scope`), and, when
it passed, `Load`, `Truncate` and `Write` of the whole of `claims.yaml`. No lock
covers the file, so edits, other provers, `Retract`, kills and a ledger that stops
verifying (`Damage`) come between any two. A digest is the version it digests.
`Proven(c)` is what `check()` answers: a cited passing run that no digest has
moved away from (nothing is compared of a module that is not on the disk,
`Deleted`, as in `_implementation_drift()`), witnessed for the text as it is now, with its surfaces driven
and wired and no reduction of its scope unexplained. `ran`, `quiet` and `alone`
are ghosts of what really ran and in what company. `ProofStore` is the abstract
view: passing proofs accumulate, a claim's live proof is one that passed for it,
and only a claim with a live proof is proven (`ImplementsProofStore`).

### Questionnaire

It reads the proofs through `ProofStore`. `Derive`, `WriteAnswers`, `Fill` and
`RecordRelease` are the release claim's procedure, `Derive`/`WriteAnswers` and
`CheckDrift`/`Fill` the commands `caiq derive` and `caiq fill`; `EditAnswers` and
`EditWorkbook` are people. `SelfAttested` and `EvidenceCode` are the verdicts.

### Delegation

A run is `Start` (with `--signed`, `verify_script()`; for a handler, the digest of
the record), `Pin`, `Test`, `Compare`, `Check`, `Snapshot`, `Execute`, or
`Abandon` at any of them. `EditScript` and `EditTest` come between any two: the
test itself may be the editor. The ghosts `early` and `restored` mark an edit
before the digests are pinned and a file put back while the test is on.

### Turns

`Dispatch`, `Result` and `Failure` are the records of the gate, hook_post and
`tool_failed()`, each of which may be lost; `Rotate` seals the segment;
`LoadTurn` and `Reconcile` are `turn_stop()`. `Findings` is `reconcile()`,
`Unclosed` the subtraction of ids, `Wakes` is `classify()`.

### Profile

`Build` to `HasKey` are `install_profile()` and `install_recorder()`, one step
per file; `Unregister`, `RemoveScripts`, `RemoveRuntime` uninstall; `Stop` ends
either anywhere. `Discovered` and `Preferred` are `discover()` without and with
the key id of a ledger; the ghost `cut` says that an installer was killed in the swap or
at the scripts and none has come through since; `Record`, `Emit`, `Serve`, `RecordServed` use them as the
hooks, the commands and the daemon do. `Provide` changes the other providers.

### Release, Tracker, Guard

`Release`: `Attest`, `Audit`, `WriteBundle`, `Verify` and edits. `Tracker`:
`Plan`, `List`, `Create` file issues and `Absent`, `ListNumbers`, `Close` close
them, both over the newest `ListLimit` issues (`Listed`; 500 in the script), while
others open issues of their own (`OpenOther`), with gh failing, or acting and timing out, at each. `Guard`: `Begin`,
`Command`, `TakeFirst` and `TakeLast` (the two readings inside `attest_self()`),
with `Change` between any two; `Snapshot` and `Compare` are the script's.

## 3. Runs

| Run | Checks | Shows |
|---|---|---|
| `LedgerCrash` | `TypeOK`, `ChainHolds`, `LossIsSingleAndSeen`, `BatchContiguous`, `TamperMeansEdited`, `ImplementsEvidenceLog` | two writers, one long-lived, keys k1, k2 and none, batches of two, two crashes of any sort: one chain; at most one returned record becomes unreadable, and then the file does not parse |
| `LedgerEdits` | `NeverBuriesAnEdit`, `CallsEnd` | hook processes and one edit at any moment: nothing is appended over an edit; every call ends |
| `SegmentsDiligent` | `TypeOK`, `EvidenceKept`, `SeriesHolds`, `LiveFollowsSeal` | writers and seals in any overlap, and two kills: no returned record is lost; an archive holds and begins with what its seal describes, and `verify_series()` refuses only what was written to while it was sealed or lost its seal to a kill; the live segment names the seal before it, or is refused |
| `RecorderCalls` | `TypeOK`, `AnsweredMeansOnce`, `AtMostTwice`, `LostMeansLost`, `SoleRecorder`, `AppendReturns` | two hooks, a daemon of their uid and one of another, timeouts, late handlers, errors, kills, handlers that hang with the lock |
| `CustodyGate` | `TypeOK`, `AskedOnce`, `NoEgressAfterRead`, `AccumulationStops`, `ResultsAreSeen` | two overlapping calls, six settings, lifecycle hooks, one mishap |
| `ClaimsProvers` | `TypeOK`, `CitedIsProof`, `ProvenMeansRan`, `NarrowedOnlyByRetraction`, `UndisturbedProofIsLive`, `ImplementsProofStore` | two provers of one claim, two edits or retractions, code that is deleted and put back, kills, a half-written `claims.yaml` |
| `Tools` | `ToolsTypeOK`, `HandEditsStayOut`, `ReleaseRunSuffices`, `RanWasTested`, `RanWasVetted`, `UnclosedIsNamed`, `RegisteredRuns`, `LedgerStaysVerifiable`, `BundleIsAttested`, `TrackerKeepsUp`, `GuardIsRight` | the seven scenes of `MCTools`, one module playing in each |
| `LedgerTornNewline` (violated) | `ReturnedStaysReadable` | a lost newline costs the next, returned, record |
| `SegmentsRace` (violated) | `LiveChainHolds` | a seal between a writer's load and open breaks the live chain |
| `SegmentsDefaults` (violated) | `EvidenceKept` | two seals with default options lose the first archive |
| `CustodyDaemon` (violated) | `DecisionsRecorded` | with a daemon, the gate's decisions are refused and not recorded |
| `CustodyPost` (violated) | `ResultsRecorded` | the installed hook_post records no result |

The violated runs check what a comment or docstring of the code says; the
`findings` of `PROJECT.json` quote it.

Every property of a passing run has a mutant: an operator next to the one it
replaces that changes it as a slip would (a lock not taken, a pair keyed by the
call alone, a fsync that is left out), under which TLC finds the property
violated. Many are the code as it was before the fix a comment of it describes.

### Bounds, and why they are enough

* Ledger: two writers show every race on a lock; three calls let a third entry
  land on the damage of the second; a crash during a call and another during the
  recovery need two; two keys and none give every downgrade and mismatch. With
  one key per chain, keys are interchangeable (`KeySymmetry`).
* Segments: two writers and a sealer, two seals (the second is the first to have
  a predecessor), four records, and two kills: one of a seal that rotates, one of the
  writer that races the next.
* Recorder: two calls are needed for one to be late while the other is current,
  two daemons for one to come up while the other goes. The hooks find the key
  (`HookHasKey`), as they do when installed.
* Custody: two calls are one gate that acts and one that must know of it, in
  every overlap; the six requests are a classified read, an inheriting write, a
  write to the ledger, a command with two classified files, an egress with and
  without a classified file; the settings are the three postures with a
  threshold of two, `observe` with a whole hook_post besides, and `steer` with a
  threshold of one with and without prompts. With thresholds of one and two, two
  calls reach and pass them; the shipped value is four. One mishap (kill, daemon
  or seal) at any moment. Calls are interchangeable (`CallSymmetry`).
* Claims: two provers are one that writes and one whose document is stale; two
  acts are an edit and its undoing, or an edit of the claim and one of the code.
  One claim and one hook: claims meet only in the document that is written back
  whole, and surfaces are treated alike. The run reaches proofs of both texts, of
  both versions, and a scope that shrinks and grows.
* Tools: two claims, one of them the release claim, and a control of each sort
  (published, always No, not published); four saves are a derived and filled pair
  twice, or with an edit between. One delegated run is enough for a race, as all
  rewriting is by others; two runs and four edits let both files change and
  change back. Three calls: two of the session with ids and the same tool, one of
  another session without an id (the theorem covers the other combinations). Four installs are an install and an
  uninstall, twice. Two files and two contents, and one that is not there, give
  every difference a bundle can have. Two findings, two runs of the filing
  script, a list of two issues and four issues in all: both findings listed, one
  hidden by others, and filed again. Two guards and two moves:
  one for the worse and one for the better, which is the net-zero case.

Deadlock is not checked: calls are bounded, and a system that has made them all
may stop.

### Fairness

* Ledger: weak fairness of `Lock` and of a writer's steps under the lock: the
  kernel wakes a waiter and runs processes. With a bounded number of calls no
  writer can be overtaken for ever. Crashes, failures and edits are not fair.
* Recorder: weak fairness of a hook's own steps only; a daemon may never answer,
  the client's timeouts alone must end the call. The fallback is a step of the hook
  that waits for the ledger's flock without a timeout (`sink.py:159`), so
  `AppendReturns` has the premise that no handler keeps it for ever
  (`[]<>(writing = 0)`); section 5 says what happens otherwise. Calls are bounded, so
  a lock that is free again and again is free for good in the end; without the bound
  this would rest on flock's waking of its waiters.
* All other modules: safety only. Nothing in the code retries until it
  succeeds, so there is nothing that must eventually happen beyond a call's end.

## 4. Theorems

TLAPS, for all values of the constants:

* `CustodyLedgerProofs`, of `HashChain`: what one key appended verifies under that
  key and under none (`OwnLogIntact`); another key is rejected at the first entry
  (`WrongKeyNamed`); an event edited in place is named, and those before it pass
  (`EditNamed`); a removal is named unless it was the last entry (`RemovalNamed`).
* `CustodyLedgerProofs`: `TypeCorrect`; `ChainInvariantHolds`;
  `ChainAlwaysHolds`, that is `Spec => []ChainHolds`; `TamperAlwaysMeansEdited`;
  `LineInvariantHolds` and `LossAlwaysSingleAndSeen`; `BatchInvariantHolds` and
  `BatchAlwaysContiguous`; where nothing else edits the file (`MaxEdits = 0`), the
  refinement `SinkImplementsEvidenceLog`; and for hook processes and one edit
  (`HooksAndOneEdit`) `NeverBuries`, that is `Spec => NeverBuriesAnEdit`.
* `SegmentsProofs`, for an operator who passes the index and the seal before it
  (`Diligent`): `SegmentsTypes`, `SegmentsKeepEvidence`, `SegmentsVerify` and
  `SegmentsFollow`, the four properties of the run `SegmentsDiligent`, with any overlap
  of seals and records and any kills.
* `RecorderProofs`: `RecorderInvariant`; `RecorderTypeCorrect`;
  `AnsweredAlwaysOnce`, `AlwaysAtMostTwice`, `AlwaysSoleRecorder`, and
  `LostAlwaysMeansLost` if the hooks have the key (`HookHasKey`).
* `CustodyProofs`, of `Labels`: `JoinType`, `JoinIsUpperBound`, `JoinIsLeast`,
  `ClassifiedIsMonotone`; of `Custody`: `CustodyTypes`, `CustodyAsksOnce`,
  `CustodyStopsEgress`, `CustodyStopsAccumulation`, `CustodySeesResults`, which are
  all properties of the run `CustodyGate`.
* `ClaimsProofs`: every property of the run `ClaimsProvers`, namely `TypeCorrect`,
  `AlwaysCitedIsProof`, `AlwaysProvenMeansRan`, `AlwaysNarrowedOnlyByRetraction`,
  `UndisturbedProofStaysLive`, and the refinement `ClaimsImplementProofStore`.
* `TurnsProofs`: `AlwaysUnclosedIsNamed` if the session's calls are calls
  (`OwnAreCalls`); `NeverQuiet`, that every end of a turn wakes somebody.
* `ProfileProofs`: `AlwaysRegisteredRuns` (except during the swap and the scripts, and
  after a kill there until an installer comes through); `LedgerAlwaysVerifiable` if keychain
  and environment never hold a generated key (`KeysDiffer`).
* `ToolsProofs`, every property of the run `Tools`: `ToolsTypeCorrect`,
  `HandEditsAlwaysStayOut`, `ReleaseRunAlwaysSuffices`, `BundleAlwaysAttested`,
  `TrackerAlwaysKeepsUp`, `GuardAlwaysRight`; of `Delegation`,
  `DelegationTypeCorrect`, `AlwaysRanWasTested`, `AlwaysRanWasVetted`; and, from the
  two modules before, `SceneUnclosedIsNamed`, `SceneRegisteredRuns` and
  `SceneLedgerVerifiable`. `ToolsStep` is why a scene is enough: a step of `MCNext` is
  one of a tool's own or leaves that tool alone.

**The sink's inductive invariant.** `ChainHolds` alone is not inductive: a writer that
loaded an older head could append a fork. `ChainInvariant` adds `LockHeld` (who
is past `Lock` holds the flock, so one writer drafts at a time), `DraftFits` (as
long as its line is incomplete the draft is an entry chained onto the file as it
is), `HintsHonest` (a head hint holds a chain under the key it is filed by, so
that skipping what the hint covers skips nothing unverified), and one chain on
the disk as well (so that a power loss lands on a chain, a prefix of a chain
being one). The step lemmas follow the code: `AcceptedKey` says that a call
`Refuse` would not stop has a key under which the file is a chain, `LandKeepsChain` that landing
any part of a line that fits keeps it, `SurvivorsPrefix` that a power loss leaves
a prefix. The invariant says nothing once `edits > 0`.

`TamperMeansEdited` needs in addition that a call under way has no outcome yet
(`OutcomePending`), and `BrokenMeansSpliced`: when the file is a chain under one
key and no earlier refusal applies, verification fails only because a keyed call
meets a ledger without a key.

`LossIsSingleAndSeen` has an invariant of its own, `LineInvariant`, about three
things: how far the file may be ahead of the disk (`Behind`: it starts with what the
disk holds, except that a record may have fallen on the disk's open line), how the
file ends while a line is being written (`LineSoFar`), and where the returned entries
are (`Durable`: among the finished lines of the disk, or all but one, and then the
file is damaged and nobody writes any more). `LandStaysAhead` is the step of one
`os.write()`, `SurvivorsKeep` that a power loss takes none of the disk's finished
lines. `BatchInvariant` then needs only that the chain is as long as the last entry
of the batch left it. For the refinement, `WriteKeepsPromise`, `SyncKeepsPromise` and
`PowerLossKeepsPromise` give each step its step of `EvidenceLog`; one of them was not
foreseen: a power loss may bring an event *back*, an unfinished last line that a later
record had run over in the page cache only (`OpenLineBack`), which is `Record` to
the reader.

`NeverBuriesAnEdit` starts where the others stop, at the edit. `Broken` says of
entries that no key verifies them, or only none does and they are keyed, which
`_reject_downgrade` refuses; `AlteredBreaks` and `RemovedBreaks` derive it from
`EditNamed`, `RemovalNamed` and, for every other key, `ForeignKeyFails`. It has to
outlive the line that was being written, what is written over it (`LandStaysBad`)
and a power loss (`SurvivorsStayBad`, which needs that the disk is never ahead of
the file, `Past`). The rest of `EditInvariant` is that a hook process keeps no hint.
The premise is as wide as the code allows: with a batch or a process that lives on,
or with a second edit that undoes the first, TLC finds an entry drafted on an edited
file (section 5).

**The segments'.** `EvidenceKept` asks that no archive is replaced (`InOrder`: the
archives are the first ones, and a seal under way has the index after theirs) and
that nothing is written to a file without a name (`AllNamed`, `Working`). These hold
with any overlap and any kill. The rest starts from `Locked`
and `Drafted`: one process drafts at a time, and its draft fits the live file unless
that was moved away since, and then what it opens is empty. So a live file is a chain
or was broken by such a writer, a broken file stays broken (`BrokenStays`), and only a
chain is ever sealed (`Archived`). `SealFits` is that what `seal()` loaded is what the
live file begins with until it is moved, although the file may grow meanwhile
(`GrowthKeeps`); `Series` that every archive has a seal of what it begins with, which
names the one before, unless its `seal()` was killed (`unfinished`); `Follows` that
the last seal's record is in the live file, or the operator has it in hand, or the
file is refused. `SealOf` and `Before` say which seal an archive has while its sidecar
is still to be moved. `verify_series()` then refuses exactly the archives that were
written to after `seal()` had loaded them, or that lack a seal.

**The recorder's.** `AnsweredMeansOnce` counts records, and counting is not
inductive; `RecorderInv` says instead where each record comes from (`Traced`: a
record by the daemon is the work of a handler that is done with its request, one
in process that of a hook that has returned), what an answer says of the request
behind it (`Told`), that no two records are of the same call and maker (`Single`,
from which the counts follow by `CopiesCounted`), and that call numbers are fresh
(`CallInv`). `SoleRecorder` needs its own invariant of the socket's name,
`NameInv`: as long as no two daemons were at it together, a daemon that listens is
where the name leads.

**The session's.** The argument is the lock. `TouchedIsShown`: what a gate let through
or asked about is in the ledger as soon as the gate has recorded it, and a result does
not take it out again (`ResultsOnce`). `HolderSees`: a gate under the lock has it in
the state it rebuilt, since nobody else records a decision meanwhile. `PendingIsRight`:
so the decision it has taken and not yet recorded is what the policies say of all that
was let through before: no egress, fewer than the threshold, no second prompt about an
artifact. The three properties then follow at the step that records the decision.
`TouchedIsShown` and what follows from it hold for one ledger (`OneLedger`);
`ResultsAreSeen` needs only one that is not torn.

**The provers'.** Three invariants, one on the other. `Typed` gives each place of a
prover its fields. `Proofs` says that all citations are of proofs, in the file and
in every document a prover is about to write back (`Cites`; so a stale document
does no harm), that a prover nobody disturbed has imported what is on the disk
(`Knows`), and what the records then hold (`Digested`, `Bounds`). `AllFresh` follows
one undisturbed passing run to its citation (`Stands`). `KeptAs` is what lets one
lemma per action do: the step of one prover, or an edit, changes nothing of
another but the ghosts, which only fall. The refinement rests on
`RecordLeavesVerdicts`: nothing cites a reference before its record is written, so
a pass changes no verdict.

**The tools'.** `CaiqInv`: answers and workbook follow what they cite (`FollowsRefs`:
No for a control that is always No, else Yes exactly when a proof is cited), and so
do the documents a command holds between reading and writing (`DeskRight`), unless
they were disturbed (`quiet`) also the live proofs (`Backed`); `SettledRight` then says
of the release claim that its newest proof is of the workbook there is.
`DisturbedRight` lets one lemma do for every step of another process.
`DelegationInv` follows a script from digest to digest (`Tested`,
`Vetted`: each place of a run says which of its digests agree, unless a ghost
marks the exception). `TurnsInv` says a log holds only records that calls as far
as they were could have made (`HonestLog`), for the live segment and for what a
Stop has loaded. `InstallInv` says what each place of the installer has left
behind it, so that a stop there does no more than `cut` says; `KeyInv` that all records are under
one key, and that a generated one that the ledger or the daemon uses is in the
file. `ReleaseInv`: what `build()` took while nothing was edited is the tree as it is.
`TrackerInv`: nothing that a run is to file has an issue that gh lists (`Hidden`), so a
new issue is more than `ListLimit` behind an older one (`FarApart`), and nothing it is
to close, or has read as absent, is unsettled (`RunRight`); one run files at a time unless they
overlapped. `GuardInv` is only what the verdict was computed from: that no claim,
control or goal was lost follows from the counts and lists the script compares
(`IntactLosesNothing`, for any sets of claims and controls).

**Assumptions**: `ChainAssumption`, `LedgerAssumption`, `SegmentsAssumption`,
`SealsAssumption`, `RecorderAssumption`, `FlagsAssumption`, `CustodyAssumption`,
`ClaimsAssumption`, `QuestionnaireAssumption`, `MissingAssumption`,
`DelegationAssumption`, `TrackerAssumption`; TLC evaluates them in the runs. They say that bounds are
numbers, that the value for "nothing there" is none of the values that may be there,
and that flags and artifacts are finitely many. `HooksAndOneEdit`, `Diligent`,
`KeysDiffer`, `OwnAreCalls` and `HookHasKey` are premises of their theorems, and hold in
the runs that check the same property. Digests do not collide.

**Only model-checked**: the two liveness properties, `CallsEnd` and `AppendReturns`.
Liveness under fairness and `ENABLED` are out of the prover's reach. All other
properties of the passing runs are theorems.

## 5. Where code and words part

Checked by a run: see the violated runs above. Met while modelling and present in
`Custody`, without a run of their own:

* `_unsafe_state()` has labels but no sources; `forbid-tainted-egress` asks for
  `taint_depth >= 1`, so an egress with an unverifiable ledger is allowed
  (`cli/gate.py:101-102` says it "fails toward denying egress").
* A delegated read is recorded as a deny, and `rebuild()` skips denies, so the
  taint `_substituted()` touches is gone at the next hook (`cli/gate.py:615`).
* `subagent_stop()` joins the child's sources into the cache only; the next
  rebuild overwrites it (`cli/hook_lifecycle.py:184`).
* An ask the operator refuses makes the next touch of that artifact a permitted
  subsequent touch: a refused ask counts as effected (`taint/state.py:181-185`
  says this over-counts; for `classified-subsequent-touch` it relaxes).
* `forbid-credential-egress` looks at the session's taint, not at the artifact of
  the call that sends it (`data/policy/coc.policy.d/30-classified.yaml:17`).
* The postureless forbids of `10-base.yaml:29-31` include "credential egress",
  whose policy is restricted to `steer` and `bar`.
* Additional classified inputs have `artifact_id` "" (`cli/gate.py:453`), so a
  command with many counts two until its result is recorded.

`NoEgressAfterRead`, `AskedOnce` and `AccumulationStops` therefore hold for one
ledger (`OneLedger`: no daemon has been there, no seal, not torn) and for what
the gates themselves returned.

Met in the other modules:

* `turn_stop()` always says "critical" once it has read one action instance:
  `reconcile()` looks a report up by its own record's sequence number, which is
  never that of its dispatch (`NeverQuiet`, proved). `alerts.py:8-10` promises to be
  "quiet on routine traffic".
* `_VERIFIED_HEAD` is filled from a second read of the file (`sink.py:270`), so a
  writer that lives on may take an edit between the two for verified and append to
  it: TLC finds this in `LedgerEdits` with a `LongLived` writer, and with
  `MaxBatch = 2`, as the next event of a batch relies on the same hint. Hook processes
  record one event each; the daemon lives on.
* Two daemons whose starts overlap at a stale socket may both serve
  (`SingleWriter` of `Recorder` states the docstring's promise; `SoleRecorder` is what
  holds). The flock keeps the ledger one chain.
* A daemon that hangs inside `record()` keeps the ledger's flock, and the hook that
  gave up on it (`client.py:53`, its timeout) waits for that flock in its fallback
  without one (`sink.py:159`): no hook returns until the daemon dies.
* An archive that a writer wrote to after `seal()` had loaded it is refused by
  `verify_sealed()` ("records were added or removed after sealing", or "the sealed file
  was modified"), though it was correct callers that overlapped; `segments.py:163` says "The rename is the close".
  `SeriesHolds` says when this happens and that nothing else does.
* `TamperMeansEdited` is about the refusal that names a broken chain. The other one,
  of a ledger that does not parse ("Something modified the file", `sink.py:250-257`),
  is also reached by the lost newline of `LedgerTornNewline`, with no edit.
* `install.sh:227` says the new runtime is swapped in "atomically". It is two `mv`
  (252, 254): killed between them, registered hooks, which import only `$runtime`
  (277), have none until the next install; nothing restores `runtime.prev`. A script
  is written in place (273), so a kill may leave it empty or short, and bash accepts
  that in silence. `RegisteredRuns` excepts both, by `cut`.
* Without the chain key in the hooks (`HookHasKey` false) `LostMeansLost` fails: a
  late handler of the daemon records what its hook could not, and reported lost.
* `prove` digests the claim's text, the procedure and the modules after the run:
  an edit in between is pinned as what ran. `ProvenMeansRan` therefore excepts runs
  that were not quiet or not alone, and `DefinitionBinds`, which does not except
  overlapping provers, fails with two of them: the second writes back the text it
  had loaded (`prove/runner.py:89-97` says an old text's proof "must stop
  counting").
* A traversed module that was deleted or renamed since has no digest, and
  `_implementation_drift()` passes over it (`prove/runner.py:203-208`): the claim stays
  proven by code that is gone, although the manifest is there so that no stale proof
  "kept counting" (112-117). `ProvenMeansRan` excepts code that is not on the disk.
* `file_audit_issues.py:13` says it is idempotent. It asks gh for the newest 500
  issues (48, 112): a finding whose issue is older is filed again. `TrackerKeepsUp`
  says that this is the only reason, and that its issue is then out of the list.
* The note `release_bundle.py --verify` prints (161) says a matching subject has "the
  bytes the recorded attestation was made against". A file edited between the
  attestation and the digests matches without having been attested; `BundleIsAttested`
  excepts bundles during whose building something was edited.
* `attest --self` compares the workbook with the last passing proof of the release
  claim whether that proof is still live or not; and it reads `claims.yaml` twice,
  so a claim added in between ends it with `StopIteration`.
* A key file that a kill left empty is never filled: later installs see that it is
  there, and the hooks find no key (`install.sh:391`).
* `settings.json` that does not parse makes `Register` stop the installer after the
  runtime was swapped; the hooks of the earlier install go on.
* `state --rebuild` without a ledger clears the cache it would rebuild.
* A profile's `protect_ledger: false` wins over a project's `true`, though a project
  "may turn it on" (`cli/gate.py:700-737`).
* Under `bar`, `emit_for_model(..., "summary")` cannot be reached: the posture denies
  first (`delegate.py:324`).

## 6. Not modelled

`PROJECT.json` gives the reason for each. In short: the record builder, exports,
sufficiency scores, pages and the other printing commands format or validate and
keep no state; `recorder/guard.py` and `recorder/network.py` are checks at start-up
and of the source; most of `prove/procedures.py` and all predicates of
`scripts/audit_verify.py` are tests of the other parts, whose verdicts are inputs
here; the sandbox is the operating system's; `compat/` runs third-party hooks.
In modelled components: the seal's MAC and key change, the `verify` request,
posture resolution, policy pinning and the vendored rules, `declassify()` (no
caller), directory entries on the disk, the judge's lenses and the profiler,
DSSE envelopes and file modes, cells and styles of a workbook, the launch
daemon's plist, the superseded plugin's marker, edits of `settings.json` by the
host between the installer's read and its replace, version stamping.

## 7. Plan

Done: the sink with its abstraction and chain theorems; segments; the recorder
and its theorems; labels, the gate and session state; claims, with the abstract
proof store and the proof that they implement it; the AI-CAIQ on top of it; delegation, the end of a turn, installer
and keys, the release scripts, with the theorems of section 4.

What is left, in order:

1. Proofs: a `NeverBuriesAnEdit` for the recorder, should `_VERIFIED_HEAD` come to be
   taken from what was verified.
2. `Custody`: properties for the divergences above that have no run: the state of
   an unverifiable ledger, delegated reads, subagents and seals.
3. `Segments`: the seal's MAC and a key that changes at rotation.

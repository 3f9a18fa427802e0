----------------------------- MODULE Delegation -----------------------------
(***************************************************************************)
(* Delegated scripts: the paired test has to pass on a script before the   *)
(* script touches live data (delegate.py), whether `stop-guessing run` is  *)
(* asked to or the gate has a handler for a classified read (handlers.py). *)
(*                                                                         *)
(* The script, its test and its signature are files anybody may rewrite    *)
(* between any two steps, the test itself included; what the steps keep of *)
(* them are digests, and a digest is the version it digests.               *)
(***************************************************************************)
EXTENDS Naturals

CONSTANTS
  Runners,   \* processes
  Scripts,   \* versions of the script
  Stub,      \* the version scaffold() writes
  Tests,     \* versions of its paired test
  Passing,   \* the pairs of a test and a script that it passes on
  NoFile,    \* a file that is not there
  MaxJobs,   \* bound: runs
  MaxEdits   \* bound: edits of the script and of its test

ASSUME DelegationAssumption ==
  /\ Stub \in Scripts /\ NoFile \notin Scripts \cup Tests
  /\ Passing \subseteq Tests \X Scripts
  /\ MaxJobs \in Nat /\ MaxEdits \in Nat

VARIABLES
  script,     \* <name>.py
  test,       \* test_<name>.py
  signature,  \* <name>.py.sig.json: the version that was signed
  job,        \* what each process is doing, with the digests it holds
  executed,   \* ghost: what ran on live data, and in what company
  jobs,       \* runs so far
  changes     \* edits so far

delegationvars == <<script, test, signature, job, executed, jobs, changes>>

Kinds == {"run", "signed", "handler"}
Idle ==
  [pc |-> "idle", kind |-> "run", vetted |-> NoFile, script |-> NoFile,
   test |-> NoFile, passed |-> FALSE, copy |-> NoFile,
   early |-> FALSE, restored |-> FALSE]

DelegationInit ==
  /\ script = NoFile /\ test = NoFile /\ signature = NoFile
  /\ job = [r \in Runners |-> Idle]
  /\ executed = {} /\ jobs = 0 /\ changes = 0

Go(r, new) ==
  /\ job' = [job EXCEPT ![r] = new]
  /\ UNCHANGED <<script, test, signature, executed, jobs, changes>>

\* verify_script(): the signature is of the bytes as they are now
Verified == script # NoFile /\ signature = script

\* A run starts: --signed verifies first, and handlers.run() digests the script
\* for the record it will make before it calls run_test()
Start(r, kind) ==
  /\ job[r].pc = "idle"
  /\ kind = "handler" => script # NoFile
  /\ kind = "signed" => Verified
  /\ jobs < MaxJobs /\ jobs' = jobs + 1
  /\ job' = [job EXCEPT ![r] =
       [Idle EXCEPT !.pc = "pin", !.kind = kind, !.vetted = script]]
  /\ UNCHANGED <<script, test, signature, executed, changes>>

\* run_test() digests both files before the test is allowed near them ...
Pin(r) ==
  /\ job[r].pc = "pin" /\ test # NoFile
  /\ Go(r, [job[r] EXCEPT !.pc = "test", !.script = script, !.test = test])

\* ... pytest reads them when it gets to it ...
Test(r) ==
  /\ job[r].pc = "test"
  /\ Go(r, [job[r] EXCEPT !.pc = "compare", !.passed = <<test, script>> \in Passing])

CompareAfter(r) ==  \* mutant: before #51, the digest is the one after the test
  /\ job[r].pc = "compare" /\ job[r].passed
  /\ Go(r, [job[r] EXCEPT !.pc = "check", !.script = script, !.test = test])

\* ... and a file that is another one by then is a refusal, as a failed test is
Compare(r) ==
  /\ job[r].pc = "compare" /\ job[r].passed
  /\ script = job[r].script /\ test = job[r].test
  /\ Go(r, [job[r] EXCEPT !.pc = "check"])

\* run(): the script is still the one that was tested
Check(r) ==
  /\ job[r].pc = "check" /\ script = job[r].script
  /\ Go(r, [job[r] EXCEPT !.pc = "snapshot"])

SnapshotOnly(r) ==  \* mutant: before #52, the copy is not digested
  /\ job[r].pc = "snapshot" /\ script # NoFile
  /\ Go(r, [job[r] EXCEPT !.pc = "execute", !.copy = script])

\* The copy, of a file that is there, is digested in turn, and nobody else knows
\* where it is
Snapshot(r) ==
  /\ job[r].pc = "snapshot" /\ script # NoFile /\ script = job[r].script
  /\ Go(r, [job[r] EXCEPT !.pc = "execute", !.copy = script])

\* The copy runs in the sandbox, over the artifacts
Execute(r) ==
  /\ job[r].pc = "execute"
  /\ executed' = executed \cup
       {[script |-> job[r].copy, test |-> job[r].test, kind |-> job[r].kind,
         vetted |-> job[r].vetted, early |-> job[r].early,
         restored |-> job[r].restored]}
  /\ job' = [job EXCEPT ![r] = Idle]
  /\ UNCHANGED <<script, test, signature, jobs, changes>>

\* A refusal, a timeout or a kill: nothing was executed, nothing is recorded
Abandon(r) == job[r].pc # "idle" /\ Go(r, Idle)

\* Ghosts: a file moved between what is recorded of it and what is pinned, or
\* was put back while the test was on
Noticed(s, t) ==
  [r \in Runners |->
     [job[r] EXCEPT
        !.early = @ \/ job[r].pc = "pin",
        !.restored = @ \/ /\ job[r].pc \in {"test", "compare"}
                          /\ s = job[r].script \/ t = job[r].test]]

\* delegate new: refused when the script exists; the stub does not pass
Scaffold(t) ==
  /\ script = NoFile
  /\ script' = Stub /\ test' = t /\ job' = Noticed(Stub, t)
  /\ UNCHANGED <<signature, executed, jobs, changes>>

\* A person, the model, the test or a script that runs rewrites a file
EditScript(s) ==
  /\ s # script /\ changes < MaxEdits /\ changes' = changes + 1
  /\ script' = s /\ job' = Noticed(s, NoFile)
  /\ UNCHANGED <<test, signature, executed, jobs>>

EditTest(t) ==
  /\ t # test /\ changes < MaxEdits /\ changes' = changes + 1
  /\ test' = t /\ job' = Noticed(NoFile, t)
  /\ UNCHANGED <<script, signature, executed, jobs>>

\* sign_script() binds the signature to the content
Sign ==
  /\ script # NoFile /\ signature # script
  /\ signature' = script
  /\ UNCHANGED <<script, test, job, executed, jobs, changes>>

DelegationNext ==
  \/ \E t \in Tests : Scaffold(t)
  \/ \E r \in Runners :
       \/ \E kind \in Kinds : Start(r, kind)
       \/ Pin(r) \/ Test(r) \/ Compare(r) \/ Check(r) \/ Snapshot(r)
       \/ Execute(r) \/ Abandon(r)
  \/ \E s \in Scripts \cup {NoFile} : EditScript(s)
  \/ \E t \in Tests \cup {NoFile} : EditTest(t)
  \/ Sign

DelegationSpec == DelegationInit /\ [][DelegationNext]_delegationvars

----------------------------------------------------------------------------
(* Properties *)

Steps == {"idle", "pin", "test", "compare", "check", "snapshot", "execute"}
Versions == Scripts \cup {NoFile}

Job ==
  [pc : Steps, kind : Kinds, vetted : Versions, script : Versions,
   test : Tests \cup {NoFile}, passed : BOOLEAN, copy : Versions,
   early : BOOLEAN, restored : BOOLEAN]

\* Every file has its type and a run has what its next step reads
DelegationTypeOK ==
  /\ script \in Versions /\ test \in Tests \cup {NoFile} /\ signature \in Versions
  /\ jobs \in 0..MaxJobs /\ changes \in 0..MaxEdits
  /\ job \in [Runners -> Job]
  /\ \A r \in Runners :
       /\ job[r].pc \notin {"idle", "pin"} => job[r].test \in Tests
       /\ job[r].pc = "execute" => job[r].copy \in Scripts
  /\ executed \subseteq
       [script : Scripts, test : Tests, kind : Kinds, vetted : Versions,
        early : BOOLEAN, restored : BOOLEAN]

\* What runs on live data is, byte for byte, a script its paired test passed on,
\* however the two are rewritten around it: only a file that is changed and put
\* back while the test is on can deceive it (#51, #52)
RanWasTested ==
  \A e \in executed : ~e.restored => <<e.test, e.script>> \in Passing

\* What runs is what a signature was verified on, or what a handler's record
\* names, unless it was changed before run_test() pinned it
RanWasVetted ==
  \A e \in executed : e.kind # "run" /\ ~e.early => e.script = e.vetted
=============================================================================

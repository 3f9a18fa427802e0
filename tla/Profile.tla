------------------------------ MODULE Profile ------------------------------
(***************************************************************************)
(* A profile and its installer (install.sh): the runtime the hooks import, *)
(* the hook scripts, their registrations in settings.json and the chain    *)
(* key, while installs and uninstalls follow each other and any of them is *)
(* killed, and while records are made under the key that attest/keys.py    *)
(* finds.                                                                  *)
(*                                                                         *)
(* One installer runs at a time.  A key is the number of the install that  *)
(* generated it; 0 is no key.                                              *)
(***************************************************************************)
EXTENDS Integers, FiniteSets

CONSTANTS
  Hooks,        \* the events that have a hook
  KeychainKey,  \* what the keychain may hold
  EnvKey,       \* what $STOP_GUESSING_CHAIN_KEY may hold
  MaxInstalls   \* bound: runs of the installer

VARIABLES
  runtime,     \* stop-guessing/runtime: the install that built it, 0 if absent
  rollback,    \* stop-guessing/runtime.prev, likewise
  scripts,     \* hooks/coc_*.sh: "none", "torn" or "whole"
  registered,  \* the events settings.json runs our scripts on
  parses,      \* settings.json is valid JSON
  keyfile,     \* stop-guessing/chain.key: is it there, and what is in it
  others,      \* the keys of the other providers
  chained,     \* the keys the ledger's records are under
  served,      \* the key a running recorder daemon has, 0 if none runs
  installer,   \* where the installer is
  left,        \* the scripts it has yet to write
  installs,    \* runs of the installer so far
  cut          \* ghost: one was killed in the swap or at the scripts, and none
               \* has come through since

installed == <<runtime, rollback, scripts, registered, keyfile>>
keys == <<others, chained, served>>
profilevars == <<installed, parses, keys, installer, left, installs, cut>>

Init ==
  /\ runtime = 0 /\ rollback = 0
  /\ scripts = [h \in Hooks |-> "none"] /\ registered = {} /\ parses = TRUE
  /\ keyfile = [there |-> FALSE, key |-> 0]
  /\ others = [keychain |-> 0, env |-> 0]
  /\ chained = {} /\ served = 0 /\ installer = "idle" /\ left = {} /\ installs = 0
  /\ cut = FALSE

Step(from, to) == installer = from /\ installer' = to

----------------------------------------------------------------------------
(* install_profile() *)

\* The runtime is built beside the live one, and imported before it replaces it
Build ==
  /\ Step("idle", "built") /\ installs < MaxInstalls /\ installs' = installs + 1
  /\ UNCHANGED <<installed, parses, keys, left, cut>>

Unhealthy ==
  /\ Step("built", "idle")
  /\ UNCHANGED <<installed, parses, keys, left, installs, cut>>

\* The runtime that is there is kept, in place of the one kept before it
DropRollback ==
  /\ Step("built", "dropped") /\ runtime # 0 /\ rollback' = 0
  /\ UNCHANGED <<runtime, scripts, registered, keyfile, parses, keys, left, installs, cut>>

MoveOldAway ==  \* mutant: the old runtime is removed, not kept
  /\ Step("dropped", "swap") /\ runtime' = 0
  /\ UNCHANGED <<rollback, scripts, registered, keyfile, parses, keys, left, installs, cut>>

MoveOld ==
  /\ Step("dropped", "swap") /\ rollback' = runtime /\ runtime' = 0
  /\ UNCHANGED <<scripts, registered, keyfile, parses, keys, left, installs, cut>>

MoveNew ==
  /\ \/ Step("swap", "scripts")
     \/ Step("built", "scripts") /\ runtime = 0
  /\ runtime' = installs /\ left' = Hooks
  /\ UNCHANGED <<rollback, scripts, registered, keyfile, parses, keys, installs, cut>>

\* Each script is truncated, then written
Truncate(h) ==
  /\ Step("scripts", "scripts") /\ h \in left /\ scripts[h] # "torn"
  /\ scripts' = [scripts EXCEPT ![h] = "torn"]
  /\ UNCHANGED <<runtime, rollback, registered, keyfile, parses, keys, left, installs, cut>>

WriteScript(h) ==
  /\ Step("scripts", "scripts") /\ h \in left /\ left' = left \ {h}
  /\ scripts[h] = "torn" /\ scripts' = [scripts EXCEPT ![h] = "whole"]
  /\ UNCHANGED <<runtime, rollback, registered, keyfile, parses, keys, installs, cut>>

ScriptsWritten ==
  /\ Step("scripts", "register") /\ left = {} /\ cut' = FALSE
  /\ UNCHANGED <<installed, parses, keys, left, installs>>

\* settings.json is replaced whole, and left alone when it does not parse
Register ==
  /\ Step("register", "key") /\ parses /\ registered' = Hooks
  /\ UNCHANGED <<runtime, rollback, scripts, keyfile, parses, keys, left, installs, cut>>

\* install_recorder(): a key is generated unless the file is there
Generate ==
  /\ Step("key", "fill") /\ ~keyfile.there
  /\ keyfile' = [there |-> TRUE, key |-> 0]
  /\ UNCHANGED <<runtime, rollback, scripts, registered, parses, keys, left, installs, cut>>

FillKey ==
  /\ Step("fill", "idle") /\ keyfile' = [there |-> TRUE, key |-> installs]
  /\ UNCHANGED <<runtime, rollback, scripts, registered, parses, keys, left, installs, cut>>

HasKey ==
  /\ Step("key", "idle") /\ keyfile.there
  /\ UNCHANGED <<installed, parses, keys, left, installs, cut>>

----------------------------------------------------------------------------
(* uninstall_profile(): the key, the ledger and runtime.prev stay *)

Unregister ==
  /\ Step("idle", "remove") /\ parses /\ installs < MaxInstalls
  /\ installs' = installs + 1 /\ registered' = {}
  /\ UNCHANGED <<runtime, rollback, scripts, keyfile, parses, keys, left, cut>>

RemoveScripts ==
  /\ Step("remove", "removed") /\ scripts' = [h \in Hooks |-> "none"]
  /\ UNCHANGED <<runtime, rollback, registered, keyfile, parses, keys, left, installs, cut>>

RemoveAll ==  \* mutant: the whole directory goes, the key with it
  /\ Step("removed", "idle") /\ runtime' = 0 /\ keyfile' = [there |-> FALSE, key |-> 0]
  /\ UNCHANGED <<rollback, scripts, registered, parses, keys, left, installs, cut>>

RemoveRuntime ==
  /\ Step("removed", "idle") /\ runtime' = 0
  /\ UNCHANGED <<rollback, scripts, registered, keyfile, parses, keys, left, installs, cut>>

\* The installer is killed, or stops at a command that fails (set -e)
Stop ==
  /\ installer # "idle" /\ installer' = "idle"
  /\ cut' = (cut \/ installer \in {"swap", "scripts"})
  /\ UNCHANGED <<installed, parses, keys, left, installs>>

\* Somebody breaks or mends settings.json
Reformat ==
  /\ parses' = ~parses
  /\ UNCHANGED <<installed, keys, installer, left, installs, cut>>

----------------------------------------------------------------------------
(* discover(), and what the sink makes of the key *)

\* What each provider yields; a keyfile that is absent or empty yields nothing
FromKeychain == {others.keychain} \ {0}
FromKeyfile == IF keyfile.there THEN {keyfile.key} \ {0} ELSE {}
FromEnv == {others.env} \ {0}

\* The keychain's key, else the installed one, else the environment's
Discovered ==
  IF FromKeychain # {} THEN FromKeychain
  ELSE IF FromKeyfile # {} THEN FromKeyfile
  ELSE FromEnv

\* keyid_of_ledger(), and the provider that holds the key of that id: what the
\* commands that read an existing ledger ask for
KeyIdOfLedger == chained
Preferred ==
  LET found == FromKeychain \cup FromKeyfile \cup FromEnv
  IN  IF KeyIdOfLedger \cap found # {} THEN KeyIdOfLedger \cap found ELSE Discovered

\* A keyed ledger takes no other key, and no record without one
Accepts(found) == chained \subseteq found

\* A hook records with the key it finds, when no daemon answers it
Record ==
  /\ Accepts(Discovered)
  /\ chained' = Discovered
  /\ UNCHANGED <<installed, parses, others, served, installer, left, installs, cut>>

\* `record emit --append`, and `prove`, write under the ledger's own key
Emit ==
  /\ Preferred # {} /\ Accepts(Preferred)
  /\ chained' = Preferred
  /\ UNCHANGED <<installed, parses, others, served, installer, left, installs, cut>>

\* The daemon keeps the key it found at its start, the keyfile's when the plist
\* names it with --keyfile, and will not serve without one
Serve ==
  /\ served = 0 /\ served' \in Discovered \cup FromKeyfile
  /\ UNCHANGED <<installed, parses, others, chained, installer, left, installs, cut>>

RecordServed ==
  /\ served # 0 /\ Accepts({served})
  /\ chained' = {served}
  /\ UNCHANGED <<installed, parses, others, served, installer, left, installs, cut>>

Retire ==
  /\ served # 0 /\ served' = 0
  /\ UNCHANGED <<installed, parses, others, chained, installer, left, installs, cut>>

\* The operator puts a key into another provider, or takes it away
Provide ==
  /\ others' \in [keychain : {0, KeychainKey}, env : {0, EnvKey}]
  /\ UNCHANGED <<installed, parses, chained, served, installer, left, installs, cut>>

Next ==
  \/ Build \/ Unhealthy \/ DropRollback \/ MoveOld \/ MoveNew
  \/ \E h \in Hooks : Truncate(h) \/ WriteScript(h)
  \/ ScriptsWritten \/ Register \/ Generate \/ FillKey \/ HasKey
  \/ Unregister \/ RemoveScripts \/ RemoveRuntime
  \/ Stop \/ Reformat \/ Record \/ Emit \/ Serve \/ RecordServed \/ Retire
  \/ Provide

Spec == Init /\ [][Next]_profilevars

----------------------------------------------------------------------------
(* Properties *)

\* A registered hook finds its script whole and a runtime to import, however
\* installs and uninstalls follow each other and wherever they are killed, but
\* while one swaps the runtime or writes the scripts, and after one was killed
\* there until another comes through; even then there is the runtime, or the one
\* it was to replace, and some script (install.sh:224-227, #17, #69)
RegisteredRuns ==
  registered # {} =>
    /\ installer \notin {"swap", "scripts"} /\ ~cut =>
         runtime # 0 /\ \A h \in registered : scripts[h] = "whole"
    /\ runtime # 0 \/ rollback # 0
    /\ \A h \in registered : scripts[h] # "none"

\* The generated key that records are under is never generated over, emptied or
\* removed, by any number of installs, uninstalls and kills, and whatever other
\* keys come and go the commands find it: without it the ledger could not be
\* verified (keys.py:185-190, install.sh:391)
LedgerStaysVerifiable ==
  \A k \in chained : k \in 1..MaxInstalls => keyfile.key = k /\ Preferred = {k}
=============================================================================

--------------------------- MODULE ProfileProofs ---------------------------
(***************************************************************************)
(* What is registered can run unless an installer is, or was killed,       *)
(* replacing it, and no killed one leaves a ledger that cannot be          *)
(* verified: proved for any hooks and any number of installs, uninstalls   *)
(* and records.                                                            *)
(***************************************************************************)
EXTENDS Profile, TLAPS

\* The bound is a number, and a key that comes from elsewhere is no generated one.
KeysDiffer ==
  /\ MaxInstalls \in Nat
  /\ KeychainKey \notin 0..MaxInstalls /\ EnvKey \notin 0..MaxInstalls

Places ==
  {"idle", "built", "dropped", "swap", "scripts", "register", "key", "fill",
   "remove", "removed"}

\* What an installer has left behind it at each of its places: a runtime before any
\* script is registered, every script whole before any is, and no registration
\* before scripts and runtime are removed.
InstallInv ==
  /\ installer \in Places /\ installs \in Nat /\ runtime \in Nat /\ rollback \in Nat
  /\ scripts \in [Hooks -> {"none", "torn", "whole"}]
  /\ registered \subseteq Hooks /\ left \subseteq Hooks /\ cut \in BOOLEAN
  /\ installer # "idle" => installs > 0
  /\ installer = "dropped" => runtime # 0
  /\ installer = "swap" => rollback # 0
  /\ installer \in {"scripts", "register", "key", "fill"} => runtime # 0
  /\ installer = "scripts" => \A h \in Hooks \ left : scripts[h] = "whole"
  /\ installer \in {"register", "key"} => \A h \in Hooks : scripts[h] = "whole"
  /\ installer \in {"remove", "removed"} => registered = {}
  /\ RegisteredRuns

\* The ledger is under one key at most, and a generated one that it or the daemon
\* uses is in the keyfile.
KeyInv ==
  /\ installs \in 0..MaxInstalls
  /\ installer # "idle" => installs > 0
  /\ keyfile.key \in 0..MaxInstalls /\ (keyfile.key # 0 => keyfile.there)
  /\ others.keychain \in {0, KeychainKey} /\ others.env \in {0, EnvKey}
  /\ installer = "fill" => keyfile.key = 0
  /\ \A k, l \in chained : k = l
  /\ \A k \in chained \cup {served} : k \in 1..MaxInstalls => keyfile.key = k
-----------------------------------------------------------------------------
\* An install keeps to that order wherever it stops, and an uninstall to its own.
LEMMA InstallInvHolds == Spec => []InstallInv
<1>1. Init => InstallInv
  <2> SUFFICES ASSUME Init PROVE InstallInv
    OBVIOUS
  <2>1. RegisteredRuns
    BY DEF Init, RegisteredRuns
  <2>2. installer = "idle" /\ installer \in Places
    BY DEF Init, Places
  <2> QED BY <2>1, <2>2 DEF Init, InstallInv
<1>2. InstallInv /\ [Next]_profilevars => InstallInv'
  <2> SUFFICES ASSUME InstallInv, [Next]_profilevars PROVE InstallInv'
    OBVIOUS
  <2> USE DEF InstallInv, Places, RegisteredRuns, installed
  <2>1. CASE Build
    BY <2>1 DEF Build, Step
  <2>2. CASE Unhealthy
    BY <2>2 DEF Unhealthy, Step
  <2>3. CASE DropRollback
    BY <2>3 DEF DropRollback, Step
  <2>4. CASE MoveOld
    BY <2>4 DEF MoveOld, Step
  <2>5. CASE MoveNew
    BY <2>5 DEF MoveNew, Step
  <2>6. ASSUME NEW h \in Hooks, Truncate(h) PROVE InstallInv'
    BY <2>6 DEF Truncate, Step
  <2>7. ASSUME NEW h \in Hooks, WriteScript(h) PROVE InstallInv'
    BY <2>7 DEF WriteScript, Step
  <2>8. CASE ScriptsWritten
    BY <2>8 DEF ScriptsWritten, Step
  <2>9. CASE Register
    BY <2>9 DEF Register, Step
  <2>10. CASE Generate
    BY <2>10 DEF Generate, Step
  <2>11. CASE FillKey
    BY <2>11 DEF FillKey, Step
  <2>12. CASE HasKey
    BY <2>12 DEF HasKey, Step
  <2>13. CASE Unregister
    BY <2>13 DEF Unregister, Step
  <2>14. CASE RemoveScripts
    BY <2>14 DEF RemoveScripts, Step
  <2>15. CASE RemoveRuntime
    BY <2>15 DEF RemoveRuntime, Step
  <2>16. CASE Stop
    BY <2>16 DEF Stop, Step
  <2>17. CASE Reformat
    BY <2>17 DEF Reformat, Step
  <2>18. CASE Record
    BY <2>18 DEF Record, Step
  <2>19. CASE Emit
    BY <2>19 DEF Emit, Step
  <2>20. CASE Serve
    BY <2>20 DEF Serve, Step
  <2>21. CASE RecordServed
    BY <2>21 DEF RecordServed, Step
  <2>22. CASE Retire
    BY <2>22 DEF Retire, Step
  <2>23. CASE Provide
    BY <2>23 DEF Provide, Step
  <2>24. CASE UNCHANGED profilevars
    BY <2>24 DEF profilevars
  <2> QED
    BY <2>1, <2>2, <2>3, <2>4, <2>5, <2>6, <2>7, <2>8, <2>9, <2>10, <2>11, <2>12, <2>13, <2>14, <2>15, <2>16, <2>17, <2>18, <2>19, <2>20, <2>21, <2>22, <2>23, <2>24 DEF Next
<1> QED BY <1>1, <1>2, PTL DEF Spec

\* Wherever installers and uninstallers are killed, a registered hook has its script
\* whole and a runtime to import, but while these are replaced and after a kill at
\* that, until the next install; and then the runtime or the one before it is there
\* (install_profile(), uninstall_profile()).
THEOREM AlwaysRegisteredRuns == Spec => []RegisteredRuns
BY InstallInvHolds, PTL DEF InstallInv

-----------------------------------------------------------------------------
\* A provider that yields a generated key is the keyfile.
LEMMA GeneratedFromFile ==
  ASSUME KeysDiffer, KeyInv, NEW k \in 1..MaxInstalls
  PROVE  /\ k \in FromKeychain \cup FromKeyfile \cup FromEnv <=> keyfile.key = k
         /\ k \in Discovered \cup Preferred => keyfile.key = k
<1>1. k \notin FromKeychain /\ k \notin FromEnv
  BY DEF KeysDiffer, KeyInv, FromKeychain, FromEnv
<1>2. k \in FromKeyfile <=> keyfile.key = k
  BY DEF KeyInv, FromKeyfile
<1>3. k \in Discovered => k \in FromKeyfile
  BY <1>1 DEF Discovered
<1>4. k \in Preferred => k \in FromKeyfile
  BY <1>1, <1>3 DEF Preferred
<1> QED BY <1>1, <1>2, <1>3, <1>4

\* What is found is one key at most.
LEMMA OneFound ==
  ASSUME KeyInv
  PROVE  /\ \A k, l \in Discovered : k = l
         /\ \A k, l \in Preferred : k = l
<1>1. \A k, l \in Discovered : k = l
  BY DEF Discovered, FromKeychain, FromKeyfile, FromEnv
<1>2. \A k, l \in Preferred : k = l
  BY <1>1 DEF Preferred, KeyIdOfLedger, KeyInv
<1> QED BY <1>1, <1>2

\* One key, and a generated one that is in use is in its file.
LEMMA KeyInvHolds == KeysDiffer => (Spec => []KeyInv)
<1> SUFFICES ASSUME KeysDiffer PROVE Spec => []KeyInv
  OBVIOUS
<1>1. Init => KeyInv
  BY DEF Init, KeyInv, KeysDiffer
<1>2. KeyInv /\ [Next]_profilevars => KeyInv'
  <2> SUFFICES ASSUME KeyInv, [Next]_profilevars PROVE KeyInv'
    OBVIOUS
  <2>0. /\ \A k \in 1..MaxInstalls : k \in Discovered \cup Preferred => keyfile.key = k
        /\ \A k, l \in Discovered : k = l
        /\ \A k, l \in Preferred : k = l
    BY GeneratedFromFile, OneFound
  <2> USE DEF KeyInv, KeysDiffer, installed, keys
  <2>1. CASE Build
    BY <2>1 DEF Build, Step
  <2>2. CASE Unhealthy
    BY <2>2 DEF Unhealthy, Step
  <2>3. CASE DropRollback
    BY <2>3 DEF DropRollback, Step
  <2>4. CASE MoveOld
    BY <2>4 DEF MoveOld, Step
  <2>5. CASE MoveNew
    BY <2>5 DEF MoveNew, Step
  <2>6. ASSUME NEW h \in Hooks, Truncate(h) PROVE KeyInv'
    BY <2>6 DEF Truncate, Step
  <2>7. ASSUME NEW h \in Hooks, WriteScript(h) PROVE KeyInv'
    BY <2>7 DEF WriteScript, Step
  <2>8. CASE ScriptsWritten
    BY <2>8 DEF ScriptsWritten, Step
  <2>9. CASE Register
    BY <2>9 DEF Register, Step
  <2>10. CASE Generate
    BY <2>10 DEF Generate, Step
  <2>11. CASE FillKey
    BY <2>11 DEF FillKey, Step
  <2>12. CASE HasKey
    BY <2>12 DEF HasKey, Step
  <2>13. CASE Unregister
    BY <2>13 DEF Unregister, Step
  <2>14. CASE RemoveScripts
    BY <2>14 DEF RemoveScripts, Step
  <2>15. CASE RemoveRuntime
    BY <2>15 DEF RemoveRuntime, Step
  <2>16. CASE Stop
    BY <2>16 DEF Stop, Step
  <2>17. CASE Reformat
    BY <2>17 DEF Reformat, Step
  <2>18. CASE Record
    BY <2>0, <2>18 DEF Record
  <2>19. CASE Emit
    BY <2>0, <2>19 DEF Emit
  <2>20. CASE Serve
    <3>1. PICK k \in Discovered \cup FromKeyfile : served' = k
      BY <2>20 DEF Serve
    <3>2. k \in 1..MaxInstalls => keyfile.key = k
      BY <2>0, <3>1 DEF FromKeyfile
    <3> QED BY <2>20, <3>1, <3>2 DEF Serve
  <2>21. CASE RecordServed
    BY <2>21 DEF RecordServed, Step
  <2>22. CASE Retire
    BY <2>22 DEF Retire, Step
  <2>23. CASE Provide
    BY <2>23 DEF Provide, Step
  <2>24. CASE UNCHANGED profilevars
    BY <2>24 DEF profilevars
  <2> QED
    BY <2>1, <2>2, <2>3, <2>4, <2>5, <2>6, <2>7, <2>8, <2>9, <2>10, <2>11, <2>12, <2>13, <2>14, <2>15, <2>16, <2>17, <2>18, <2>19, <2>20, <2>21, <2>22, <2>23, <2>24 DEF Next
<1> QED BY <1>1, <1>2, PTL DEF Spec

\* A generated key that the ledger's records are under is never lost and is the one
\* the commands find, however installs, uninstalls, kills, records and the other
\* providers' keys follow each other (install_recorder(), discover(), preferring()).
THEOREM LedgerAlwaysVerifiable == KeysDiffer => (Spec => []LedgerStaysVerifiable)
<1> SUFFICES ASSUME KeysDiffer PROVE Spec => []LedgerStaysVerifiable
  OBVIOUS
<1>1. KeyInv => LedgerStaysVerifiable
  <2> SUFFICES ASSUME KeyInv, NEW k \in chained, k \in 1..MaxInstalls
               PROVE  keyfile.key = k /\ Preferred = {k}
    BY DEF LedgerStaysVerifiable
  <2>1. keyfile.key = k /\ chained = {k}
    BY DEF KeyInv
  <2>2. k \in FromKeychain \cup FromKeyfile \cup FromEnv
    BY <2>1, GeneratedFromFile
  <2>3. Preferred = {k}
    BY <2>1, <2>2 DEF Preferred, KeyIdOfLedger
  <2> QED BY <2>1, <2>3
<1>2. Spec => []KeyInv
  BY KeyInvHolds
<1> QED BY <1>1, <1>2, PTL
=============================================================================

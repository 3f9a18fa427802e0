----------------------------- MODULE MCCustody ------------------------------
(* Custody with small constants for TLC. *)
EXTENDS Custody, TLC

CONSTANTS csa, evidence, readme, t1, t2

\* A working paper, the ledger of a profile kept among such papers, and a file
\* with no label.
MCLabelling ==
  csa :> {"confidential", "csa-material"}
    @@ evidence :> {"restricted", "credential", "csa-material"}
    @@ readme :> {"public"}

File(name, p)       == [name |-> name, paths |-> {p}, egress |-> FALSE]
Command(ps, egress) == [name |-> "Bash", paths |-> ps, egress |-> egress]

\* A classified read, a write that inherits and one that is forbidden, a command
\* that opens two classified files, and one that sends data out with or without
\* naming a classified file.
MCRequests ==
  {File("Read", csa), File("Write", readme), File("Write", evidence),
   Command({csa, evidence}, FALSE), Command({}, TRUE), Command({csa}, TRUE)}

\* The shipped postures as installed, and steer with its prompts and a low limit
\* with a hook_post that records
MCSettings ==
  {[posture |-> p, limit |-> 2, bypass |-> FALSE, imported |-> p = "steer"] : p \in Postures}
    \cup {[posture |-> "steer", limit |-> 1, bypass |-> b, imported |-> ~ b] : b \in BOOLEAN}
    \cup {[posture |-> "observe", limit |-> 2, bypass |-> FALSE, imported |-> TRUE]}

CallSymmetry == Permutations(Calls)
=============================================================================

----------------------------- MODULE ProofStore -----------------------------
(***************************************************************************)
(* What the proof ledger and claims.yaml promise to those who read them    *)
(* through `claims check`: passing proofs accumulate under growing         *)
(* references, and a claim's live proof is one that passed for that claim. *)
(* Which proof is live may change at any time, as the code, the claims and *)
(* the citations do; a claim that is proven has a live one.                *)
(***************************************************************************)
EXTENDS Naturals

CONSTANT Claims

VARIABLES
  passes,  \* the passing proof.run records: the claim, by reference
  live,    \* the live proof of each claim, 0 for none
  proven   \* the claims `claims check` calls proven

storevars == <<passes, live, proven>>

Sound(c, ref) == ref = 0 \/ (ref \in DOMAIN passes /\ passes[ref] = c)

StoreInit ==
  /\ passes = [r \in {} |-> 0]
  /\ live = [c \in Claims |-> 0]
  /\ proven = {}

\* A run of claim c's procedure passes and is recorded
Pass(c, ref) ==
  /\ ref > 0 /\ \A r \in DOMAIN passes : ref > r
  /\ passes' = [r \in DOMAIN passes \cup {ref} |-> IF r = ref THEN c ELSE passes[r]]
  /\ UNCHANGED <<live, proven>>

\* What the claims, the code and the citations make of the proofs changes, for
\* one claim or for many
Review ==
  /\ DOMAIN live' = Claims
  /\ \A c \in Claims : Sound(c, live'[c])
  /\ proven' \subseteq {c \in Claims : live'[c] # 0}
  /\ UNCHANGED passes

\* The case of one claim, with the live proof and the verdict it now has
See(c, ref, is) ==
  /\ Sound(c, ref) /\ (is => ref # 0)
  /\ live' = [live EXCEPT ![c] = ref]
  /\ proven' = IF is THEN proven \cup {c} ELSE proven \ {c}
  /\ UNCHANGED passes

StoreNext ==
  \/ \E c \in Claims : \E ref \in DOMAIN passes' : Pass(c, ref)
  \/ Review

StoreSpec == StoreInit /\ [][StoreNext]_storevars
=============================================================================

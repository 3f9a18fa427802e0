------------------------------- MODULE Labels -------------------------------
(***************************************************************************)
(* The label lattice of taint/labels.py.  A label set holds sensitivities, *)
(* which are ordered, and flags, which are not; whatever is no sensitivity *)
(* is a flag.  Everything here is a pure operator.                         *)
(***************************************************************************)
EXTENDS Naturals, FiniteSets

CONSTANT Flags      \* "pii", "credential", "csa-material", "regulated"

SENSITIVITY == {"public", "internal", "confidential", "restricted"}

RANK == [public |-> 0, internal |-> 1, confidential |-> 2, restricted |-> 3]

ASSUME FlagsAssumption == IsFiniteSet(Flags) /\ Flags \cap SENSITIVITY = {}

Label     == SENSITIVITY \cup Flags
LabelSets == SUBSET Label

FlagsOf(ls) == ls \ SENSITIVITY

\* sensitivity_of(): the highest present, or "public" when none is.
SensitivityOf(ls) ==
  IF ls \cap SENSITIVITY = {} THEN "public"
  ELSE CHOOSE s \in ls \cap SENSITIVITY :
         \A r \in ls \cap SENSITIVITY : RANK[r] <= RANK[s]

\* join(): the highest sensitivity, plus the union of all flags.
Join(sets) == {SensitivityOf(UNION sets)} \cup FlagsOf(UNION sets)

Dominates(a, b) ==
  /\ RANK[SensitivityOf(a)] >= RANK[SensitivityOf(b)]
  /\ FlagsOf(b) \subseteq FlagsOf(a)

IsClassified(ls) ==
  RANK[SensitivityOf(ls)] >= RANK["confidential"] \/ FlagsOf(ls) # {}
=============================================================================

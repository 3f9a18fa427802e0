--------------------------- MODULE MCCustodyLedger --------------------------
(* CustodyLedger with small constants for TLC. *)
EXTENDS CustodyLedger, TLC

CONSTANTS w1, w2, k1, k2, e1, e2

WriterSymmetry == Permutations({w1, w2})
KeySymmetry == Permutations({k1, k2})
=============================================================================

----------------------------- MODULE MCSegments -----------------------------
(* Segments with small constants for TLC. *)
EXTENDS Segments, TLC

CONSTANTS w1, w2

WriterSymmetry == Permutations({w1, w2})
=============================================================================

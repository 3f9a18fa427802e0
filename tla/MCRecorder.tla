----------------------------- MODULE MCRecorder -----------------------------
(* Recorder with small constants for TLC. *)
EXTENDS Recorder, TLC

CONSTANTS c1, c2, d1, d2, d3

ClientSymmetry == Permutations({c1, c2})
=============================================================================

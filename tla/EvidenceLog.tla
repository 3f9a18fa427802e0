---------------------------- MODULE EvidenceLog ----------------------------
(***************************************************************************)
(* What the custody ledger promises whoever records to it: a log that only *)
(* grows, from whose promised prefix nothing is ever taken, and that once  *)
(* damaged accepts nothing more.                                           *)
(***************************************************************************)
EXTENDS Naturals, Sequences

CONSTANT Events

VARIABLES
  log,     \* the events that can be read back
  kept,    \* how many of them, from the first, have been promised
  stuck    \* the log is damaged and refuses to grow

vars == <<log, kept, stuck>>

Init == log = << >> /\ kept = 0 /\ stuck = FALSE

\* An event becomes readable.
Record ==
  /\ ~ stuck
  /\ \E ev \in Events : log' = Append(log, ev)
  /\ UNCHANGED <<kept, stuck>>

\* Its caller is told so.
Promise ==
  /\ kept' \in (kept + 1) .. Len(log)
  /\ UNCHANGED <<log, stuck>>

\* A crash takes events nobody was promised, and may leave damage behind.
Crash ==
  /\ \E n \in kept .. Len(log) : log' = SubSeq(log, 1, n)
  /\ stuck' \in {stuck, TRUE}
  /\ UNCHANGED kept

Next == Record \/ Promise \/ Crash

Spec == Init /\ [][Next]_vars
=============================================================================

----------------------------- MODULE HashChain -----------------------------
(***************************************************************************)
(* The tamper-evident chain of ledger/chain.py: what append() builds and   *)
(* what verify() accepts.  Everything here is a pure operator.             *)
(*                                                                         *)
(* A digest stands for exactly what it digests (the hash is injective).    *)
(* prev_hash is part of what is hashed, so a digest unfolds to the list of *)
(* links it covers: hash_entry() is Append on that list, and GENESIS is    *)
(* the empty list.  `mac` is the key the digest was computed under, `key`  *)
(* the keyid the entry records (its hash_alg is a function of it: an entry *)
(* with a keyid is hmac-sha256, one without is sha256).                    *)
(***************************************************************************)
EXTENDS Naturals, Sequences

CONSTANTS
  Keys,     \* the chain keys that exist in the installation
  NoKey,    \* "no key supplied" / "entry not keyed"
  Events    \* what callers record

ASSUME ChainAssumption == NoKey \notin Keys

KeyIds == Keys \cup {NoKey}

Link   == [seq : Nat, key : KeyIds, event : Events, mac : KeyIds]
Digest == Seq(Link)
Entry  == [seq : Nat, prev : Digest, key : KeyIds, event : Events, hash : Digest]

GENESIS == << >>

\* hash_entry(): the digest covers every field of the entry but the hash.
HashEntry(e, k) ==
  Append(e.prev, [seq |-> e.seq, key |-> e.key, event |-> e.event, mac |-> k])

\* head(): what the next entry must chain to.
HeadOf(log) == IF log = << >> THEN GENESIS ELSE log[Len(log)].hash

\* The entry append() puts at the end of `log`: seq, prev_hash, keyid and hash
\* are the chain's to choose, never the caller's.
Chained(log, ev, k) ==
  LET base == [seq |-> Len(log), prev |-> HeadOf(log), key |-> k, event |-> ev]
  IN  [seq |-> Len(log), prev |-> HeadOf(log), key |-> k, event |-> ev,
       hash |-> HashEntry(base, k)]

-----------------------------------------------------------------------------
(* verify(log, key) *)

Linked(log, i) ==
  /\ log[i].seq = i - 1
  /\ log[i].prev = IF i = 1 THEN GENESIS ELSE log[i - 1].hash

\* Mutant: verify() walks the links and recomputes no hash.
LinksOnly(e, k) == TRUE

\* Without the key a keyed entry's content is unverifiable and only its link
\* counts; with a key an unkeyed entry is a splice.
ContentHolds(e, k) ==
  IF e.key = NoKey
    THEN k = NoKey /\ e.hash = HashEntry(e, NoKey)
    ELSE k = NoKey \/ e.hash = HashEntry(e, k)

Holds(log, i, k) == Linked(log, i) /\ ContentHolds(log[i], k)

Intact(log, k) == \A i \in DOMAIN log : Holds(log, i, k)

\* broken_at is the first index that does not hold (verify() returns there).
BrokenAt(log, k, i) ==
  /\ i \in DOMAIN log
  /\ ~ Holds(log, i, k)
  /\ \A j \in 1 .. (i - 1) : Holds(log, j, k)

-----------------------------------------------------------------------------
\* A log as append() alone builds it under one key.
WellChained(log, k) ==
  \A i \in DOMAIN log :
     /\ Linked(log, i)
     /\ log[i].key = k
     /\ log[i].hash = HashEntry(log[i], k)
=============================================================================

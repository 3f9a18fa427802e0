------------------------------ MODULE MCClaims ------------------------------
(***************************************************************************)
(* Provers and editors of one claim, from one tidy state: the first        *)
(* text, every item asserted and wired, nothing proved yet.                *)
(***************************************************************************)
EXTENDS Claims

OneClaim == <<"CLAIM-01">>

MCInit ==
  /\ Init
  /\ \A c \in Claims : file[c].text = "t1" /\ file[c].scope = Items
  /\ tree = [procedure |-> [c \in Claims |-> "q1"], implementation |-> "v1",
             subject |-> "v1", wired |-> Hooks \cup Live]

MCSpec == MCInit /\ [][Next]_vars
=============================================================================

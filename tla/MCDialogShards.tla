--------------------------- MODULE MCDialogShards ---------------------------
(***************************************************************************)
(* An instance of DialogShards: one pair of users, 1 and 2, neither mapped *)
(* at the start; m1 goes one way and m2 the other; user 2 lists.           *)
(***************************************************************************)
EXTENDS DialogShards

CONSTANTS m1, m2, l1, r1

MCFrom == [a \in Requests |-> IF a = m1 THEN 1 ELSE 2]
MCTo   == [a \in Requests |-> IF a = m1 THEN 2 ELSE 1]
MCHash == [p \in {{1, 2}} |-> 0]
MCMap  == [u \in Users |-> None]
=============================================================================

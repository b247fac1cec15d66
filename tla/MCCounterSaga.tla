---------------------------- MODULE MCCounterSaga ----------------------------
(***************************************************************************)
(* Instances of CounterSaga: bob writes to alice and alice marks their     *)
(* dialog, s3 is served by a process without a database.  In the repair    *)
(* instance s2 goes the other way.                                         *)
(***************************************************************************)
EXTENDS CounterSaga, TLC

CONSTANTS alice, bob, s1, s2, s3, m1, m2

MCUsers   == {alice, bob}
MCDeltas  == {-1, 3}
MCFrom    == [s \in Sends |-> bob]
MCTo      == [s \in Sends |-> alice]
MCReader  == [m \in Marks |-> alice]
MCPartner == [m \in Marks |-> bob]

RepairFrom == [s \in Sends |-> IF s = s2 THEN alice ELSE bob]
RepairTo   == [s \in Sends |-> IF s = s2 THEN bob ELSE alice]

(* s1 and s2, like m1 and m2, differ in nothing but their name.            *)
MCSymmetry == Permutations({s1, s2}) \union Permutations({m1, m2})
=============================================================================

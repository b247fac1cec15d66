------------------------------ MODULE MCMembers ------------------------------
(***************************************************************************)
(* An instance of Members: ann is registered from the start, bob may       *)
(* register.  Calls are interchangeable, and so are replicas.              *)
(***************************************************************************)
EXTENDS Members, TLC

CONSTANTS ann, bob, c1, c2, c3, c4, r1, r2

MCSymmetry == Permutations(Calls) \union Permutations(Replicas)
=============================================================================

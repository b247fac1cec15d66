----------------------------- MODULE MCFeedPush -----------------------------
(***************************************************************************)
(* An instance of FeedPush: two backends, a user with two connections to   *)
(* the first of them, one of which may stop being read, and two events for *)
(* her, published by the first backend.  The second backend consumes too,  *)
(* and can only lose what it gets.                                         *)
(***************************************************************************)
EXTENDS FeedPush

CONSTANTS ann, x, y, c1, c2, e1, e2

MCUserOf    == [c \in Conns |-> ann]
MCBackendOf == [c \in Conns |-> x]
MCAddressee == [e \in Events |-> ann]
MCOrigin    == [e \in Events |-> x]
=============================================================================

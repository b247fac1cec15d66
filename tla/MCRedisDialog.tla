---------------------------- MODULE MCRedisDialog ----------------------------
(***************************************************************************)
(* An instance of RedisDialog: two messages one way, one the other way.    *)
(***************************************************************************)
EXTENDS RedisDialog

CONSTANTS a, b, m1, m2, m3

MCTo == [m \in Messages |-> IF m = m3 THEN b ELSE a]
=============================================================================

--------------------------- MODULE MCCounterQueue ---------------------------
(***************************************************************************)
(* An instance of CounterQueue: two updates of one key and one of another, *)
(* a queue of one and batches of two, so that the queue fills, a batch     *)
(* fills and a batch is flushed by the ticker, while other requests write  *)
(* the keys.                                                               *)
(***************************************************************************)
EXTENDS CounterQueue

CONSTANTS k1, k2, u1, u2, u3

MCDeltas == {-1, 3}

MCKeyOf == [u \in Updates |-> IF u = u3 THEN k2 ELSE k1]
=============================================================================

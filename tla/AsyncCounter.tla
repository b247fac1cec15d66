---------------------------- MODULE AsyncCounter ----------------------------
(***************************************************************************)
(* What an asynchronous increment promises, without channel, batch, loop   *)
(* or restarts (src/services/counter_service.go).                          *)
(*                                                                         *)
(* An update is new, may be accepted, and is settled once and for ever:    *)
(* counted, or abandoned.  A counter moves in the very step that counts    *)
(* one of its updates, or in the one step in which somebody else writes    *)
(* it; those writes are numbered, so that none comes for free.             *)
(***************************************************************************)
EXTENDS Integers

CONSTANTS Keys, Updates, KeyOf, ManualDeltas, RowCounts

VARIABLES
    fate,   \* fate[u]: "new", "accepted", "counted", "abandoned"
    count,  \* count[k]: the counter of key k
    writes  \* how often others have written a counter

asyncVars == <<fate, count, writes>>

Open(u) == fate[u] \in {"new", "accepted"}

Init ==
    /\ fate = [u \in Updates |-> "new"]
    /\ count = [k \in Keys |-> 0]
    /\ writes = 0

Accept(u) ==
    /\ fate[u] = "new"
    /\ fate' = [fate EXCEPT ![u] = "accepted"]
    /\ UNCHANGED <<count, writes>>

(* Accepted or not, an update counts once; the client library may send the *)
(* command again before anybody can tell.                                  *)
Count(u, times) ==
    /\ Open(u)
    /\ fate' = [fate EXCEPT ![u] = "counted"]
    /\ count' = [count EXCEPT ![KeyOf[u]] = @ + times]
    /\ UNCHANGED writes

(* Several updates are given up together when they wait in one batch, or   *)
(* in one process.                                                         *)
Abandon(S) ==
    /\ \A u \in S : Open(u)
    /\ fate' = [u \in Updates |-> IF u \in S THEN "abandoned" ELSE fate[u]]
    /\ UNCHANGED <<count, writes>>

(* Somebody else writes the key: a value of its own, or what it reads with *)
(* a delta added, never below zero.                                        *)
Store(k, value) ==
    /\ count' = [count EXCEPT ![k] = value]
    /\ writes' = writes + 1
    /\ UNCHANGED fate

Add(k, delta) ==
    Store(k, IF count[k] + delta > 0 THEN count[k] + delta ELSE 0)

Next ==
    \/ \E u \in Updates : Accept(u) \/ \E times \in 1..2 : Count(u, times)
    \/ \E S \in SUBSET Updates : Abandon(S)
    \/ \E k \in Keys, value \in RowCounts \union {0} : Store(k, value)
    \/ \E k \in Keys, delta \in ManualDeltas, times \in 0..2 : Add(k, times * delta)

Spec == Init /\ [][Next]_asyncVars
=============================================================================

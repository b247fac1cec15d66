----------------------------- MODULE UnreadBadge -----------------------------
(***************************************************************************)
(* What the unread counter promises, without sagas, stores or failures     *)
(* (src/services/counter_saga_service.go).                                 *)
(*                                                                         *)
(* A message is new, waits to be read, and is settled, once and in this    *)
(* order.  The badge of a user moves in one step with the messages that    *)
(* begin or cease to wait, until the user falls into doubt; then it shows  *)
(* anything, and only a repair, which sets it to the number of messages    *)
(* that wait, ends the doubt.                                              *)
(***************************************************************************)
EXTENDS Integers, FiniteSets

CONSTANTS Users, Messages, To

VARIABLES
    phase,     \* phase[s] of each message: "new", "waiting", "settled"
    badge,     \* badge[u]: the number user u is shown
    doubtful   \* the users whose badge cannot be trusted

badgeVars == <<phase, badge, doubtful>>

Waiting(u) == {s \in Messages : To[s] = u /\ phase[s] = "waiting"}

Init ==
    /\ phase = [s \in Messages |-> "new"]
    /\ badge = [u \in Users |-> 0]
    /\ doubtful = {}

Doubt(u) ==
    /\ doubtful' = doubtful \union {u}
    /\ badge' \in [Users -> Nat]
    /\ \A v \in Users \ {u} : badge'[v] = badge[v]

(* The badge follows, or u falls into doubt.                               *)
Adjust(u, delta) ==
    \/ /\ badge' = [badge EXCEPT ![u] = @ + delta]
       /\ UNCHANGED doubtful
    \/ Doubt(u)

Arrive(s) ==
    /\ phase[s] = "new"
    /\ phase' = [phase EXCEPT ![s] = "waiting"]
    /\ Adjust(To[s], 1)

(* A message that fails before it was counted never waits.                 *)
Decline(s) ==
    /\ phase[s] = "new"
    /\ phase' = [phase EXCEPT ![s] = "settled"]
    /\ Adjust(To[s], 0)

Settle(u, S) ==
    /\ S \subseteq Waiting(u)
    /\ phase' = [s \in Messages |-> IF s \in S THEN "settled" ELSE phase[s]]
    /\ Adjust(u, -Cardinality(S))

Repair(u) ==
    /\ badge' = [badge EXCEPT ![u] = Cardinality(Waiting(u))]
    /\ doubtful' = doubtful \ {u}
    /\ UNCHANGED phase

Next ==
    \/ \E s \in Messages : Arrive(s) \/ Decline(s)
    \/ \E u \in Users, S \in SUBSET Messages : Settle(u, S)
    \/ \E u \in Users : Repair(u)

Spec == Init /\ [][Next]_badgeVars
=============================================================================

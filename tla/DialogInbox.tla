----------------------------- MODULE DialogInbox -----------------------------
(***************************************************************************)
(* What RedisDialogService promises of one dialog, without keys and TTLs   *)
(* (src/services/redis_dialog_service.go).                                 *)
(*                                                                         *)
(* Each of the two users has messages that wait and a badge that counts    *)
(* them.  They are read all at once, and they lapse with their badge, all  *)
(* at once.  Only a message that is sent again, or half of the dialog lost *)
(* in a store that is full, leaves a user in doubt, until it next reads.   *)
(***************************************************************************)
EXTENDS Integers

CONSTANTS Parties, Messages, To

VARIABLES
    phase,     \* phase[m]: "new", "sent" (and may be sent again), "over"
    waiting,   \* the messages nobody has read
    badge,     \* badge[u]: the number user u is shown
    doubtful   \* the users whose badge cannot be trusted

inboxVars == <<phase, waiting, badge, doubtful>>

Empty == [u \in Parties |-> 0]

Init ==
    /\ phase = [m \in Messages |-> "new"]
    /\ waiting = {}
    /\ badge = Empty
    /\ doubtful = {}

Put(m) ==
    /\ waiting' = waiting \union {m}
    /\ badge' = [badge EXCEPT ![To[m]] = @ + 1]

Deliver(m) ==
    /\ phase[m] = "new"
    /\ m \notin waiting
    /\ \E next \in {"sent", "over"} : phase' = [phase EXCEPT ![m] = next]
    /\ Put(m)
    /\ UNCHANGED doubtful

(* Sent again before it was read, a message is counted twice; after it was *)
(* read, or has lapsed, it is a message like a new one.                    *)
DeliverAgain(m) ==
    /\ phase[m] = "sent"
    /\ phase' = [phase EXCEPT ![m] = "over"]
    /\ Put(m)
    /\ doubtful' = IF m \in waiting THEN doubtful \union {To[m]} ELSE doubtful

GiveUp(m) ==
    /\ phase[m] \in {"new", "sent"}
    /\ phase' = [phase EXCEPT ![m] = "over"]
    /\ UNCHANGED <<waiting, badge, doubtful>>

Read(u) ==
    /\ waiting' = {m \in waiting : To[m] # u}
    /\ badge' = [badge EXCEPT ![u] = 0]
    /\ doubtful' = doubtful \ {u}
    /\ UNCHANGED phase

Lapse ==
    /\ waiting' = {}
    /\ badge' = Empty
    /\ UNCHANGED <<phase, doubtful>>

(* The messages are lost and the badges stay, or the other way round.      *)
LoseHalf ==
    /\ \/ waiting' = {} /\ UNCHANGED badge
       \/ badge' = Empty /\ UNCHANGED waiting
    /\ doubtful' = doubtful \union {u \in Parties : \E m \in waiting : To[m] = u}
    /\ UNCHANGED phase

Next ==
    \/ \E m \in Messages : Deliver(m) \/ DeliverAgain(m) \/ GiveUp(m)
    \/ \E u \in Parties : Read(u)
    \/ Lapse
    \/ LoseHalf

Spec == Init /\ [][Next]_inboxVars
=============================================================================

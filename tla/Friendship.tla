----------------------------- MODULE Friendship -----------------------------
(***************************************************************************)
(* What FriendService promises (src/services/friends.go), without rows,    *)
(* replicas or failing statements.  Users ask and approve; a friendship    *)
(* comes only from an approval that began, by the user who was asked,      *)
(* while the request stood.  Such an approval may still complete after     *)
(* the two have parted: this is as strong as the service is.               *)
(***************************************************************************)
CONSTANTS Users, Calls

VARIABLES
    asked,      \* <<u, v>>: u has asked v and the request stands
    friends,    \* the pairs of friends
    approving   \* <<c, u, v>>: call c of v is approving the request of u

abstractVars == <<asked, friends, approving>>

Init ==
    /\ asked = {}
    /\ friends = {}
    /\ approving = {}

Ask(u, v) ==
    /\ u # v
    /\ asked' = asked \union {<<u, v>>}
    /\ UNCHANGED <<friends, approving>>

BeginApproval(c, u, v) ==
    /\ <<u, v>> \in asked
    /\ approving' = approving \union {<<c, u, v>>}
    /\ UNCHANGED <<asked, friends>>

(* A second request of u to v, if there is one, stands.                    *)
Approve(c, u, v) ==
    /\ <<c, u, v>> \in approving
    /\ approving' = approving \ {<<c, u, v>>}
    /\ friends' = friends \union {{u, v}}
    /\ asked' \in {asked, asked \ {<<u, v>>}}

GiveUp(c, u, v) ==
    /\ <<c, u, v>> \in approving
    /\ approving' = approving \ {<<c, u, v>>}
    /\ UNCHANGED <<asked, friends>>

Part(u, v) ==
    /\ asked' = asked \ {<<u, v>>, <<v, u>>}
    /\ friends' = friends \ {{u, v}}
    /\ UNCHANGED approving

Next ==
    \E u, v \in Users :
        \/ Ask(u, v)
        \/ Part(u, v)
        \/ \E c \in Calls :
             BeginApproval(c, u, v) \/ Approve(c, u, v) \/ GiveUp(c, u, v)

Spec == Init /\ [][Next]_abstractVars
=============================================================================

------------------------------- MODULE Members -------------------------------
(***************************************************************************)
(* The backends' members: accounts and friends over one database.  The     *)
(* components share the table of users, the calls and the replicas; a      *)
(* replica replays what the master did in its order, so it shows both      *)
(* tables as they were at one moment.                                      *)
(***************************************************************************)
EXTENDS Friends

vars == <<accountVars, callVars, replicaUsers, mustEnd,
          friendVars, routeVars, replicaRows>>

TypeOK ==
    /\ users \subseteq Users /\ mapped \subseteq users
    /\ tokens \subseteq {c \in Calls : op[c] = "login" /\ who[c] \in users}
    /\ replicaUsers \in [Replicas -> SUBSET users]
    /\ op \in [Calls -> AccountOps \union FriendOps \union {"none"}]
    /\ who \in [Calls -> Users]
    /\ pc \in [Calls -> AccountSteps \union FriendSteps \union Outcome \union {"idle"}]
    /\ mustEnd \in [Calls -> SUBSET Calls]
    /\ hit \subseteq Calls
    /\ status \in [Calls -> Status]
    /\ replicaRows \in [Replicas -> SUBSET {d \in Calls : status[d] # "none"}]
    /\ peer \in [Calls -> Users]
    /\ target \in [Calls -> Calls]
    /\ mustSee \in [Calls -> SUBSET Calls]
    /\ revived \subseteq Calls

Init == AccountsInit /\ FriendsInit

AccountsNext ==
    /\ \E c \in Calls : AccountsStep(c)
    /\ UNCHANGED <<friendVars, routeVars, replicaRows>>

FriendsNext ==
    /\ \E c \in Calls : FriendsStep(c)
    /\ UNCHANGED <<accountVars, replicaUsers, mustEnd>>

CrashNext ==
    /\ \E c \in Calls : Crash(c)
    /\ UNCHANGED <<accountVars, replicaUsers, mustEnd,
                   friendVars, routeVars, replicaRows>>

CatchUp(r) ==
    /\ ReplicateUsers(r) /\ ReplicateRows(r)
    /\ UNCHANGED <<accountVars, callVars, mustEnd, friendVars, routeVars>>

Next ==
    \/ AccountsNext
    \/ FriendsNext
    \/ CrashNext
    \/ \E r \in Replicas : CatchUp(r)

Spec == Init /\ [][Next]_vars

-----------------------------------------------------------------------------
(* The rows as the friendships they stand for.                             *)
Asked == {<<who[d], peer[d]>> : d \in {e \in Calls : status[e] = "pending"}}

FriendPairs == {{who[d], peer[d]} : d \in {e \in Calls : status[e] = "approved"}}

Approving == {<<c, peer[c], who[c]>> : c \in {e \in Calls : pc[e] = "save"}}

Abstract == INSTANCE Friendship WITH
    asked <- Asked, friends <- FriendPairs, approving <- Approving

(* The table friends implements Friendship: whatever interleaves, fails or *)
(* lags, nobody becomes a friend but by an approval of the user who was    *)
(* asked that began while the request stood, and parting ends requests and *)
(* friendship both ways at once.                                           *)
ImplementsFriendship == Abstract!Spec
=============================================================================

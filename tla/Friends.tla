------------------------------- MODULE Friends -------------------------------
(***************************************************************************)
(* Friend requests and friendships (src/services/friends.go, with the      *)
(* handlers of src/api/handlers/friends.go), over the users of Accounts.   *)
(*                                                                         *)
(* A row of the table friends is identified by the call that inserted it,  *)
(* and goes from its user (who) to its friend (peer).  The table has no    *)
(* unique constraint on the pair.  GetFriends and GetPendingRequests       *)
(* select from "user" and friend, tables that do not exist: they fail, and *)
(* change nothing.                                                         *)
(***************************************************************************)
EXTENDS Accounts

VARIABLES
    status,       \* status[d]: of the row of call d, "none" before it exists
    replicaRows,  \* replicaRows[r]: the rows replica r shows
    peer,         \* peer[c]: the other user of call c
    target,       \* target[c]: the row an approval has read, or c itself
    mustSee,      \* history: the rows c could not miss, see RowsToSee
    revived       \* history: the deleted rows an approval has inserted again

friendVars == <<status, target, revived>>
routeVars  == <<peer, mustSee>>

FriendOps   == {"add", "approve", "unfriend"}
FriendSteps == {"pair", "row", "save"}
Status      == {"none", "pending", "approved", "deleted"}

Present(d) == status[d] \in {"pending", "approved"}

(* Mutant: only the direction of the caller is looked at.                  *)
SameDirection(c, d) == who[c] = who[d] /\ peer[c] = peer[d]

(* (user_id = u AND friend_id = v) OR (user_id = v AND friend_id = u)      *)
SamePair(c, d) == {who[c], peer[c]} = {who[d], peer[d]}

FriendsInit ==
    /\ status = [d \in Calls |-> "none"]
    /\ replicaRows = [r \in Replicas |-> {}]
    /\ peer = [c \in Calls |-> AnyUser]
    /\ target = [c \in Calls |-> c]
    /\ mustSee = [c \in Calls |-> {}]
    /\ revived = {}

-----------------------------------------------------------------------------
(* A call of u about v.  AddFriend refuses u = v; for the others there is  *)
(* no such row.  What the first statement does, it does with Begin.        *)
BeginWith(c, o, u, v, step) ==
    /\ u # v
    /\ Begin(c, o, u, step)
    /\ peer' = [peer EXCEPT ![c] = v]

(* The rows a new request of u to v cannot miss: those of the pair that    *)
(* every replica shows and the table still has.                            *)
RowsToSee(u, v) ==
    {d \in Calls : /\ Present(d) /\ {who[d], peer[d]} = {u, v}
                   /\ \A r \in Replicas : d \in replicaRows[r]}

(* Mutant: the result of the count is not looked at.                       *)
CountUsersOnly(c) ==
    /\ \E u, v \in Users :
         /\ BeginWith(c, "add", u, v, "pair") /\ Clean
         /\ mustSee' = [mustSee EXCEPT ![c] = RowsToSee(u, v)]
    /\ UNCHANGED <<friendVars, replicaRows>>

(* AddFriend counts the two users on a replica.                            *)
CountUsers(c) ==
    /\ \E u, v \in Users :
         /\ \/ /\ \E r \in Replicas :
                    BeginWith(c, "add", u, v,
                        IF {u, v} \subseteq replicaUsers[r] THEN "pair" ELSE "refused")
               /\ Clean
            \/ BeginWith(c, "add", u, v, "failed") /\ Hit(c)
         /\ mustSee' = [mustSee EXCEPT ![c] = RowsToSee(u, v)]
    /\ UNCHANGED <<friendVars, replicaRows>>

(* Then it looks for a row of the pair, perhaps on another replica; an     *)
(* error of that query is taken for no row.                                *)
CheckPair(c) ==
    /\ pc[c] = "pair"
    /\ \/ /\ \E r \in Replicas :
               GoTo(c, IF \E d \in replicaRows[r] : SamePair(c, d)
                       THEN "refused" ELSE "row")
          /\ Clean
       \/ GoTo(c, "row") /\ Hit(c)
    /\ UNCHANGED <<friendVars, replicaRows, routeVars>>

(* Mutant: the row is inserted as approved.                                *)
InsertApproved(c) ==
    /\ pc[c] = "row"
    /\ \E o \in DbOutcomes :
         /\ status' = IF o = "refused" THEN status
                      ELSE [status EXCEPT ![c] = "approved"]
         /\ GoTo(c, IF o = "ok" THEN "ok" ELSE "failed")
         /\ Statement(c, o)
    /\ UNCHANGED <<target, revived, replicaRows, routeVars>>

InsertRow(c) ==
    /\ pc[c] = "row"
    /\ \E o \in DbOutcomes :
         /\ status' = IF o = "refused" THEN status
                      ELSE [status EXCEPT ![c] = "pending"]
         /\ GoTo(c, IF o = "ok" THEN "ok" ELSE "failed")
         /\ Statement(c, o)
    /\ UNCHANGED <<target, revived, replicaRows, routeVars>>

(* ApproveFriend reads a pending request of v to the caller u, on the      *)
(* master.  Of several it reads the oldest; here it is any of them.        *)
FindRequest(c) ==
    /\ \E u, v \in Users :
         LET found == {d \in Calls : /\ status[d] = "pending"
                                     /\ who[d] = v /\ peer[d] = u}
         IN \/ /\ \E d \in found : target' = [target EXCEPT ![c] = d]
               /\ BeginWith(c, "approve", u, v, "save") /\ Clean
            \/ /\ found = {}
               /\ BeginWith(c, "approve", u, v, "refused") /\ Clean
               /\ UNCHANGED target
            \/ /\ BeginWith(c, "approve", u, v, "refused") /\ Hit(c)
               /\ UNCHANGED target
    /\ UNCHANGED <<status, revived, replicaRows, mustSee>>

(* Save updates the row by its id; when that matches no row it inserts the *)
(* one it has, under the same id.                                          *)
SaveApproved(c) ==
    LET d == target[c] IN
    /\ pc[c] = "save"
    /\ \E o \in DbOutcomes :
         /\ status' = IF o = "refused" THEN status
                      ELSE [status EXCEPT ![d] = "approved"]
         /\ revived' = IF o # "refused" /\ status[d] = "deleted"
                       THEN revived \union {d} ELSE revived
         /\ GoTo(c, IF o = "ok" THEN "ok" ELSE "failed")
         /\ Statement(c, o)
    /\ UNCHANGED <<target, replicaRows, routeVars>>

(* DeleteFriend: the rows of the pair, both ways, in one statement.        *)
DeleteFriend(c) ==
    /\ \E u, v \in Users, o \in DbOutcomes :
         /\ BeginWith(c, "unfriend", u, v, IF o = "ok" THEN "ok" ELSE "failed")
         /\ status' = IF o = "refused" THEN status
                      ELSE [d \in Calls |-> IF Present(d) /\ {who[d], peer[d]} = {u, v}
                                            THEN "deleted" ELSE status[d]]
         /\ Statement(c, o)
    /\ UNCHANGED <<target, revived, replicaRows, mustSee>>

AddFriend(c)     == CountUsers(c) \/ CheckPair(c) \/ InsertRow(c)
ApproveFriend(c) == FindRequest(c) \/ SaveApproved(c)

FriendsStep(c) ==
    AddFriend(c) \/ ApproveFriend(c) \/ DeleteFriend(c)

(* A replica catches up with the table of friends.                         *)
ReplicateRows(r) ==
    replicaRows' = [replicaRows EXCEPT ![r] = {d \in Calls : Present(d)}]

-----------------------------------------------------------------------------
(* A row is between registered users, whichever replica they were looked   *)
(* up on, and was made by a request of its user.  An approved one was      *)
(* approved by a call of its friend, never of the user who asked.          *)
RowsJustified ==
    \A d \in Calls : status[d] # "none" =>
        /\ op[d] = "add"
        /\ {who[d], peer[d]} \subseteq users
        /\ status[d] = "approved" =>
             \E c \in Calls : /\ op[c] = "approve" /\ target[c] = d
                              /\ who[c] = peer[d] /\ peer[c] = who[d]
                              /\ pc[c] \in {"ok", "failed"}

(* Two rows of a pair make every post of one be pushed twice to the other. *)
(* When they stand together, the requests overlapped, or a replica lagged  *)
(* behind the first when the second began, or an error hit the second, or  *)
(* an approval has brought back a deleted row.                             *)
DuplicateHasCause ==
    \A c, d \in Calls :
        Present(c) /\ Present(d) /\ d \in mustSee[c]
            => c \in hit \/ d \in revived
=============================================================================

------------------------------ MODULE Accounts ------------------------------
(***************************************************************************)
(* Accounts and sessions (src/services/users.go, with the handlers of      *)
(* src/api/handlers/auth.go and src/api/handlers/user.go).                 *)
(*                                                                         *)
(* A request is an actor, a member of Calls, and takes one step per SQL    *)
(* statement.  Reads go to a replica, whichever dbresolver picks, writes   *)
(* to the master; there is no transaction.  A user is identified by the    *)
(* nickname, which the table holds once, and a token by the login that     *)
(* inserted it.  Hashing and the check of the password are left out: a     *)
(* login with a wrong password changes nothing.  shard_count is taken to   *)
(* be configured: with 0 shards Register divides by zero.                  *)
(*                                                                         *)
(* The requests of other components (Friends) are members of Calls too.    *)
(***************************************************************************)
EXTENDS CounterStore, FiniteSets

CONSTANTS
    Users,      \* nicknames
    OldUsers,   \* users who are registered at the start; others may be
    Calls,      \* requests
    Replicas,   \* read replicas of the database
    MaxHit      \* bound on the calls hit by errors or crashes

ASSUME AccountsAssumption ==
    /\ Users # {}
    /\ OldUsers \subseteq Users
    /\ IsFiniteSet(Calls)
    /\ MaxHit \in Nat

VARIABLES
    users,         \* the table of users, on the master
    mapped,        \* the users with a row in shard_map
    tokens,        \* user_tokens: the logins whose token is in the table
    replicaUsers,  \* replicaUsers[r]: the users replica r shows
    op,            \* op[c]: what call c asks for
    who,           \* who[c]: the user it is about, or who makes it
    pc,            \* pc[c]: its next step, or its outcome
    mustEnd,       \* history: the sessions c has to end, see SessionsToEnd
    hit            \* history: the calls an error or a crash has hit

accountVars == <<users, mapped, tokens>>
callVars    == <<op, who, pc, hit>>

AccountOps   == {"register", "login", "logout"}
AccountSteps == {"insert", "map", "lookup", "delete", "deleteNone", "token"}
Outcome      == {"ok", "refused", "failed"}

Idle(c)   == pc[c] = "idle"
Active(c) == pc[c] \notin Outcome \union {"idle"}

AnyUser == CHOOSE u \in Users : TRUE

(* Users registered at the start have their shard and are known to all     *)
(* replicas.                                                               *)
AccountsInit ==
    /\ users \in {S \in SUBSET Users : OldUsers \subseteq S}
    /\ mapped = users
    /\ tokens = {}
    /\ replicaUsers = [r \in Replicas |-> users]
    /\ op = [c \in Calls |-> "none"]
    /\ who = [c \in Calls |-> AnyUser]
    /\ pc = [c \in Calls |-> "idle"]
    /\ mustEnd = [c \in Calls |-> {}]
    /\ hit = {}

-----------------------------------------------------------------------------
(* What the handlers of all components do with a call.                     *)

(* A call is served: its first statement is executed, and leads to step.   *)
Begin(c, o, u, step) ==
    /\ Idle(c)
    /\ op' = [op EXCEPT ![c] = o]
    /\ who' = [who EXCEPT ![c] = u]
    /\ pc' = [pc EXCEPT ![c] = step]

(* A call goes on, or ends with an outcome.                                *)
GoTo(c, step) ==
    /\ pc' = [pc EXCEPT ![c] = step]
    /\ UNCHANGED <<op, who>>

Clean == UNCHANGED hit

Hit(c) ==
    /\ hit' = hit \union {c}
    /\ Cardinality(hit \union {c}) <= MaxHit

(* A statement with outcome o, see DbOutcomes.                             *)
Statement(c, o) == IF o = "ok" THEN Clean ELSE Hit(c)

(* The process dies with the call; its client sees it fail.                *)
Crash(c) ==
    /\ Active(c)
    /\ Hit(c)
    /\ GoTo(c, "failed")

-----------------------------------------------------------------------------
(* The sessions a login or logout of u has to end: those there are when it *)
(* begins, provided that every replica knows u by then.                    *)
SessionsToEnd(u) ==
    IF \A r \in Replicas : u \in replicaUsers[r]
    THEN {t \in tokens : who[t] = u} ELSE {}

(* Register: is the nickname taken?  Asked of a replica.                   *)
CheckNickname(c) ==
    /\ \E u \in Users :
         \/ /\ \E r \in Replicas :
                 Begin(c, "register", u,
                       IF u \in replicaUsers[r] THEN "refused" ELSE "insert")
            /\ Clean
         \/ Begin(c, "register", u, "failed") /\ Hit(c)
    /\ UNCHANGED <<accountVars, replicaUsers, mustEnd>>

(* Mutant: no unique index on the nickname.                                *)
InsertUserTwice(c) ==
    /\ pc[c] = "insert"
    /\ \E o \in DbOutcomes :
         /\ users' = IF o = "refused" THEN users ELSE users \union {who[c]}
         /\ GoTo(c, IF o = "ok" THEN "map" ELSE "failed")
         /\ Statement(c, o)
    /\ UNCHANGED <<mapped, tokens, replicaUsers, mustEnd>>

(* The insert on the master; the unique index refuses a second row.        *)
InsertUser(c) ==
    /\ pc[c] = "insert"
    /\ \/ /\ who[c] \in users
          /\ GoTo(c, "failed") /\ Clean
          /\ UNCHANGED users
       \/ /\ who[c] \notin users
          /\ \E o \in DbOutcomes :
               /\ users' = IF o = "refused" THEN users ELSE users \union {who[c]}
               /\ GoTo(c, IF o = "ok" THEN "map" ELSE "failed")
               /\ Statement(c, o)
    /\ UNCHANGED <<mapped, tokens, replicaUsers, mustEnd>>

(* The row of shard_map.  The error of the statement is not looked at.     *)
WriteShardMap(c) ==
    /\ pc[c] = "map"
    /\ \E o \in DbOutcomes :
         /\ mapped' = IF o = "refused" THEN mapped ELSE mapped \union {who[c]}
         /\ Statement(c, o)
    /\ GoTo(c, "ok")
    /\ UNCHANGED <<users, tokens, replicaUsers, mustEnd>>

(* Mutant: an unknown user is let through.                                 *)
ReadNoUser(c) ==
    /\ \E u \in Users :
         /\ Begin(c, "login", u, "lookup") /\ Clean
         /\ mustEnd' = [mustEnd EXCEPT ![c] = SessionsToEnd(u)]
    /\ UNCHANGED <<accountVars, replicaUsers>>

(* Login reads the user, for the hash of the password; an error is         *)
(* answered like an unknown nickname.                                      *)
ReadUser(c) ==
    /\ \E u \in Users :
         /\ \/ /\ \E r \in Replicas :
                    Begin(c, "login", u,
                          IF u \in replicaUsers[r] THEN "lookup" ELSE "refused")
               /\ Clean
            \/ Begin(c, "login", u, "refused") /\ Hit(c)
         /\ mustEnd' = [mustEnd EXCEPT ![c] = SessionsToEnd(u)]
    /\ UNCHANGED <<accountVars, replicaUsers>>

(* UserHandler.Logout, which Login calls as well, reads the id of u on a   *)
(* replica.  The error is not looked at: the id stays 0.                   *)
LookupId(c, u, step) ==
    \/ /\ \E r \in Replicas :
            step = IF u \in replicaUsers[r] THEN "delete" ELSE "deleteNone"
       /\ Clean
    \/ step = "deleteNone" /\ Hit(c)

LogoutLookup(c) ==
    /\ \E u \in Users, step \in {"delete", "deleteNone"} :
         /\ Begin(c, "logout", u, step)
         /\ LookupId(c, u, step)
         /\ mustEnd' = [mustEnd EXCEPT ![c] = SessionsToEnd(u)]
    /\ UNCHANGED <<accountVars, replicaUsers>>

LoginLookup(c) ==
    /\ pc[c] = "lookup"
    /\ \E step \in {"delete", "deleteNone"} :
         GoTo(c, step) /\ LookupId(c, who[c], step)
    /\ UNCHANGED <<accountVars, replicaUsers, mustEnd>>

(* Mutant: Login deletes no tokens.                                        *)
DeleteTokensOnLogout(c) ==
    /\ pc[c] \in {"delete", "deleteNone"}
    /\ \E o \in DbOutcomes :
         /\ tokens' = IF o = "refused" \/ op[c] = "login" THEN tokens
                      ELSE {t \in tokens : who[t] # who[c]}
         /\ GoTo(c, IF op[c] = "login" THEN "token"
                    ELSE IF o = "ok" THEN "ok" ELSE "failed")
         /\ Statement(c, o)
    /\ UNCHANGED <<users, mapped, replicaUsers, mustEnd>>

(* The tokens of the id are deleted, those of id 0 are none.  A login goes *)
(* on whatever Logout returns.                                             *)
DeleteTokens(c) ==
    /\ pc[c] \in {"delete", "deleteNone"}
    /\ \E o \in DbOutcomes :
         /\ tokens' = IF o = "refused" \/ pc[c] = "deleteNone" THEN tokens
                      ELSE {t \in tokens : who[t] # who[c]}
         /\ GoTo(c, IF op[c] = "login" THEN "token"
                    ELSE IF o = "ok" THEN "ok" ELSE "failed")
         /\ Statement(c, o)
    /\ UNCHANGED <<users, mapped, replicaUsers, mustEnd>>

InsertToken(c) ==
    /\ pc[c] = "token"
    /\ \E o \in DbOutcomes :
         /\ tokens' = IF o = "refused" THEN tokens ELSE tokens \union {c}
         /\ GoTo(c, IF o = "ok" THEN "ok" ELSE "failed")
         /\ Statement(c, o)
    /\ UNCHANGED <<users, mapped, replicaUsers, mustEnd>>

Register(c) == CheckNickname(c) \/ InsertUser(c) \/ WriteShardMap(c)
Login(c)    == ReadUser(c) \/ LoginLookup(c) \/ InsertToken(c)
Logout(c)   == LogoutLookup(c) \/ DeleteTokens(c)

AccountsStep(c) == Register(c) \/ Login(c) \/ Logout(c)

(* A replica catches up with the table of users.                           *)
ReplicateUsers(r) == replicaUsers' = [replicaUsers EXCEPT ![r] = users]

-----------------------------------------------------------------------------
(* A nickname is given out once, however the registrations interleave and  *)
(* however far the replica that was asked is behind; a registration that   *)
(* is turned away without an error was turned away by a user who exists;   *)
(* and a user who was told of success has a shard unless an error hit that *)
(* registration.                                                           *)
OneAccount ==
    \A c \in Calls : op[c] = "register" =>
        /\ pc[c] = "ok" =>
             /\ who[c] \in users
             /\ c \notin hit => who[c] \in mapped
             /\ \A d \in Calls :
                  op[d] = "register" /\ who[d] = who[c] /\ pc[d] = "ok" => d = c
        /\ pc[c] \in {"refused", "failed"} /\ c \notin hit => who[c] \in users

(* A login, like a logout, ends every session that existed when it began,  *)
(* unless an error hit it or some replica had not heard of the user: two   *)
(* sessions of one user come from logins that overlapped, or from these.   *)
OlderSessionsEnd ==
    \A c \in Calls :
        /\ op[c] \in {"login", "logout"}
        /\ pc[c] \in {"token", "ok", "failed"}
        /\ c \notin hit
        => mustEnd[c] \intersect tokens = {}
=============================================================================

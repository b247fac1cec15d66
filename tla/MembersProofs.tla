--------------------------- MODULE MembersProofs ---------------------------
(***************************************************************************)
(* Theorems about Members, for any number of users, calls, replicas,       *)
(* failed statements and crashes.                                          *)
(***************************************************************************)
EXTENDS Members, TLAPS

(* What is known of a call that waits at a step.                           *)
Reached ==
    \A c \in Calls :
        /\ pc[c] = "idle" => op[c] = "none"
        /\ pc[c] = "insert" => op[c] = "register"
        /\ pc[c] = "map" => op[c] = "register" /\ who[c] \in users
        /\ pc[c] \in {"lookup", "token"} => op[c] = "login"
        /\ pc[c] \in {"delete", "deleteNone"} => op[c] \in {"login", "logout"}
        /\ op[c] = "login" /\ Active(c) => who[c] \in users
        /\ pc[c] \in {"pair", "row"} =>
             op[c] = "add" /\ who[c] # peer[c] /\ {who[c], peer[c]} \subseteq users

(* An approval under way has read a request to its caller.                 *)
ApprovalsMatch ==
    \A c \in Calls : pc[c] = "save" =>
        /\ op[c] = "approve" /\ status[target[c]] # "none"
        /\ who[c] = peer[target[c]] /\ peer[c] = who[target[c]]

(* What a call has inserted it keeps to: it is finished.                   *)
RowsSettled   == \A d \in Calls : status[d] # "none" => pc[d] \in Outcome
TokensSettled == \A t \in tokens : pc[t] \in {"ok", "failed"}

(* One registration at most gets past the unique index.                    *)
RegistrationsDiffer ==
    \A c, d \in Calls :
        /\ op[c] = "register" /\ pc[c] \in {"map", "ok"}
        /\ op[d] = "register" /\ pc[d] \in {"map", "ok"}
        /\ who[c] = who[d]
        => c = d

(* The sessions a call has to end are of its user, whom every replica      *)
(* knows; so the look-up finds the user unless an error hits it.           *)
SessionsKnown ==
    \A c \in Calls : op[c] \in {"login", "logout"} =>
        /\ \A t \in mustEnd[c] : who[t] = who[c] /\ pc[t] \in {"ok", "failed"}
        /\ mustEnd[c] # {} => \A r \in Replicas : who[c] \in replicaUsers[r]
        /\ pc[c] = "deleteNone" /\ c \notin hit => mustEnd[c] = {}

(* A row a request cannot miss is on every replica until the look-up is    *)
(* made.  After it the request is refused, or the row is gone.             *)
SeenBy(c) ==
    \A d \in mustSee[c] :
        /\ status[d] # "none" /\ {who[c], peer[c]} = {who[d], peer[d]}
        /\ \/ c \in hit \/ d \in revived \/ status[d] = "deleted"
           \/ pc[c] \in Outcome /\ status[c] = "none"
           \/ pc[c] = "pair" /\ \A r \in Replicas : d \in replicaRows[r]

RowsSeen == \A c \in Calls : op[c] = "add" => SeenBy(c)

IInv ==
    /\ TypeOK
    /\ Reached
    /\ ApprovalsMatch
    /\ RowsSettled
    /\ TokensSettled
    /\ RegistrationsDiffer
    /\ SessionsKnown
    /\ RowsSeen
    /\ OneAccount
    /\ OlderSessionsEnd
    /\ RowsJustified

-----------------------------------------------------------------------------
(* A step of call c: no other call moves, a finished call makes none, and  *)
(* what c asks for is decided by its first.                                *)
OwnStep(c) ==
    /\ \A d \in Calls \ {c} :
         /\ op'[d] = op[d] /\ who'[d] = who[d] /\ pc'[d] = pc[d]
         /\ peer'[d] = peer[d] /\ target'[d] = target[d]
         /\ mustEnd'[d] = mustEnd[d] /\ mustSee'[d] = mustSee[d]
    /\ pc[c] \notin Outcome /\ pc'[c] # "idle"
    /\ pc[c] # "idle" =>
         /\ op'[c] = op[c] /\ who'[c] = who[c]
         /\ peer'[c] = peer[c] /\ target'[c] = target[c]
         /\ mustEnd'[c] = mustEnd[c] /\ mustSee'[c] = mustSee[c]
    /\ hit \subseteq hit'

(* How an error or a crash is recorded.                                    *)
LEMMA HitGrows ==
    ASSUME NEW c \in Calls, NEW o \in DbOutcomes, hit \subseteq Calls
    PROVE  /\ Hit(c) => hit' = hit \union {c}
           /\ Clean => hit' = hit
           /\ Statement(c, o) => /\ hit \subseteq hit' /\ hit' \subseteq Calls
                                 /\ o # "ok" => c \in hit'
  BY DEF Hit, Clean, Statement

(* What is known of a row that a request cannot miss.                      *)
LEMMA RowSeen ==
    ASSUME TypeOK, RowsSeen, NEW x \in Calls, op[x] = "add", NEW d \in mustSee[x]
    PROVE  /\ d \in Calls /\ status[d] # "none"
           /\ {who[x], peer[x]} = {who[d], peer[d]}
           /\ \/ x \in hit \/ d \in revived \/ status[d] = "deleted"
              \/ pc[x] \in Outcome /\ status[x] = "none"
              \/ pc[x] = "pair" /\ \A r \in Replicas : d \in replicaRows[r]
<1>1. SeenBy(x)
  BY DEF RowsSeen
<1>2. d \in Calls
  BY DEF TypeOK
<1> QED
  BY <1>1, <1>2 DEF SeenBy

(* A step that leaves the table of friends alone, and does not begin to    *)
(* save an approval, leaves what is known of it.                           *)
LEMMA FriendsKept ==
    ASSUME IInv, NEW c \in Calls, OwnStep(c),
           UNCHANGED <<status, revived, replicaRows>>, users \subseteq users',
           pc'[c] # "save",
           op'[c] = "add" => (op[c] = "add" /\ c \in hit') \/ SeenBy(c)'
    PROVE  ApprovalsMatch' /\ RowsSettled' /\ RowsSeen' /\ RowsJustified'
<1> USE DEF IInv
<1>1. \A d \in Calls : status[d] # "none" => d # c
  BY DEF RowsSettled, OwnStep
<1>2. ApprovalsMatch'
  BY <1>1 DEF ApprovalsMatch, OwnStep, TypeOK
<1>3. RowsSettled'
  BY <1>1 DEF RowsSettled, OwnStep, TypeOK
<1>4. RowsSeen'
  <2>1. ASSUME NEW x \in Calls, op'[x] = "add", x = c => op[c] = "add" /\ c \in hit'
        PROVE  SeenBy(x)'
    <3>1. op[x] = "add" /\ who'[x] = who[x] /\ peer'[x] = peer[x] /\ mustSee'[x] = mustSee[x]
      BY <2>1 DEF OwnStep, Reached
    <3> SUFFICES ASSUME NEW d \in mustSee[x]
                 PROVE  /\ status[d] # "none"
                        /\ {who'[x], peer'[x]} = {who'[d], peer'[d]}
                        /\ \/ x \in hit' \/ d \in revived \/ status[d] = "deleted"
                           \/ pc'[x] \in Outcome /\ status[x] = "none"
                           \/ pc'[x] = "pair" /\ \A r \in Replicas : d \in replicaRows[r]
      BY <3>1 DEF SeenBy
    <3>2. /\ d \in Calls /\ status[d] # "none"
          /\ {who[x], peer[x]} = {who[d], peer[d]}
          /\ \/ x \in hit \/ d \in revived \/ status[d] = "deleted"
             \/ pc[x] \in Outcome /\ status[x] = "none"
             \/ pc[x] = "pair" /\ \A r \in Replicas : d \in replicaRows[r]
      BY <3>1, RowSeen
    <3>3. who'[d] = who[d] /\ peer'[d] = peer[d]
      BY <1>1, <3>2 DEF OwnStep
    <3>4. {who'[x], peer'[x]} = {who'[d], peer'[d]}
      BY <3>1, <3>2, <3>3
    <3>5. x = c => x \in hit'
      BY <2>1
    <3>6. x # c => pc'[x] = pc[x] /\ (x \in hit => x \in hit')
      BY DEF OwnStep
    <3> QED
      BY <3>2, <3>4, <3>5, <3>6
  <2>2. ASSUME NEW x \in Calls, op'[x] = "add"
        PROVE  SeenBy(x)'
    <3>1. x = c => (op[c] = "add" /\ c \in hit') \/ SeenBy(x)'
      BY <2>2
    <3> QED
      BY <2>1, <2>2, <3>1
  <2> QED
    BY <2>2 DEF RowsSeen
<1>5. RowsJustified'
  <2> SUFFICES ASSUME NEW d \in Calls, status[d] # "none"
               PROVE  /\ op'[d] = "add"
                      /\ {who'[d], peer'[d]} \subseteq users'
                      /\ status[d] = "approved" =>
                           \E x \in Calls : /\ op'[x] = "approve" /\ target'[x] = d
                                            /\ who'[x] = peer'[d] /\ peer'[x] = who'[d]
                                            /\ pc'[x] \in {"ok", "failed"}
    BY DEF RowsJustified
  <2>1. op'[d] = op[d] /\ who'[d] = who[d] /\ peer'[d] = peer[d]
    BY <1>1 DEF OwnStep
  <2>2. op[d] = "add" /\ {who[d], peer[d]} \subseteq users
    BY DEF RowsJustified
  <2>3. ASSUME status[d] = "approved"
        PROVE  \E x \in Calls : /\ op'[x] = "approve" /\ target'[x] = d
                                /\ who'[x] = peer'[d] /\ peer'[x] = who'[d]
                                /\ pc'[x] \in {"ok", "failed"}
    <3>1. PICK x \in Calls : /\ op[x] = "approve" /\ target[x] = d
                             /\ who[x] = peer[d] /\ peer[x] = who[d]
                             /\ pc[x] \in {"ok", "failed"}
      BY <2>3 DEF RowsJustified
    <3>2. x # c
      BY <3>1 DEF OwnStep, Outcome
    <3> QED
      BY <2>1, <3>1, <3>2 DEF OwnStep
  <2> QED
    BY <2>1, <2>2, <2>3
<1> QED
  BY <1>2, <1>3, <1>4, <1>5

(* The sessions a call has to end are of finished calls, so they stay what *)
(* they were when another call makes a step.                               *)
LEMMA SessionsKept ==
    ASSUME IInv, NEW c \in Calls, OwnStep(c), UNCHANGED replicaUsers,
           op'[c] \in {"login", "logout"} =>
               /\ pc[c] # "idle"
               /\ pc'[c] = "deleteNone" /\ c \notin hit' => mustEnd[c] = {}
    PROVE  SessionsKnown'
<1> SUFFICES ASSUME NEW x \in Calls, op'[x] \in {"login", "logout"}
             PROVE  /\ \A t \in mustEnd'[x] : who'[t] = who'[x] /\ pc'[t] \in {"ok", "failed"}
                    /\ mustEnd'[x] # {} => \A r \in Replicas : who'[x] \in replicaUsers[r]
                    /\ pc'[x] = "deleteNone" /\ x \notin hit' => mustEnd'[x] = {}
  BY DEF SessionsKnown
<1>1. op[x] = op'[x] /\ who'[x] = who[x] /\ mustEnd'[x] = mustEnd[x]
  BY DEF OwnStep
<1>2. /\ \A t \in mustEnd[x] : who[t] = who[x] /\ pc[t] \in {"ok", "failed"}
      /\ mustEnd[x] # {} => \A r \in Replicas : who[x] \in replicaUsers[r]
      /\ pc[x] = "deleteNone" /\ x \notin hit => mustEnd[x] = {}
  BY <1>1 DEF IInv, SessionsKnown
<1>3. mustEnd[x] \subseteq Calls
  BY DEF IInv, TypeOK
<1>4. ASSUME NEW t \in mustEnd[x]
      PROVE  who'[t] = who[t] /\ pc'[t] = pc[t]
  <2>1. t \in Calls /\ t # c
    BY <1>2, <1>3 DEF OwnStep, Outcome
  <2> QED
    BY <2>1 DEF OwnStep
<1>5. pc'[x] = "deleteNone" /\ x \notin hit' => mustEnd[x] = {}
  <2>1. CASE x = c
    BY <2>1
  <2>2. CASE x # c
    BY <2>2, <1>2 DEF OwnStep
  <2> QED
    BY <2>1, <2>2
<1> QED
  BY <1>1, <1>2, <1>4, <1>5

(* A call that does nothing for accounts leaves what is known of them.     *)
LEMMA AccountsKept ==
    ASSUME IInv, NEW c \in Calls, OwnStep(c),
           UNCHANGED <<users, mapped, tokens, replicaUsers>>,
           pc'[c] \notin AccountSteps,
           op'[c] \in AccountOps => c \in hit' /\ pc[c] # "idle" /\ pc'[c] = "failed"
    PROVE  /\ TokensSettled' /\ RegistrationsDiffer' /\ SessionsKnown'
           /\ OneAccount' /\ OlderSessionsEnd'
<1> USE DEF IInv, AccountOps
<1>1. TokensSettled'
  BY DEF TokensSettled, OwnStep, Outcome, TypeOK
<1>2. RegistrationsDiffer'
  BY DEF RegistrationsDiffer, OwnStep
<1>3. SessionsKnown'
  BY SessionsKept DEF AccountSteps
<1>4. OneAccount'
  <2>1. ASSUME NEW x \in Calls, op'[x] = "register"
        PROVE  op[x] = "register" /\ who'[x] = who[x] /\ (x = c \/ pc'[x] = pc[x])
    BY <2>1 DEF OwnStep
  <2> QED
    BY <2>1 DEF OneAccount, OwnStep
<1>5. OlderSessionsEnd'
  BY DEF OlderSessionsEnd, OwnStep
<1> QED
  BY <1>1, <1>2, <1>3, <1>4, <1>5

-----------------------------------------------------------------------------
(* The steps of accounts.                                                  *)
LEMMA AccountsOwn ==
    ASSUME TypeOK, NEW c \in Calls, AccountsStep(c), UNCHANGED <<friendVars, routeVars>>
    PROVE  OwnStep(c)
<1> USE DEF Outcome, OwnStep, friendVars, routeVars, Begin, GoTo, Idle, Clean, Hit,
            Statement, DbOutcomes, TypeOK
<1>1. CASE CheckNickname(c)
  BY <1>1 DEF CheckNickname
<1>2. CASE InsertUser(c)
  BY <1>2 DEF InsertUser
<1>3. CASE WriteShardMap(c)
  BY <1>3 DEF WriteShardMap
<1>4. CASE ReadUser(c)
  BY <1>4 DEF ReadUser
<1>5. CASE LoginLookup(c)
  BY <1>5 DEF LoginLookup, LookupId
<1>6. CASE InsertToken(c)
  BY <1>6 DEF InsertToken
<1>7. CASE LogoutLookup(c)
  BY <1>7 DEF LogoutLookup, LookupId
<1>8. CASE DeleteTokens(c)
  BY <1>8 DEF DeleteTokens
<1> QED
  BY <1>1, <1>2, <1>3, <1>4, <1>5, <1>6, <1>7, <1>8
     DEF AccountsStep, Register, Login, Logout

LEMMA CheckNicknameStep ==
    ASSUME IInv, NEW c \in Calls, CheckNickname(c),
           UNCHANGED <<friendVars, routeVars, replicaRows>>
    PROVE  IInv'
<1> USE DEF IInv, friendVars, routeVars
<1>0. PICK u \in Users :
        \/ /\ \E r \in Replicas :
                Begin(c, "register", u, IF u \in replicaUsers[r] THEN "refused" ELSE "insert")
           /\ Clean
        \/ Begin(c, "register", u, "failed") /\ Hit(c)
  BY DEF CheckNickname
<1>1. PICK step \in {"refused", "insert", "failed"} :
        /\ Begin(c, "register", u, step)
        /\ step = "refused" => u \in users
        /\ (Clean /\ step # "failed") \/ (step = "failed" /\ Hit(c))
        /\ UNCHANGED <<users, mapped, tokens, replicaUsers, mustEnd>>
  <2>1. UNCHANGED <<users, mapped, tokens, replicaUsers, mustEnd>>
    BY DEF CheckNickname, accountVars
  <2>2. CASE Begin(c, "register", u, "failed") /\ Hit(c)
    BY <2>1, <2>2
  <2>3. ASSUME NEW r \in Replicas, Clean,
               Begin(c, "register", u, IF u \in replicaUsers[r] THEN "refused" ELSE "insert")
        PROVE  \E step \in {"refused", "insert"} :
                 Begin(c, "register", u, step) /\ (step = "refused" => u \in users)
    <3>1. u \in replicaUsers[r] => u \in users
      BY DEF TypeOK
    <3>2. CASE u \in replicaUsers[r]
      BY <2>3, <3>1, <3>2
    <3>3. CASE u \notin replicaUsers[r]
      BY <2>3, <3>3
    <3> QED
      BY <3>2, <3>3
  <2> QED
    BY <1>0, <2>1, <2>2, <2>3
<1>2. OwnStep(c)
  BY AccountsOwn DEF AccountsStep, Register
<1>3. /\ pc[c] = "idle" /\ op' = [op EXCEPT ![c] = "register"]
      /\ who' = [who EXCEPT ![c] = u] /\ pc' = [pc EXCEPT ![c] = step]
      /\ (hit' = hit /\ step # "failed") \/ hit' = hit \union {c}
  BY <1>1 DEF Begin, Idle, Clean, Hit
<1>4. c \notin tokens
  BY <1>3 DEF TokensSettled
<1>5. TypeOK'
  BY <1>1, <1>3, <1>4 DEF TypeOK, AccountOps, AccountSteps, Outcome
<1>6. Reached'
  BY <1>1, <1>3 DEF Reached, TypeOK, Active
<1>7. ApprovalsMatch' /\ RowsSettled' /\ RowsSeen' /\ RowsJustified'
  BY <1>1, <1>2, <1>3, FriendsKept DEF TypeOK
<1>8. TokensSettled' /\ RegistrationsDiffer'
  BY <1>1, <1>3, <1>4 DEF TokensSettled, RegistrationsDiffer, TypeOK
<1>9. SessionsKnown'
  BY <1>1, <1>2, <1>3, SessionsKept DEF TypeOK
<1>10. OlderSessionsEnd'
  BY <1>1, <1>3 DEF OlderSessionsEnd, TypeOK
<1>11. OneAccount'
  BY <1>1, <1>3 DEF OneAccount, TypeOK
<1> QED
  BY <1>11, <1>5, <1>6, <1>7, <1>8, <1>9, <1>10

LEMMA InsertUserStep ==
    ASSUME IInv, NEW c \in Calls, InsertUser(c),
           UNCHANGED <<friendVars, routeVars, replicaRows>>
    PROVE  IInv'
<1> USE DEF IInv, friendVars, routeVars
<1>1. PICK step \in {"map", "failed"} :
        /\ pc[c] = "insert" /\ GoTo(c, step)
        /\ users' = users \/ users' = users \union {who[c]}
        /\ step = "map" => who[c] \notin users /\ who[c] \in users'
        /\ (Clean /\ (who[c] \in users \/ step = "map")) \/ Hit(c)
        /\ UNCHANGED <<mapped, tokens, replicaUsers, mustEnd>>
  BY DEF InsertUser, Statement, DbOutcomes, TypeOK
<1>2. OwnStep(c)
  BY AccountsOwn DEF AccountsStep, Register
<1>3. /\ pc' = [pc EXCEPT ![c] = step] /\ UNCHANGED <<op, who>>
      /\ op[c] = "register" /\ users \subseteq users' /\ users' \subseteq Users
      /\ (hit' = hit /\ (who[c] \in users \/ step = "map")) \/ hit' = hit \union {c}
  BY <1>1 DEF GoTo, Clean, Hit, Reached, TypeOK
<1>4. TypeOK'
  <2>1. replicaUsers' \in [Replicas -> SUBSET users'] /\ mapped' \subseteq users'
    BY <1>1, <1>3 DEF TypeOK
  <2> QED
    BY <1>1, <1>3, <2>1 DEF TypeOK, AccountSteps, Outcome
<1>5. Reached'
  BY <1>1, <1>3 DEF Reached, TypeOK, Active
<1>6. ApprovalsMatch' /\ RowsSettled' /\ RowsSeen' /\ RowsJustified'
  BY <1>1, <1>2, <1>3, FriendsKept DEF TypeOK
<1>7. TokensSettled'
  BY <1>1, <1>3 DEF TokensSettled, TypeOK
<1>8. RegistrationsDiffer'
  BY <1>1, <1>3 DEF RegistrationsDiffer, OneAccount, Reached, TypeOK
<1>9. SessionsKnown' /\ OlderSessionsEnd'
  <2>1. SessionsKnown'
    BY <1>1, <1>2, <1>3, SessionsKept
  <2>2. OlderSessionsEnd'
    BY <1>1, <1>3 DEF OlderSessionsEnd, TypeOK
  <2> QED
    BY <2>1, <2>2
<1>10. OneAccount'
  BY <1>1, <1>3 DEF OneAccount, TypeOK
<1> QED
  BY <1>4, <1>5, <1>6, <1>7, <1>8, <1>9, <1>10

LEMMA WriteShardMapStep ==
    ASSUME IInv, NEW c \in Calls, WriteShardMap(c),
           UNCHANGED <<friendVars, routeVars, replicaRows>>
    PROVE  IInv'
<1> USE DEF IInv, friendVars, routeVars
<1>1. /\ pc[c] = "map" /\ GoTo(c, "ok")
      /\ mapped' = mapped \/ mapped' = mapped \union {who[c]}
      /\ (Clean /\ who[c] \in mapped') \/ Hit(c)
      /\ UNCHANGED <<users, tokens, replicaUsers, mustEnd>>
  BY DEF WriteShardMap, Statement, DbOutcomes
<1>2. OwnStep(c)
  BY AccountsOwn DEF AccountsStep, Register
<1>3. /\ pc' = [pc EXCEPT ![c] = "ok"] /\ UNCHANGED <<op, who>>
      /\ op[c] = "register" /\ who[c] \in users /\ mapped \subseteq mapped'
      /\ (hit' = hit /\ who[c] \in mapped') \/ hit' = hit \union {c}
  BY <1>1 DEF GoTo, Clean, Hit, Reached, TypeOK
<1>4. TypeOK'
  BY <1>1, <1>3 DEF TypeOK, Outcome
<1>5. Reached'
  BY <1>1, <1>3 DEF Reached, TypeOK, Active
<1>6. ApprovalsMatch' /\ RowsSettled' /\ RowsSeen' /\ RowsJustified'
  BY <1>1, <1>2, <1>3, FriendsKept DEF TypeOK
<1>7. TokensSettled' /\ RegistrationsDiffer'
  BY <1>1, <1>3 DEF TokensSettled, RegistrationsDiffer, TypeOK
<1>8. SessionsKnown' /\ OlderSessionsEnd'
  <2>1. SessionsKnown'
    BY <1>1, <1>2, <1>3, SessionsKept
  <2>2. OlderSessionsEnd'
    BY <1>1, <1>3 DEF OlderSessionsEnd, TypeOK
  <2> QED
    BY <2>1, <2>2
<1>9. OneAccount'
  BY <1>1, <1>3 DEF OneAccount, RegistrationsDiffer, TypeOK
<1> QED
  BY <1>4, <1>5, <1>6, <1>7, <1>8, <1>9

(* What a login or logout that begins has to end it can end: the sessions  *)
(* are of finished logins, and every replica knows the user.               *)
LEMMA SessionsBegin ==
    ASSUME IInv, NEW c \in Calls, NEW u \in Users, pc[c] = "idle",
           who' = [who EXCEPT ![c] = u], mustEnd' = [mustEnd EXCEPT ![c] = SessionsToEnd(u)]
    PROVE  /\ mustEnd' \in [Calls -> SUBSET Calls]
           /\ \A t \in mustEnd'[c] : t # c /\ who'[t] = u /\ pc[t] \in {"ok", "failed"}
           /\ mustEnd'[c] # {} => \A r \in Replicas : u \in replicaUsers[r]
<1> USE DEF IInv
<1>1. \A t \in SessionsToEnd(u) :
         /\ t \in Calls /\ t # c /\ who[t] = u /\ pc[t] \in {"ok", "failed"}
         /\ \A r \in Replicas : u \in replicaUsers[r]
  BY DEF SessionsToEnd, TokensSettled, TypeOK
<1>2. mustEnd'[c] = SessionsToEnd(u)
  BY DEF TypeOK
<1>3. mustEnd' \in [Calls -> SUBSET Calls]
  <2>1. SessionsToEnd(u) \in SUBSET Calls
    BY <1>1
  <2> QED
    BY <2>1 DEF TypeOK
<1> QED
  BY <1>1, <1>2, <1>3 DEF TypeOK

(* Login and Logout begin alike.                                           *)
LEMMA SessionCallStep ==
    ASSUME IInv, NEW c \in Calls, OwnStep(c), NEW o \in {"login", "logout"}, NEW u \in Users,
           NEW step \in {"lookup", "refused", "delete", "deleteNone"},
           Begin(c, o, u, step),
           mustEnd' = [mustEnd EXCEPT ![c] = SessionsToEnd(u)],
           hit' \in {hit, hit \union {c}},
           step = "lookup" => o = "login" /\ u \in users,
           step \in {"delete", "deleteNone"} => o = "logout",
           step = "deleteNone" /\ c \notin hit' => \E r \in Replicas : u \notin replicaUsers[r],
           UNCHANGED <<accountVars, replicaUsers, friendVars, routeVars, replicaRows>>
    PROVE  IInv'
<1> USE DEF IInv, friendVars, routeVars, accountVars
<1>1. /\ pc[c] = "idle" /\ op' = [op EXCEPT ![c] = o]
      /\ who' = [who EXCEPT ![c] = u] /\ pc' = [pc EXCEPT ![c] = step]
  BY DEF Begin, Idle
<1>2. c \notin tokens
  BY <1>1 DEF TokensSettled
<1>3. /\ mustEnd' \in [Calls -> SUBSET Calls]
      /\ \A t \in mustEnd'[c] : t # c /\ who'[t] = u /\ pc[t] \in {"ok", "failed"}
      /\ mustEnd'[c] # {} => \A r \in Replicas : u \in replicaUsers[r]
  BY <1>1, SessionsBegin
<1>4. TypeOK'
  BY <1>1, <1>2, <1>3 DEF TypeOK, AccountOps, AccountSteps, Outcome
<1>5. Reached'
  BY <1>1 DEF Reached, TypeOK, Active, Outcome
<1>6. ApprovalsMatch' /\ RowsSettled' /\ RowsSeen' /\ RowsJustified'
  BY <1>1, FriendsKept DEF TypeOK
<1>7. TokensSettled' /\ RegistrationsDiffer'
  BY <1>1, <1>2 DEF TokensSettled, RegistrationsDiffer, TypeOK
<1>8. SessionsKnown'
  <2>1. ASSUME NEW x \in Calls \ {c}, op'[x] \in {"login", "logout"}
        PROVE  /\ \A t \in mustEnd'[x] : who'[t] = who'[x] /\ pc'[t] \in {"ok", "failed"}
               /\ mustEnd'[x] # {} => \A r \in Replicas : who'[x] \in replicaUsers'[r]
               /\ pc'[x] = "deleteNone" /\ x \notin hit' => mustEnd'[x] = {}
    <3>1. \A t \in mustEnd[x] : t \in Calls \ {c}
      BY <1>1, <2>1 DEF SessionsKnown, TypeOK
    <3> QED
      BY <1>1, <2>1, <3>1 DEF SessionsKnown, TypeOK
  <2>2. /\ \A t \in mustEnd'[c] : who'[t] = who'[c] /\ pc'[t] \in {"ok", "failed"}
        /\ mustEnd'[c] # {} => \A r \in Replicas : who'[c] \in replicaUsers'[r]
        /\ pc'[c] = "deleteNone" /\ c \notin hit' => mustEnd'[c] = {}
    BY <1>1, <1>3 DEF TypeOK
  <2> QED
    BY <2>1, <2>2 DEF SessionsKnown
<1>9. OneAccount' /\ OlderSessionsEnd'
  BY <1>1 DEF OneAccount, OlderSessionsEnd, TypeOK
<1> QED
  BY <1>4, <1>5, <1>6, <1>7, <1>8, <1>9

LEMMA ReadUserStep ==
    ASSUME IInv, NEW c \in Calls, ReadUser(c),
           UNCHANGED <<friendVars, routeVars, replicaRows>>
    PROVE  IInv'
<1>1. OwnStep(c)
  BY AccountsOwn DEF AccountsStep, Login, IInv
<1>2. PICK u \in Users :
        /\ \/ /\ \E r \in Replicas :
                   Begin(c, "login", u, IF u \in replicaUsers[r] THEN "lookup" ELSE "refused")
              /\ Clean
           \/ Begin(c, "login", u, "refused") /\ Hit(c)
        /\ mustEnd' = [mustEnd EXCEPT ![c] = SessionsToEnd(u)]
  BY DEF ReadUser
<1>3. UNCHANGED <<accountVars, replicaUsers>> /\ hit' \in {hit, hit \union {c}}
  BY <1>2 DEF ReadUser, Clean, Hit
<1>4. \A r \in Replicas : u \in replicaUsers[r] => u \in users
  BY DEF IInv, TypeOK
<1>5. PICK step \in {"lookup", "refused"} :
        Begin(c, "login", u, step) /\ (step = "lookup" => u \in users)
  BY <1>2, <1>4
<1> QED
  BY <1>1, <1>2, <1>3, <1>5, SessionCallStep

LEMMA LogoutLookupStep ==
    ASSUME IInv, NEW c \in Calls, LogoutLookup(c),
           UNCHANGED <<friendVars, routeVars, replicaRows>>
    PROVE  IInv'
<1>1. OwnStep(c)
  BY AccountsOwn DEF AccountsStep, Logout, IInv
<1>2. PICK u \in Users, step \in {"delete", "deleteNone"} :
        /\ Begin(c, "logout", u, step)
        /\ LookupId(c, u, step)
        /\ mustEnd' = [mustEnd EXCEPT ![c] = SessionsToEnd(u)]
  BY DEF LogoutLookup
<1>3. UNCHANGED <<accountVars, replicaUsers>> /\ hit' \in {hit, hit \union {c}}
  BY <1>2 DEF LogoutLookup, LookupId, Clean, Hit
<1>4. step = "deleteNone" /\ c \notin hit' =>
        \E r \in Replicas : u \notin replicaUsers[r]
  BY <1>2 DEF LookupId, Clean, Hit
<1> QED
  BY <1>1, <1>2, <1>3, <1>4, SessionCallStep

LEMMA LoginLookupStep ==
    ASSUME IInv, NEW c \in Calls, LoginLookup(c),
           UNCHANGED <<friendVars, routeVars, replicaRows>>
    PROVE  IInv'
<1> USE DEF IInv, friendVars, routeVars
<1>1. PICK step \in {"delete", "deleteNone"} : GoTo(c, step) /\ LookupId(c, who[c], step)
  BY DEF LoginLookup
<1>2. OwnStep(c)
  BY AccountsOwn DEF AccountsStep, Login
<1>3. /\ pc[c] = "lookup" /\ op[c] = "login" /\ who[c] \in users
      /\ pc' = [pc EXCEPT ![c] = step] /\ hit' \in {hit, hit \union {c}}
      /\ UNCHANGED <<op, who, users, mapped, tokens, replicaUsers, mustEnd>>
  BY <1>1 DEF LoginLookup, LookupId, GoTo, Clean, Hit, Reached, Active, Outcome, accountVars
<1>4. step = "deleteNone" /\ c \notin hit' => \E r \in Replicas : who[c] \notin replicaUsers[r]
  BY <1>1 DEF LookupId, Clean, Hit
<1>5. TypeOK'
  BY <1>3 DEF TypeOK, AccountSteps
<1>6. Reached'
  BY <1>3 DEF Reached, TypeOK, Active
<1>7. ApprovalsMatch' /\ RowsSettled' /\ RowsSeen' /\ RowsJustified'
  BY <1>2, <1>3, FriendsKept DEF TypeOK
<1>8. TokensSettled' /\ RegistrationsDiffer'
  BY <1>3 DEF TokensSettled, RegistrationsDiffer, TypeOK
<1>9. SessionsKnown'
  <2>1. step = "deleteNone" /\ c \notin hit' => mustEnd[c] = {}
    BY <1>3, <1>4 DEF SessionsKnown
  <2>2. pc'[c] = step
    BY <1>3 DEF TypeOK
  <2> QED
    BY <1>2, <1>3, <2>1, <2>2, SessionsKept
<1>10. OneAccount' /\ OlderSessionsEnd'
  BY <1>3 DEF OneAccount, OlderSessionsEnd, TypeOK
<1> QED
  BY <1>5, <1>6, <1>7, <1>8, <1>9, <1>10

LEMMA DeleteTokensStep ==
    ASSUME IInv, NEW c \in Calls, DeleteTokens(c),
           UNCHANGED <<friendVars, routeVars, replicaRows>>
    PROVE  IInv'
<1> USE DEF IInv, friendVars, routeVars
<1>1. PICK o \in DbOutcomes :
        /\ tokens' = IF o = "refused" \/ pc[c] = "deleteNone" THEN tokens
                     ELSE {t \in tokens : who[t] # who[c]}
        /\ GoTo(c, IF op[c] = "login" THEN "token"
                   ELSE IF o = "ok" THEN "ok" ELSE "failed")
        /\ Statement(c, o)
  BY DEF DeleteTokens
<1>2. OwnStep(c)
  BY AccountsOwn DEF AccountsStep, Logout
<1>3. PICK step \in {"token", "ok", "failed"} :
        /\ pc' = [pc EXCEPT ![c] = step]
        /\ step = "token" <=> op[c] = "login"
  BY <1>1 DEF GoTo
<1>4. /\ pc[c] \in {"delete", "deleteNone"} /\ op[c] \in {"login", "logout"}
      /\ UNCHANGED <<op, who, users, mapped, replicaUsers, mustEnd>>
      /\ tokens' \subseteq tokens /\ hit \subseteq hit' /\ hit' \subseteq Calls
  BY <1>1, HitGrows DEF DeleteTokens, GoTo, Reached, TypeOK
<1>5. TypeOK'
  BY <1>3, <1>4 DEF TypeOK, AccountSteps, Outcome
<1>6. Reached'
  BY <1>3, <1>4 DEF Reached, TypeOK, Active, Outcome
<1>7. ApprovalsMatch' /\ RowsSettled' /\ RowsSeen' /\ RowsJustified'
  BY <1>2, <1>3, <1>4, FriendsKept DEF TypeOK
<1>8. TokensSettled' /\ RegistrationsDiffer'
  BY <1>3, <1>4 DEF TokensSettled, RegistrationsDiffer, TypeOK
<1>9. SessionsKnown'
  <2>1. pc'[c] = step
    BY <1>3 DEF TypeOK
  <2> QED
    BY <1>2, <1>3, <1>4, <2>1, SessionsKept
<1>10. OneAccount'
  BY <1>3, <1>4 DEF OneAccount, TypeOK
<1>11. OlderSessionsEnd'
  <2>1. c \notin hit' => mustEnd[c] \intersect tokens' = {}
    <3> SUFFICES ASSUME c \notin hit' PROVE mustEnd[c] \intersect tokens' = {}
      OBVIOUS
    <3>1. o = "ok" /\ c \notin hit
      BY <1>1, <1>4, HitGrows DEF TypeOK
    <3>2. CASE pc[c] = "deleteNone"
      BY <1>4, <3>1, <3>2 DEF SessionsKnown
    <3>3. CASE pc[c] = "delete"
      <4>1. \A t \in mustEnd[c] : who[t] = who[c]
        BY <1>4 DEF SessionsKnown
      <4> QED
        BY <1>1, <3>1, <3>3, <4>1
    <3> QED
      BY <1>4, <3>2, <3>3
  <2> QED
    BY <1>3, <1>4, <2>1 DEF OlderSessionsEnd, TypeOK
<1> QED
  BY <1>5, <1>6, <1>7, <1>8, <1>9, <1>10, <1>11

LEMMA InsertTokenStep ==
    ASSUME IInv, NEW c \in Calls, InsertToken(c),
           UNCHANGED <<friendVars, routeVars, replicaRows>>
    PROVE  IInv'
<1> USE DEF IInv, friendVars, routeVars
<1>1. PICK o \in DbOutcomes :
        /\ tokens' = IF o = "refused" THEN tokens ELSE tokens \union {c}
        /\ GoTo(c, IF o = "ok" THEN "ok" ELSE "failed")
        /\ Statement(c, o)
  BY DEF InsertToken
<1>2. OwnStep(c)
  BY AccountsOwn DEF AccountsStep, Login
<1>3. PICK step \in {"ok", "failed"} : pc' = [pc EXCEPT ![c] = step]
  BY <1>1 DEF GoTo
<1>4. /\ pc[c] = "token" /\ op[c] = "login" /\ who[c] \in users
      /\ UNCHANGED <<op, who, users, mapped, replicaUsers, mustEnd>>
      /\ tokens' \subseteq tokens \union {c} /\ hit \subseteq hit' /\ hit' \subseteq Calls
  BY <1>1, HitGrows DEF InsertToken, GoTo, Reached, Active, Outcome, TypeOK
<1>5. TypeOK'
  BY <1>3, <1>4 DEF TypeOK, Outcome
<1>6. Reached'
  BY <1>3, <1>4 DEF Reached, TypeOK, Active
<1>7. ApprovalsMatch' /\ RowsSettled' /\ RowsSeen' /\ RowsJustified'
  BY <1>2, <1>3, <1>4, FriendsKept DEF TypeOK
<1>8. TokensSettled' /\ RegistrationsDiffer'
  BY <1>3, <1>4 DEF TokensSettled, RegistrationsDiffer, TypeOK
<1>9. SessionsKnown'
  <2>1. pc'[c] = step
    BY <1>3 DEF TypeOK
  <2> QED
    BY <1>2, <1>3, <1>4, <2>1, SessionsKept
<1>10. OneAccount'
  BY <1>3, <1>4 DEF OneAccount, TypeOK
<1>11. OlderSessionsEnd'
  <2>1. \A x \in Calls : op[x] \in {"login", "logout"} => c \notin mustEnd[x]
    BY <1>4 DEF SessionsKnown
  <2> QED
    BY <1>3, <1>4, <2>1 DEF OlderSessionsEnd, TypeOK
<1> QED
  BY <1>5, <1>6, <1>7, <1>8, <1>9, <1>10, <1>11

LEMMA AccountsStepKeeps ==
    ASSUME IInv, AccountsNext
    PROVE  IInv'
<1>1. PICK c \in Calls : AccountsStep(c)
  BY DEF AccountsNext
<1>2. UNCHANGED <<friendVars, routeVars, replicaRows>>
  BY DEF AccountsNext
<1> QED
  BY <1>1, <1>2, CheckNicknameStep, InsertUserStep, WriteShardMapStep, ReadUserStep,
     LoginLookupStep, InsertTokenStep, LogoutLookupStep, DeleteTokensStep
     DEF AccountsStep, Register, Login, Logout

-----------------------------------------------------------------------------
(* The steps of friends.                                                   *)
LEMMA FriendsOwn ==
    ASSUME TypeOK, NEW c \in Calls, FriendsStep(c), UNCHANGED mustEnd
    PROVE  OwnStep(c)
<1> USE DEF Outcome, OwnStep, routeVars, Begin, BeginWith, GoTo, Idle, Clean, Hit,
            Statement, DbOutcomes, TypeOK
<1>1. CASE CountUsers(c)
  BY <1>1 DEF CountUsers, friendVars
<1>2. CASE CheckPair(c)
  BY <1>2 DEF CheckPair, friendVars
<1>3. CASE InsertRow(c)
  BY <1>3 DEF InsertRow
<1>4. CASE FindRequest(c)
  BY <1>4 DEF FindRequest
<1>5. CASE SaveApproved(c)
  BY <1>5 DEF SaveApproved
<1>6. CASE DeleteFriend(c)
  BY <1>6 DEF DeleteFriend
<1> QED
  BY <1>1, <1>2, <1>3, <1>4, <1>5, <1>6 DEF FriendsStep, AddFriend, ApproveFriend

LEMMA CountUsersStep ==
    ASSUME IInv, NEW c \in Calls, CountUsers(c),
           UNCHANGED <<accountVars, replicaUsers, mustEnd>>
    PROVE  IInv'
<1> USE DEF IInv, accountVars
<1>1. PICK u \in Users, v \in Users :
        /\ \/ /\ \E r \in Replicas :
                   BeginWith(c, "add", u, v,
                       IF {u, v} \subseteq replicaUsers[r] THEN "pair" ELSE "refused")
              /\ Clean
           \/ BeginWith(c, "add", u, v, "failed") /\ Hit(c)
        /\ mustSee' = [mustSee EXCEPT ![c] = RowsToSee(u, v)]
  BY DEF CountUsers
<1>2. PICK step \in {"pair", "refused", "failed"} :
        /\ BeginWith(c, "add", u, v, step)
        /\ step = "pair" => {u, v} \subseteq users
        /\ (Clean /\ step # "failed") \/ Hit(c)
  <2>1. \A r \in Replicas : {u, v} \subseteq replicaUsers[r] => {u, v} \subseteq users
    BY DEF TypeOK
  <2> QED
    BY <1>1, <2>1
<1>3. /\ pc[c] = "idle" /\ u # v /\ op' = [op EXCEPT ![c] = "add"]
      /\ who' = [who EXCEPT ![c] = u] /\ pc' = [pc EXCEPT ![c] = step]
      /\ peer' = [peer EXCEPT ![c] = v]
      /\ (hit' = hit /\ step # "failed") \/ hit' = hit \union {c}
      /\ UNCHANGED <<status, target, revived, replicaRows,
                     users, mapped, tokens, replicaUsers, mustEnd>>
  BY <1>2 DEF BeginWith, Begin, Idle, Clean, Hit, CountUsers, friendVars
<1>4. OwnStep(c)
  BY FriendsOwn DEF FriendsStep, AddFriend
<1>5. status[c] = "none" /\ c \notin tokens
  BY <1>3 DEF RowsSettled, TokensSettled, Outcome
<1>6. \A d \in RowsToSee(u, v) :
        /\ d \in Calls /\ d # c /\ status[d] # "none"
        /\ {who[d], peer[d]} = {u, v} /\ \A r \in Replicas : d \in replicaRows[r]
  BY <1>5 DEF RowsToSee, Present
<1>7. mustSee'[c] = RowsToSee(u, v) /\ mustSee' \in [Calls -> SUBSET Calls]
  <2>1. RowsToSee(u, v) \in SUBSET Calls
    BY <1>6
  <2> QED
    BY <1>1, <2>1 DEF TypeOK
<1>8. TypeOK'
  BY <1>3, <1>5, <1>7 DEF TypeOK, FriendOps, FriendSteps, Outcome
<1>9. Reached'
  BY <1>2, <1>3 DEF Reached, TypeOK, Active
<1>10. SeenBy(c)'
  <2>1. who'[c] = u /\ peer'[c] = v
    BY <1>3 DEF TypeOK
  <2>2. \A d \in Calls : d # c => who'[d] = who[d] /\ peer'[d] = peer[d]
    BY <1>3 DEF TypeOK
  <2> SUFFICES ASSUME NEW d \in RowsToSee(u, v)
               PROVE  /\ status'[d] # "none" /\ {who'[c], peer'[c]} = {who'[d], peer'[d]}
                      /\ \/ c \in hit' \/ d \in revived'
                         \/ pc'[c] \in Outcome /\ status'[c] = "none"
                         \/ pc'[c] = "pair" /\ \A r \in Replicas : d \in replicaRows'[r]
    BY <1>7 DEF SeenBy
  <2>3. \A r \in Replicas : d \in replicaRows[r]
    BY <1>6
  <2>4. status'[d] # "none" /\ {who'[c], peer'[c]} = {who'[d], peer'[d]}
    BY <1>3, <1>6, <2>1, <2>2
  <2> QED
    BY <1>3, <1>5, <2>3, <2>4 DEF TypeOK, Outcome
<1>11. ApprovalsMatch' /\ RowsSettled' /\ RowsSeen' /\ RowsJustified'
  BY <1>3, <1>4, <1>10, FriendsKept DEF TypeOK
<1>12. /\ TokensSettled' /\ RegistrationsDiffer' /\ SessionsKnown'
       /\ OneAccount' /\ OlderSessionsEnd'
  BY <1>3, <1>4, AccountsKept DEF AccountSteps, AccountOps, TypeOK
<1> QED
  BY <1>8, <1>9, <1>11, <1>12

LEMMA CheckPairStep ==
    ASSUME IInv, NEW c \in Calls, CheckPair(c),
           UNCHANGED <<accountVars, replicaUsers, mustEnd>>
    PROVE  IInv'
<1> USE DEF IInv, accountVars
<1>1. OwnStep(c)
  BY FriendsOwn DEF FriendsStep, AddFriend
<1>2. PICK step \in {"refused", "row"} :
        /\ GoTo(c, step)
        /\ \/ /\ step = "row" => \E r \in Replicas : \A d \in replicaRows[r] : ~SamePair(c, d)
              /\ Clean
           \/ Hit(c)
  <2>1. ASSUME NEW r \in Replicas, Clean,
               GoTo(c, IF \E d \in replicaRows[r] : SamePair(c, d) THEN "refused" ELSE "row")
        PROVE  \E step \in {"refused", "row"} :
                 GoTo(c, step) /\ (step = "row" => \A d \in replicaRows[r] : ~SamePair(c, d))
    <3>1. CASE \E d \in replicaRows[r] : SamePair(c, d)
      BY <2>1, <3>1
    <3>2. CASE \A d \in replicaRows[r] : ~SamePair(c, d)
      BY <2>1, <3>2
    <3> QED
      BY <3>1, <3>2
  <2> QED
    BY <2>1 DEF CheckPair
<1>3. /\ pc[c] = "pair" /\ pc' = [pc EXCEPT ![c] = step]
      /\ hit' \in {hit, hit \union {c}}
      /\ op[c] = "add" /\ who[c] # peer[c] /\ {who[c], peer[c]} \subseteq users
      /\ UNCHANGED <<op, who, peer, target, mustSee, status, revived, replicaRows,
                     users, mapped, tokens, replicaUsers, mustEnd>>
  BY <1>2 DEF CheckPair, GoTo, Clean, Hit, Reached, friendVars, routeVars
<1>4. step = "row" /\ c \notin hit' =>
        \E r \in Replicas : \A d \in replicaRows[r] : ~SamePair(c, d)
  BY <1>2 DEF Hit
<1>5. TypeOK'
  BY <1>3 DEF TypeOK, FriendSteps, Outcome
<1>6. Reached'
  BY <1>3 DEF Reached, TypeOK, Active
<1>7. SeenBy(c)'
  <2>1. status[c] = "none"
    BY <1>3 DEF RowsSettled, Outcome
  <2>2. ASSUME NEW d \in mustSee[c]
        PROVE  /\ status[d] # "none" /\ {who[c], peer[c]} = {who[d], peer[d]}
               /\ \/ c \in hit' \/ d \in revived \/ status[d] = "deleted"
                  \/ step = "refused"
    <3>1. /\ status[d] # "none" /\ {who[c], peer[c]} = {who[d], peer[d]}
          /\ \/ c \in hit \/ d \in revived \/ status[d] = "deleted"
             \/ \A r \in Replicas : d \in replicaRows[r]
      BY <1>3 DEF RowsSeen, SeenBy, Outcome
    <3> QED
      BY <1>3, <1>4, <3>1 DEF SamePair
  <2> QED
    BY <1>3, <2>1, <2>2 DEF SeenBy, Outcome, TypeOK
<1>8. ApprovalsMatch' /\ RowsSettled' /\ RowsSeen' /\ RowsJustified'
  BY <1>1, <1>3, <1>7, FriendsKept DEF TypeOK
<1>9. /\ TokensSettled' /\ RegistrationsDiffer' /\ SessionsKnown'
      /\ OneAccount' /\ OlderSessionsEnd'
  BY <1>1, <1>3, AccountsKept DEF AccountSteps, AccountOps, TypeOK
<1> QED
  BY <1>5, <1>6, <1>8, <1>9

LEMMA InsertRowStep ==
    ASSUME IInv, NEW c \in Calls, InsertRow(c),
           UNCHANGED <<accountVars, replicaUsers, mustEnd>>
    PROVE  IInv'
<1> USE DEF IInv, accountVars
<1>1. OwnStep(c)
  BY FriendsOwn DEF FriendsStep, AddFriend
<1>2. PICK o \in DbOutcomes :
        /\ status' = IF o = "refused" THEN status ELSE [status EXCEPT ![c] = "pending"]
        /\ GoTo(c, IF o = "ok" THEN "ok" ELSE "failed")
        /\ Statement(c, o)
  BY DEF InsertRow
<1>3. PICK step \in {"ok", "failed"} : pc' = [pc EXCEPT ![c] = step]
  BY <1>2 DEF GoTo
<1>4. /\ pc[c] = "row" /\ status' \in {status, [status EXCEPT ![c] = "pending"]}
      /\ hit \subseteq hit' /\ hit' \subseteq Calls
      /\ op[c] = "add" /\ who[c] # peer[c] /\ {who[c], peer[c]} \subseteq users
      /\ UNCHANGED <<op, who, peer, target, mustSee, revived, replicaRows,
                     users, mapped, tokens, replicaUsers, mustEnd>>
  BY <1>2, HitGrows DEF InsertRow, GoTo, Reached, routeVars, TypeOK
<1>5. status[c] = "none"
  BY <1>4 DEF RowsSettled, Outcome
<1>6. TypeOK'
  <2>1. status' \in [Calls -> Status] /\ \A d \in Calls : status[d] # "none" => status'[d] # "none"
    BY <1>4 DEF TypeOK, Status
  <2>2. replicaRows' \in [Replicas -> SUBSET {d \in Calls : status'[d] # "none"}]
    BY <1>4, <2>1 DEF TypeOK
  <2> QED
    BY <1>3, <1>4, <2>1, <2>2 DEF TypeOK, Outcome
<1>7. Reached'
  BY <1>3, <1>4 DEF Reached, TypeOK, Active
<1>8. ApprovalsMatch'
  <2>1. \A x \in Calls : pc[x] = "save" => target[x] # c
    BY <1>5 DEF ApprovalsMatch
  <2> QED
    BY <1>3, <1>4, <2>1 DEF ApprovalsMatch, TypeOK
<1>9. RowsSettled'
  BY <1>3, <1>4 DEF RowsSettled, Outcome, TypeOK
<1>10. RowsSeen'
  <2> SUFFICES ASSUME NEW x \in Calls, op[x] = "add", NEW d \in mustSee[x]
               PROVE  /\ status'[d] # "none" /\ {who[x], peer[x]} = {who[d], peer[d]}
                      /\ \/ x \in hit' \/ d \in revived \/ status'[d] = "deleted"
                         \/ pc'[x] \in Outcome /\ status'[x] = "none"
                         \/ pc'[x] = "pair" /\ \A r \in Replicas : d \in replicaRows[r]
    BY <1>4 DEF RowsSeen, SeenBy
  <2>1. /\ status[d] # "none" /\ {who[x], peer[x]} = {who[d], peer[d]}
        /\ \/ x \in hit \/ d \in revived \/ status[d] = "deleted"
           \/ pc[x] \in Outcome /\ status[x] = "none"
           \/ pc[x] = "pair" /\ \A r \in Replicas : d \in replicaRows[r]
    BY RowSeen
  <2>2. d \in Calls /\ d # c /\ status'[d] = status[d]
    <3>1. d \in Calls
      BY RowSeen
    <3> QED
      BY <1>4, <1>5, <2>1, <3>1 DEF TypeOK
  <2>3. x = c => pc[x] \notin Outcome /\ pc[x] # "pair"
    BY <1>4 DEF Outcome
  <2>4. x # c => pc'[x] = pc[x] /\ status'[x] = status[x]
    BY <1>3, <1>4 DEF TypeOK
  <2>5. x \in hit => x \in hit'
    BY <1>4
  <2> QED
    BY <2>1, <2>2, <2>3, <2>4, <2>5
<1>11. RowsJustified'
  <2>1. \A x \in Calls : pc[x] \in {"ok", "failed"} => pc'[x] = pc[x]
    BY <1>3, <1>4 DEF TypeOK
  <2>2. \A d \in Calls : status'[d] = "approved" => status[d] = "approved"
    BY <1>4 DEF TypeOK
  <2>3. \A d \in Calls : status'[d] # "none" => status[d] # "none" \/ d = c
    BY <1>4 DEF TypeOK
  <2> QED
    BY <1>4, <2>1, <2>2, <2>3 DEF RowsJustified
<1>12. /\ TokensSettled' /\ RegistrationsDiffer' /\ SessionsKnown'
       /\ OneAccount' /\ OlderSessionsEnd'
  BY <1>1, <1>3, <1>4, AccountsKept DEF AccountSteps, AccountOps, TypeOK
<1> QED
  BY <1>6, <1>7, <1>8, <1>9, <1>10, <1>11, <1>12

LEMMA FindRequestStep ==
    ASSUME IInv, NEW c \in Calls, FindRequest(c),
           UNCHANGED <<accountVars, replicaUsers, mustEnd>>
    PROVE  IInv'
<1> USE DEF IInv, accountVars
<1>1. OwnStep(c)
  BY FriendsOwn DEF FriendsStep, ApproveFriend
<1>2. PICK u \in Users, v \in Users, step \in {"save", "refused"} :
        /\ BeginWith(c, "approve", u, v, step)
        /\ \/ /\ step = "save"
              /\ \E d \in Calls : /\ status[d] = "pending" /\ who[d] = v /\ peer[d] = u
                                  /\ target' = [target EXCEPT ![c] = d]
           \/ step = "refused" /\ target' = target
        /\ Clean \/ Hit(c)
  BY DEF FindRequest
<1>3. /\ pc[c] = "idle" /\ op' = [op EXCEPT ![c] = "approve"]
      /\ who' = [who EXCEPT ![c] = u] /\ pc' = [pc EXCEPT ![c] = step]
      /\ peer' = [peer EXCEPT ![c] = v] /\ hit' \in {hit, hit \union {c}}
      /\ UNCHANGED <<status, revived, replicaRows, mustSee,
                     users, mapped, tokens, replicaUsers, mustEnd>>
  BY <1>2 DEF BeginWith, Begin, Idle, Clean, Hit, FindRequest
<1>4. status[c] = "none" /\ c \notin tokens
  BY <1>3 DEF RowsSettled, TokensSettled, Outcome
<1>5. TypeOK'
  BY <1>2, <1>3, <1>4 DEF TypeOK, FriendOps, FriendSteps, Outcome
<1>6. Reached'
  BY <1>3 DEF Reached, TypeOK, Active
<1>7. ApprovalsMatch'
  <2>1. ASSUME NEW x \in Calls \ {c}, pc[x] = "save" PROVE target[x] \in Calls \ {c}
    BY <1>4, <2>1 DEF ApprovalsMatch, TypeOK
  <2>2. \A x \in Calls \ {c} :
          /\ target'[x] = target[x] /\ pc'[x] = pc[x] /\ op'[x] = op[x]
          /\ who'[x] = who[x] /\ peer'[x] = peer[x]
    BY <1>1 DEF OwnStep
  <2>3. ASSUME step = "save"
        PROVE  /\ op'[c] = "approve" /\ status[target'[c]] # "none"
               /\ who'[c] = peer'[target'[c]] /\ peer'[c] = who'[target'[c]]
    <3>1. PICK d \in Calls : /\ status[d] = "pending" /\ who[d] = v /\ peer[d] = u
                             /\ target' = [target EXCEPT ![c] = d]
      BY <1>2, <2>3
    <3> QED
      BY <1>3, <1>4, <2>2, <3>1 DEF TypeOK
  <2>4. pc'[c] = "save" => step = "save"
    BY <1>3 DEF TypeOK
  <2> QED
    BY <1>3, <2>1, <2>2, <2>3, <2>4 DEF ApprovalsMatch
<1>8. RowsSettled'
  BY <1>3, <1>4 DEF RowsSettled, TypeOK
<1>9. RowsSeen'
  <2> SUFFICES ASSUME NEW x \in Calls \ {c}, op[x] = "add" PROVE SeenBy(x)'
    BY <1>3 DEF RowsSeen, TypeOK
  <2>1. SeenBy(x) /\ mustSee[x] \subseteq Calls
    BY DEF RowsSeen, TypeOK
  <2>2. \A d \in mustSee[x] : d \in Calls \ {c}
    BY <1>4, <2>1 DEF SeenBy
  <2>3. \A d \in Calls \ {c} : who'[d] = who[d] /\ peer'[d] = peer[d] /\ pc'[d] = pc[d]
    BY <1>1 DEF OwnStep
  <2> QED
    BY <1>3, <2>1, <2>2, <2>3 DEF SeenBy
<1>10. RowsJustified'
  <2> SUFFICES ASSUME NEW d \in Calls \ {c}, status[d] # "none"
               PROVE  /\ op'[d] = "add" /\ {who'[d], peer'[d]} \subseteq users'
                      /\ status[d] = "approved" =>
                           \E x \in Calls : /\ op'[x] = "approve" /\ target'[x] = d
                                            /\ who'[x] = peer'[d] /\ peer'[x] = who'[d]
                                            /\ pc'[x] \in {"ok", "failed"}
    BY <1>3, <1>4 DEF RowsJustified
  <2>1. \A x \in Calls \ {c} :
          /\ target'[x] = target[x] /\ pc'[x] = pc[x] /\ op'[x] = op[x]
          /\ who'[x] = who[x] /\ peer'[x] = peer[x]
    BY <1>1 DEF OwnStep
  <2>2. \A x \in Calls : pc[x] \in {"ok", "failed"} => x \in Calls \ {c}
    BY <1>3
  <2>3. {who'[d], peer'[d]} \subseteq users'
    BY <1>3, <2>1 DEF RowsJustified
  <2> QED
    BY <2>1, <2>2, <2>3 DEF RowsJustified
<1>11. /\ TokensSettled' /\ RegistrationsDiffer' /\ SessionsKnown'
       /\ OneAccount' /\ OlderSessionsEnd'
  BY <1>1, <1>3, AccountsKept DEF AccountSteps, AccountOps, TypeOK
<1> QED
  BY <1>5, <1>6, <1>7, <1>8, <1>9, <1>10, <1>11

(* What a change of rows that are there already leaves as it was.          *)
LEMMA RowsChange ==
    ASSUME IInv, NEW c \in Calls, OwnStep(c), status' \in [Calls -> Status],
           \A d \in Calls : status'[d] = "none" <=> status[d] = "none",
           \A d \in Calls : status[d] = "deleted" => status'[d] = "deleted" \/ d \in revived',
           revived \subseteq revived', pc'[c] # "save", op'[c] # "add",
           UNCHANGED <<replicaRows, users>>
    PROVE  /\ replicaRows' \in [Replicas -> SUBSET {d \in Calls : status'[d] # "none"}]
           /\ ApprovalsMatch' /\ RowsSettled' /\ RowsSeen'
<1> USE DEF IInv
<1>1. replicaRows' \in [Replicas -> SUBSET {d \in Calls : status'[d] # "none"}]
  BY DEF TypeOK
<1>2. \A d \in Calls : status[d] # "none" => d # c
  BY DEF RowsSettled, OwnStep
<1>3. ApprovalsMatch'
  BY <1>2 DEF ApprovalsMatch, OwnStep, TypeOK
<1>4. RowsSettled'
  BY <1>2 DEF RowsSettled, OwnStep
<1>5. RowsSeen'
  <2> SUFFICES ASSUME NEW x \in Calls \ {c}, op[x] = "add" PROVE SeenBy(x)'
    BY DEF RowsSeen, OwnStep
  <2>1. /\ who'[x] = who[x] /\ peer'[x] = peer[x]
        /\ mustSee'[x] = mustSee[x] /\ pc'[x] = pc[x]
    BY DEF OwnStep
  <2>2. ASSUME NEW d \in mustSee[x]
        PROVE  /\ status'[d] # "none" /\ {who[x], peer[x]} = {who'[d], peer'[d]}
               /\ \/ x \in hit' \/ d \in revived' \/ status'[d] = "deleted"
                  \/ pc[x] \in Outcome /\ status'[x] = "none"
                  \/ pc[x] = "pair" /\ \A r \in Replicas : d \in replicaRows[r]
    <3>1. SeenBy(x) /\ d \in Calls
      BY DEF RowsSeen, TypeOK
    <3>2. /\ status[d] # "none" /\ {who[x], peer[x]} = {who[d], peer[d]}
          /\ \/ x \in hit \/ d \in revived \/ status[d] = "deleted"
             \/ pc[x] \in Outcome /\ status[x] = "none"
             \/ pc[x] = "pair" /\ \A r \in Replicas : d \in replicaRows[r]
      BY <3>1 DEF SeenBy
    <3>3. status'[d] # "none" /\ (status'[x] = "none" <=> status[x] = "none")
      BY <3>1, <3>2
    <3>4. status[d] = "deleted" => status'[d] = "deleted" \/ d \in revived'
      BY <3>1
    <3>5. who'[d] = who[d] /\ peer'[d] = peer[d] /\ hit \subseteq hit'
      BY <1>2, <3>1, <3>2 DEF OwnStep
    <3> QED
      BY <3>2, <3>3, <3>4, <3>5
  <2> QED
    BY <2>1, <2>2 DEF SeenBy
<1> QED
  BY <1>1, <1>3, <1>4, <1>5

LEMMA SaveApprovedStep ==
    ASSUME IInv, NEW c \in Calls, SaveApproved(c),
           UNCHANGED <<accountVars, replicaUsers, mustEnd>>
    PROVE  IInv'
<1> USE DEF IInv, accountVars
<1>1. OwnStep(c)
  BY FriendsOwn DEF FriendsStep, ApproveFriend
<1>2. PICK o \in DbOutcomes :
        /\ status' = IF o = "refused" THEN status
                     ELSE [status EXCEPT ![target[c]] = "approved"]
        /\ revived' = IF o # "refused" /\ status[target[c]] = "deleted"
                      THEN revived \union {target[c]} ELSE revived
        /\ GoTo(c, IF o = "ok" THEN "ok" ELSE "failed")
        /\ Statement(c, o)
  BY DEF SaveApproved
<1>3. PICK step \in {"ok", "failed"} : pc' = [pc EXCEPT ![c] = step]
  BY <1>2 DEF GoTo
<1>4. /\ pc[c] = "save" /\ op[c] = "approve" /\ status[target[c]] # "none"
      /\ who[c] = peer[target[c]] /\ peer[c] = who[target[c]]
      /\ hit \subseteq hit' /\ hit' \subseteq Calls
      /\ UNCHANGED <<op, who, peer, target, mustSee, replicaRows,
                     users, mapped, tokens, replicaUsers, mustEnd>>
  BY <1>2, HitGrows DEF SaveApproved, GoTo, ApprovalsMatch, routeVars, TypeOK
<1>5. /\ status' \in [Calls -> Status] /\ revived \subseteq revived' /\ revived' \subseteq Calls
      /\ \A d \in Calls :
           /\ status'[d] = "none" <=> status[d] = "none"
           /\ status[d] = "deleted" => status'[d] = "deleted" \/ d \in revived'
           /\ status'[d] = "approved" => status[d] = "approved" \/ d = target[c]
  BY <1>2, <1>4 DEF TypeOK, Status
<1>6. /\ replicaRows' \in [Replicas -> SUBSET {d \in Calls : status'[d] # "none"}]
      /\ ApprovalsMatch' /\ RowsSettled' /\ RowsSeen'
  BY <1>1, <1>3, <1>4, <1>5, RowsChange DEF TypeOK
<1>7. TypeOK'
  BY <1>3, <1>4, <1>5, <1>6 DEF TypeOK, Outcome
<1>8. Reached'
  BY <1>3, <1>4 DEF Reached, TypeOK, Active
<1>9. RowsJustified'
  <2>1. \A x \in Calls : pc[x] \in {"ok", "failed"} => pc'[x] \in {"ok", "failed"}
    BY <1>3, <1>4 DEF TypeOK
  <2>2. pc'[c] \in {"ok", "failed"}
    BY <1>3 DEF TypeOK
  <2> QED
    BY <1>4, <1>5, <2>1, <2>2 DEF RowsJustified
<1>10. /\ TokensSettled' /\ RegistrationsDiffer' /\ SessionsKnown'
       /\ OneAccount' /\ OlderSessionsEnd'
  BY <1>1, <1>3, <1>4, AccountsKept DEF AccountSteps, AccountOps, TypeOK
<1> QED
  BY <1>6, <1>7, <1>8, <1>9, <1>10

LEMMA DeleteFriendStep ==
    ASSUME IInv, NEW c \in Calls, DeleteFriend(c),
           UNCHANGED <<accountVars, replicaUsers, mustEnd>>
    PROVE  IInv'
<1> USE DEF IInv, accountVars
<1>1. OwnStep(c)
  BY FriendsOwn DEF FriendsStep
<1>2. PICK u \in Users, v \in Users, o \in DbOutcomes :
        /\ BeginWith(c, "unfriend", u, v, IF o = "ok" THEN "ok" ELSE "failed")
        /\ status' = IF o = "refused" THEN status
                     ELSE [d \in Calls |-> IF Present(d) /\ {who[d], peer[d]} = {u, v}
                                           THEN "deleted" ELSE status[d]]
        /\ Statement(c, o)
  BY DEF DeleteFriend
<1>3. PICK step \in {"ok", "failed"} : BeginWith(c, "unfriend", u, v, step)
  BY <1>2
<1>4. /\ pc[c] = "idle" /\ op' = [op EXCEPT ![c] = "unfriend"]
      /\ who' = [who EXCEPT ![c] = u] /\ pc' = [pc EXCEPT ![c] = step]
      /\ peer' = [peer EXCEPT ![c] = v] /\ hit \subseteq hit' /\ hit' \subseteq Calls
      /\ UNCHANGED <<target, revived, replicaRows, mustSee,
                     users, mapped, tokens, replicaUsers, mustEnd>>
  BY <1>2, <1>3, HitGrows DEF BeginWith, Begin, Idle, DeleteFriend, TypeOK
<1>5. status[c] = "none" /\ c \notin tokens
  BY <1>4 DEF RowsSettled, TokensSettled, Outcome
<1>6. /\ status' \in [Calls -> Status]
      /\ \A d \in Calls :
           /\ status'[d] = "none" <=> status[d] = "none"
           /\ status[d] = "deleted" => status'[d] = "deleted"
           /\ status'[d] = "approved" => status[d] = "approved"
  BY <1>2 DEF TypeOK, Status, Present
<1>7. /\ replicaRows' \in [Replicas -> SUBSET {d \in Calls : status'[d] # "none"}]
      /\ ApprovalsMatch' /\ RowsSettled' /\ RowsSeen'
  BY <1>1, <1>4, <1>6, RowsChange DEF TypeOK
<1>8. TypeOK'
  BY <1>4, <1>5, <1>6, <1>7 DEF TypeOK, FriendOps, Outcome
<1>9. Reached'
  BY <1>4 DEF Reached, TypeOK, Active, Outcome
<1>10. RowsJustified'
  <2> SUFFICES ASSUME NEW d \in Calls \ {c}, status[d] # "none"
               PROVE  /\ op'[d] = "add" /\ {who'[d], peer'[d]} \subseteq users'
                      /\ status[d] = "approved" =>
                           \E x \in Calls : /\ op'[x] = "approve" /\ target'[x] = d
                                            /\ who'[x] = peer'[d] /\ peer'[x] = who'[d]
                                            /\ pc'[x] \in {"ok", "failed"}
    BY <1>5, <1>6 DEF RowsJustified
  <2>1. \A x \in Calls \ {c} :
          /\ target'[x] = target[x] /\ pc'[x] = pc[x] /\ op'[x] = op[x]
          /\ who'[x] = who[x] /\ peer'[x] = peer[x]
    BY <1>1 DEF OwnStep
  <2>2. \A x \in Calls : pc[x] \in {"ok", "failed"} => x \in Calls \ {c}
    BY <1>4
  <2>3. {who'[d], peer'[d]} \subseteq users'
    BY <1>4, <2>1 DEF RowsJustified
  <2> QED
    BY <2>1, <2>2, <2>3 DEF RowsJustified
<1>11. /\ TokensSettled' /\ RegistrationsDiffer' /\ SessionsKnown'
       /\ OneAccount' /\ OlderSessionsEnd'
  BY <1>1, <1>4, AccountsKept DEF AccountSteps, AccountOps, TypeOK
<1> QED
  BY <1>7, <1>8, <1>9, <1>10, <1>11

LEMMA FriendsStepKeeps ==
    ASSUME IInv, FriendsNext
    PROVE  IInv'
<1>1. PICK c \in Calls : FriendsStep(c)
  BY DEF FriendsNext
<1>2. UNCHANGED <<accountVars, replicaUsers, mustEnd>>
  BY DEF FriendsNext
<1> QED
  BY <1>1, <1>2, CountUsersStep, CheckPairStep, InsertRowStep, FindRequestStep,
     SaveApprovedStep, DeleteFriendStep DEF FriendsStep, AddFriend, ApproveFriend


(* A step of a call keeps op and who of the others, so a crash at any step  *)
(* leaves a call that is finished and known to be hit.                     *)
LEMMA CrashStep ==
    ASSUME IInv, CrashNext
    PROVE  IInv'
<1> USE DEF IInv
<1>1. PICK c \in Calls : Crash(c)
  BY DEF CrashNext
<1>2. /\ pc[c] \notin Outcome /\ pc[c] # "idle"
      /\ pc' = [pc EXCEPT ![c] = "failed"] /\ hit' = hit \union {c}
      /\ UNCHANGED <<op, who, peer, target, mustSee, status, revived, replicaRows,
                     users, mapped, tokens, replicaUsers, mustEnd>>
  BY <1>1 DEF Crash, Active, Hit, GoTo, CrashNext, accountVars, friendVars, routeVars
<1>3. OwnStep(c)
  BY <1>2 DEF OwnStep, TypeOK
<1>4. TypeOK'
  BY <1>2 DEF TypeOK, Outcome
<1>5. Reached'
  BY <1>2 DEF Reached, TypeOK, Active, Outcome
<1>6. ApprovalsMatch' /\ RowsSettled' /\ RowsSeen' /\ RowsJustified'
  BY <1>2, <1>3, FriendsKept DEF TypeOK
<1>7. /\ TokensSettled' /\ RegistrationsDiffer' /\ SessionsKnown'
      /\ OneAccount' /\ OlderSessionsEnd'
  BY <1>2, <1>3, AccountsKept DEF AccountSteps, AccountOps, TypeOK
<1> QED
  BY <1>4, <1>5, <1>6, <1>7

(* A replica that catches up knows all users and shows every row present.  *)
LEMMA CatchUpStep ==
    ASSUME IInv, NEW r \in Replicas, CatchUp(r)
    PROVE  IInv'
<1> USE DEF IInv
<1>1. /\ replicaUsers' = [replicaUsers EXCEPT ![r] = users]
      /\ replicaRows' = [replicaRows EXCEPT ![r] = {d \in Calls : Present(d)}]
      /\ UNCHANGED <<users, mapped, tokens, op, who, pc, hit, mustEnd,
                     status, target, revived, peer, mustSee>>
  BY DEF CatchUp, ReplicateUsers, ReplicateRows, accountVars, callVars, friendVars, routeVars
<1>2. TypeOK'
  <2>1. replicaRows' \in [Replicas -> SUBSET {d \in Calls : status'[d] # "none"}]
    BY <1>1 DEF TypeOK, Present
  <2> QED
    BY <1>1, <2>1 DEF TypeOK
<1>3. \A x \in Replicas : replicaUsers[x] \subseteq replicaUsers'[x]
  BY <1>1 DEF TypeOK
<1>4. SessionsKnown'
  BY <1>1, <1>3 DEF SessionsKnown
<1>5. RowsSeen'
  <2> SUFFICES ASSUME NEW x \in Calls, op[x] = "add", NEW d \in mustSee[x]
               PROVE  /\ status[d] # "none" /\ {who[x], peer[x]} = {who[d], peer[d]}
                      /\ \/ x \in hit \/ d \in revived \/ status[d] = "deleted"
                         \/ pc[x] \in Outcome /\ status[x] = "none"
                         \/ pc[x] = "pair" /\ \A y \in Replicas : d \in replicaRows'[y]
    BY <1>1 DEF RowsSeen, SeenBy
  <2>1. d \in Calls
    BY DEF TypeOK
  <2>2. /\ status[d] # "none" /\ {who[x], peer[x]} = {who[d], peer[d]}
        /\ \/ x \in hit \/ d \in revived \/ status[d] = "deleted"
           \/ pc[x] \in Outcome /\ status[x] = "none"
           \/ pc[x] = "pair" /\ \A y \in Replicas : d \in replicaRows[y]
    BY DEF RowsSeen, SeenBy
  <2>3. Present(d) => \A y \in Replicas : d \in replicaRows[y] => d \in replicaRows'[y]
    BY <1>1, <2>1 DEF TypeOK
  <2>4. Present(d) \/ status[d] = "deleted"
    BY <2>1, <2>2 DEF TypeOK, Status, Present
  <2> QED
    BY <2>2, <2>3, <2>4
<1>6. Reached' /\ ApprovalsMatch' /\ RowsSettled' /\ TokensSettled' /\ RegistrationsDiffer'
  BY <1>1 DEF Reached, Active, ApprovalsMatch, RowsSettled, TokensSettled, RegistrationsDiffer
<1>7. OneAccount' /\ OlderSessionsEnd' /\ RowsJustified'
  BY <1>1 DEF OneAccount, OlderSessionsEnd, RowsJustified
<1> QED
  BY <1>2, <1>4, <1>5, <1>6, <1>7

LEMMA InitIInv == Init => IInv
<1> SUFFICES ASSUME Init PROVE IInv
  OBVIOUS
<1> USE DEF Init, AccountsInit, FriendsInit
<1>1. AnyUser \in Users
  BY AccountsAssumption DEF AnyUser
<1>2. TypeOK
  BY <1>1 DEF TypeOK, Status
<1>3. Reached /\ ApprovalsMatch /\ RowsSettled /\ TokensSettled /\ RegistrationsDiffer
  BY DEF Reached, Active, ApprovalsMatch, RowsSettled, TokensSettled, RegistrationsDiffer
<1>4. SessionsKnown /\ RowsSeen /\ OneAccount /\ OlderSessionsEnd /\ RowsJustified
  BY DEF SessionsKnown, RowsSeen, OneAccount, OlderSessionsEnd, RowsJustified
<1> QED
  BY <1>2, <1>3, <1>4 DEF IInv

LEMMA StutterKeeps ==
    ASSUME IInv, UNCHANGED vars
    PROVE  IInv'
<1>1. UNCHANGED <<users, mapped, tokens, op, who, pc, hit, mustEnd, replicaUsers,
                  status, target, revived, peer, mustSee, replicaRows>>
  BY DEF vars, accountVars, callVars, friendVars, routeVars
<1>2. /\ TypeOK' /\ Reached' /\ ApprovalsMatch' /\ RowsSettled' /\ TokensSettled'
      /\ RegistrationsDiffer'
  BY <1>1 DEF IInv, TypeOK, Reached, Active, ApprovalsMatch, RowsSettled, TokensSettled,
              RegistrationsDiffer
<1>3. /\ SessionsKnown' /\ RowsSeen' /\ OneAccount' /\ OlderSessionsEnd' /\ RowsJustified'
  BY <1>1 DEF IInv, SessionsKnown, RowsSeen, SeenBy, OneAccount, OlderSessionsEnd,
              RowsJustified
<1> QED
  BY <1>2, <1>3 DEF IInv

LEMMA NextIInv == IInv /\ [Next]_vars => IInv'
  BY AccountsStepKeeps, FriendsStepKeeps, CrashStep, CatchUpStep, StutterKeeps DEF Next

(* The inductive invariant holds in every state the members can be in.     *)
THEOREM Inductive == Spec => []IInv
  BY InitIInv, NextIInv, PTL DEF Spec

-----------------------------------------------------------------------------
(* The tables, calls and replicas have their types: in particular only     *)
(* users have shards and sessions, and a replica shows rows that exist.    *)
THEOREM MembersTypeCorrect == Spec => []TypeOK
  BY Inductive, PTL DEF IInv

(* A nickname is given out once: the look-up on a replica may be stale,    *)
(* the unique index on the master is not, so of two registrations of a     *)
(* nickname one at most gets past InsertUser.                              *)
THEOREM AccountsAreUnique == Spec => []OneAccount
  BY Inductive, PTL DEF IInv

(* A session that a login or logout finds when it begins is gone when the  *)
(* tokens have been deleted, and does not come back: a login never inserts *)
(* a token twice.                                                          *)
THEOREM SessionsEnd == Spec => []OlderSessionsEnd
  BY Inductive, PTL DEF IInv

(* Every row goes back to the request of its user and every approved one   *)
(* to an approval of its friend, also the rows an approval brought back.   *)
THEOREM RowsAreJustified == Spec => []RowsJustified
  BY Inductive, PTL DEF IInv

(* A request whose row stands beside one it could not miss was hit by an   *)
(* error, or an approval has brought the other row back.                   *)
THEOREM DuplicatesHaveCause == Spec => []DuplicateHasCause
<1>1. IInv => DuplicateHasCause
  <2> SUFFICES ASSUME IInv, NEW c \in Calls, NEW d \in Calls,
                      Present(c), Present(d), d \in mustSee[c]
               PROVE  c \in hit \/ d \in revived
    BY DEF DuplicateHasCause
  <2>1. op[c] = "add" /\ pc[c] \in Outcome /\ status[c] # "none" /\ status[d] # "deleted"
    BY DEF IInv, RowsJustified, RowsSettled, Present
  <2> QED
    BY <2>1 DEF IInv, RowsSeen, SeenBy, Outcome
<1> QED
  BY <1>1, Inductive, PTL

-----------------------------------------------------------------------------
(* A row keeps its users while another call moves.                         *)
LEMMA RowsKeepUsers ==
    ASSUME IInv, NEW c \in Calls, OwnStep(c)
    PROVE  \A d \in Calls : status[d] # "none" =>
             d # c /\ who'[d] = who[d] /\ peer'[d] = peer[d]
  BY DEF IInv, RowsSettled, OwnStep

(* A call that neither begins nor ends a save leaves the approvals.        *)
LEMMA ApprovingKept ==
    ASSUME NEW c \in Calls, OwnStep(c), pc[c] # "save", pc'[c] # "save"
    PROVE  Approving' = Approving
<1>1. \A x \in Calls : (pc'[x] = "save") <=> (pc[x] = "save")
  BY DEF OwnStep
<1>2. \A x \in Calls : pc[x] = "save" => who'[x] = who[x] /\ peer'[x] = peer[x]
  BY DEF OwnStep
<1> QED
  BY <1>1, <1>2 DEF Approving

LEMMA TableKept ==
    ASSUME IInv, NEW c \in Calls, OwnStep(c), status' = status
    PROVE  Asked' = Asked /\ FriendPairs' = FriendPairs
  BY RowsKeepUsers DEF Asked, FriendPairs

(* A call that stops saving leaves the other approvals.                    *)
LEMMA SaveEnds ==
    ASSUME IInv, NEW c \in Calls, OwnStep(c), pc[c] = "save", pc'[c] # "save"
    PROVE  /\ <<c, peer[c], who[c]>> \in Approving
           /\ Approving' = Approving \ {<<c, peer[c], who[c]>>}
<1>1. <<c, peer[c], who[c]>> \in Approving
  BY DEF Approving
<1>2. \A x \in Calls : (pc'[x] = "save") <=> (pc[x] = "save" /\ x # c)
  BY DEF OwnStep
<1>3. \A x \in Calls : who'[x] = who[x] /\ peer'[x] = peer[x]
  BY DEF OwnStep
<1>4. Approving' = {<<x, peer[x], who[x]>> : x \in {e \in Calls : pc[e] = "save" /\ e # c}}
  BY <1>2, <1>3 DEF Approving
<1>5. \A x, y, u, v, p, q : <<x, u, v>> = <<y, p, q>> => x = y
  OBVIOUS
<1> QED
  BY <1>1, <1>4, <1>5 DEF Approving

LEMMA InsertRowAsks ==
    ASSUME IInv, NEW c \in Calls, InsertRow(c),
           UNCHANGED <<accountVars, replicaUsers, mustEnd>>
    PROVE  [Abstract!Next]_(Abstract!abstractVars)
<1>1. OwnStep(c)
  BY FriendsOwn DEF FriendsStep, AddFriend, IInv
<1>2. PICK step \in {"ok", "failed"} : pc' = [pc EXCEPT ![c] = step]
  BY DEF InsertRow, GoTo
<1>3. /\ pc[c] = "row" /\ pc'[c] # "save" /\ who[c] # peer[c] /\ status[c] = "none"
      /\ status' \in {status, [status EXCEPT ![c] = "pending"]}
      /\ UNCHANGED <<who, peer>> /\ status \in [Calls -> Status]
      /\ who[c] \in Users /\ peer[c] \in Users
  BY <1>2 DEF InsertRow, GoTo, routeVars, IInv, Reached, RowsSettled, Outcome, TypeOK
<1>4. Approving' = Approving
  BY <1>1, <1>3, ApprovingKept
<1>5. CASE status' = status
  BY <1>1, <1>4, <1>5, TableKept DEF Abstract!abstractVars
<1>6. CASE status' = [status EXCEPT ![c] = "pending"]
  <2>1. FriendPairs' = FriendPairs
    BY <1>3, <1>6 DEF FriendPairs
  <2>2. Asked' = Asked \union {<<who[c], peer[c]>>}
    BY <1>3, <1>6 DEF Asked
  <2>3. Abstract!Ask(who[c], peer[c])
    BY <1>3, <1>4, <2>1, <2>2 DEF Abstract!Ask
  <2> QED
    BY <1>3, <2>3 DEF Abstract!Next
<1> QED
  BY <1>3, <1>5, <1>6

LEMMA FindRequestBegins ==
    ASSUME IInv, NEW c \in Calls, FindRequest(c),
           UNCHANGED <<accountVars, replicaUsers, mustEnd>>
    PROVE  [Abstract!Next]_(Abstract!abstractVars)
<1>1. OwnStep(c)
  BY FriendsOwn DEF FriendsStep, ApproveFriend, IInv
<1>2. PICK u \in Users, v \in Users, step \in {"save", "refused"} :
        /\ pc[c] = "idle" /\ who' = [who EXCEPT ![c] = u]
        /\ pc' = [pc EXCEPT ![c] = step] /\ peer' = [peer EXCEPT ![c] = v]
        /\ step = "save" =>
             \E d \in Calls : status[d] = "pending" /\ who[d] = v /\ peer[d] = u
  BY DEF FindRequest, BeginWith, Begin, Idle
<1>3. Asked' = Asked /\ FriendPairs' = FriendPairs
  BY <1>1, TableKept DEF FindRequest
<1>4. CASE step = "refused"
  <2>1. Approving' = Approving
    BY <1>1, <1>2, <1>4, ApprovingKept DEF IInv, TypeOK
  <2> QED
    BY <1>3, <2>1 DEF Abstract!abstractVars
<1>5. CASE step = "save"
  <2>1. <<v, u>> \in Asked
    BY <1>2, <1>5 DEF Asked
  <2>2. \A x \in Calls : (pc'[x] = "save") <=> (pc[x] = "save" \/ x = c)
    BY <1>2, <1>5 DEF IInv, TypeOK
  <2>3. /\ \A x \in Calls \ {c} : who'[x] = who[x] /\ peer'[x] = peer[x]
        /\ who'[c] = u /\ peer'[c] = v
    BY <1>2 DEF IInv, TypeOK
  <2>4. Approving' = Approving \union {<<c, v, u>>}
    BY <1>2, <2>2, <2>3 DEF Approving
  <2>5. Abstract!BeginApproval(c, v, u)
    BY <1>3, <2>1, <2>4 DEF Abstract!BeginApproval
  <2> QED
    BY <2>5 DEF Abstract!Next
<1> QED
  BY <1>4, <1>5

LEMMA SaveApprovedEnds ==
    ASSUME IInv, NEW c \in Calls, SaveApproved(c),
           UNCHANGED <<accountVars, replicaUsers, mustEnd>>
    PROVE  [Abstract!Next]_(Abstract!abstractVars)
<1> DEFINE d == target[c]
<1>1. OwnStep(c)
  BY FriendsOwn DEF FriendsStep, ApproveFriend, IInv
<1>2. PICK step \in {"ok", "failed"} : pc' = [pc EXCEPT ![c] = step]
  BY DEF SaveApproved, GoTo
<1>3. /\ pc[c] = "save" /\ pc'[c] # "save" /\ d \in Calls
      /\ who[d] = peer[c] /\ peer[d] = who[c]
      /\ status' \in {status, [status EXCEPT ![d] = "approved"]}
      /\ UNCHANGED <<who, peer>> /\ status \in [Calls -> Status]
      /\ who[c] \in Users /\ peer[c] \in Users
  BY <1>2 DEF SaveApproved, GoTo, routeVars, IInv, ApprovalsMatch, TypeOK
<1>4. /\ <<c, peer[c], who[c]>> \in Approving
      /\ Approving' = Approving \ {<<c, peer[c], who[c]>>}
  BY <1>1, <1>3, SaveEnds
<1>5. CASE status' = status
  <2>1. Abstract!GiveUp(c, peer[c], who[c])
    BY <1>1, <1>4, <1>5, TableKept DEF Abstract!GiveUp
  <2> QED
    BY <1>3, <2>1 DEF Abstract!Next
<1>6. CASE status' = [status EXCEPT ![d] = "approved"]
  <2>1. FriendPairs' = FriendPairs \union {{peer[c], who[c]}}
    BY <1>3, <1>6 DEF FriendPairs
  <2>2. \A e \in Calls : (status'[e] = "pending") <=> (status[e] = "pending" /\ e # d)
    BY <1>3, <1>6
  <2>3. /\ Asked \ {<<peer[c], who[c]>>} \subseteq Asked'
        /\ Asked' \subseteq Asked
    BY <1>3, <2>2 DEF Asked
  <2>4. Asked' \in {Asked, Asked \ {<<peer[c], who[c]>>}}
    BY <2>3
  <2>5. Abstract!Approve(c, peer[c], who[c])
    BY <1>4, <2>1, <2>4 DEF Abstract!Approve
  <2> QED
    BY <1>3, <2>5 DEF Abstract!Next
<1> QED
  BY <1>3, <1>5, <1>6

LEMMA DeleteFriendParts ==
    ASSUME IInv, NEW c \in Calls, DeleteFriend(c),
           UNCHANGED <<accountVars, replicaUsers, mustEnd>>
    PROVE  [Abstract!Next]_(Abstract!abstractVars)
<1>1. OwnStep(c)
  BY FriendsOwn DEF FriendsStep, IInv
<1>2. PICK u \in Users, v \in Users, step \in {"ok", "failed"} :
        /\ pc[c] = "idle" /\ pc' = [pc EXCEPT ![c] = step]
        /\ \/ status' = status
           \/ status' = [d \in Calls |-> IF Present(d) /\ {who[d], peer[d]} = {u, v}
                                         THEN "deleted" ELSE status[d]]
  BY DEF DeleteFriend, BeginWith, Begin, Idle
<1>3. Approving' = Approving
  BY <1>1, <1>2, ApprovingKept DEF IInv, TypeOK
<1>4. CASE status' = status
  BY <1>1, <1>3, <1>4, TableKept DEF Abstract!abstractVars
<1>5. CASE status' # status
  <2>1. \A d \in Calls :
          /\ status'[d] = "pending" <=> (status[d] = "pending" /\ {who[d], peer[d]} # {u, v})
          /\ status'[d] = "approved" <=> (status[d] = "approved" /\ {who[d], peer[d]} # {u, v})
    BY <1>2, <1>5 DEF Present
  <2>2. \A d \in Calls : status[d] # "none" => who'[d] = who[d] /\ peer'[d] = peer[d]
    BY <1>1, RowsKeepUsers
  <2>3. Asked' = Asked \ {<<u, v>>, <<v, u>>}
    BY <2>1, <2>2 DEF Asked
  <2>4. FriendPairs' = FriendPairs \ {{u, v}}
    BY <2>1, <2>2 DEF FriendPairs
  <2>5. Abstract!Part(u, v)
    BY <1>3, <2>3, <2>4 DEF Abstract!Part
  <2> QED
    BY <2>5 DEF Abstract!Next
<1> QED
  BY <1>4, <1>5

(* Every other step is a stutter.                                          *)
LEMMA LookUpStutters ==
    ASSUME IInv, NEW c \in Calls, CountUsers(c) \/ CheckPair(c),
           UNCHANGED <<accountVars, replicaUsers, mustEnd>>
    PROVE  [Abstract!Next]_(Abstract!abstractVars)
<1>1. OwnStep(c)
  BY FriendsOwn DEF FriendsStep, AddFriend, IInv
<1>2. status' = status
  BY DEF CountUsers, CheckPair, friendVars
<1>3. pc[c] # "save" /\ pc'[c] # "save"
  BY DEF CountUsers, CheckPair, BeginWith, Begin, GoTo, Idle, IInv, TypeOK
<1> QED
  BY <1>1, <1>2, <1>3, TableKept, ApprovingKept DEF Abstract!abstractVars

LEMMA AccountsStutter ==
    ASSUME IInv, AccountsNext
    PROVE  [Abstract!Next]_(Abstract!abstractVars)
<1>1. PICK c \in Calls : AccountsStep(c)
  BY DEF AccountsNext
<1>2. OwnStep(c) /\ status' = status
  BY <1>1, AccountsOwn DEF AccountsNext, IInv, friendVars
<1>3. pc[c] # "save" /\ pc'[c] # "save"
  <2> USE DEF Begin, GoTo, Idle, IInv, TypeOK
  <2>1. CASE CheckNickname(c) \/ InsertUser(c) \/ WriteShardMap(c)
    BY <2>1 DEF CheckNickname, InsertUser, WriteShardMap
  <2>2. CASE ReadUser(c) \/ LoginLookup(c) \/ InsertToken(c)
    BY <2>2 DEF ReadUser, LoginLookup, InsertToken
  <2>3. CASE LogoutLookup(c) \/ DeleteTokens(c)
    BY <2>3 DEF LogoutLookup, DeleteTokens
  <2> QED
    BY <1>1, <2>1, <2>2, <2>3 DEF AccountsStep, Register, Login, Logout
<1> QED
  BY <1>2, <1>3, TableKept, ApprovingKept DEF Abstract!abstractVars

LEMMA CrashGivesUp ==
    ASSUME IInv, CrashNext
    PROVE  [Abstract!Next]_(Abstract!abstractVars)
<1>1. PICK c \in Calls : Crash(c)
  BY DEF CrashNext
<1>2. /\ pc[c] \notin Outcome /\ pc[c] # "idle" /\ pc' = [pc EXCEPT ![c] = "failed"]
      /\ hit' = hit \union {c}
      /\ UNCHANGED <<op, who, peer, target, mustSee, mustEnd, status>>
  BY <1>1 DEF Crash, Active, Hit, GoTo, CrashNext, accountVars, friendVars, routeVars
<1>3. OwnStep(c) /\ pc'[c] # "save"
  BY <1>2 DEF OwnStep, IInv, TypeOK
<1>4. Asked' = Asked /\ FriendPairs' = FriendPairs
  BY <1>2, <1>3, TableKept
<1>5. CASE pc[c] # "save"
  BY <1>3, <1>4, <1>5, ApprovingKept DEF Abstract!abstractVars
<1>6. CASE pc[c] = "save"
  <2>1. Abstract!GiveUp(c, peer[c], who[c])
    BY <1>3, <1>4, <1>6, SaveEnds DEF Abstract!GiveUp
  <2>2. who[c] \in Users /\ peer[c] \in Users
    BY DEF IInv, TypeOK
  <2> QED
    BY <2>1, <2>2 DEF Abstract!Next
<1> QED
  BY <1>5, <1>6

LEMMA CallsUnmovedStutter ==
    ASSUME UNCHANGED <<pc, who, peer, status>>
    PROVE  UNCHANGED Abstract!abstractVars
  BY DEF Abstract!abstractVars, Asked, FriendPairs, Approving

LEMMA StepRefines == IInv /\ [Next]_vars => [Abstract!Next]_(Abstract!abstractVars)
<1> SUFFICES ASSUME IInv, [Next]_vars
             PROVE  [Abstract!Next]_(Abstract!abstractVars)
  OBVIOUS
<1>1. CASE AccountsNext
  BY <1>1, AccountsStutter
<1>2. CASE FriendsNext
  BY <1>2, InsertRowAsks, FindRequestBegins, SaveApprovedEnds, DeleteFriendParts,
     LookUpStutters DEF FriendsNext, FriendsStep, AddFriend, ApproveFriend
<1>3. CASE CrashNext
  BY <1>3, CrashGivesUp
<1>4. CASE \E r \in Replicas : CatchUp(r)
  BY <1>4, CallsUnmovedStutter DEF CatchUp, callVars, routeVars, friendVars
<1>5. CASE UNCHANGED vars
  BY <1>5, CallsUnmovedStutter DEF vars, callVars, routeVars, friendVars
<1> QED
  BY <1>1, <1>2, <1>3, <1>4, <1>5 DEF Next

(* Accounts, friends, replicas, failing statements and crashes together do *)
(* no more to requests and friendships than Friendship allows.             *)
THEOREM FriendshipRefined == Spec => ImplementsFriendship
<1>1. Init => Abstract!Init
  BY DEF Init, AccountsInit, FriendsInit, Abstract!Init, Asked, FriendPairs, Approving
<1> QED
  BY <1>1, Inductive, StepRefines, PTL DEF Spec, ImplementsFriendship, Abstract!Spec
=============================================================================

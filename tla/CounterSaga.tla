----------------------------- MODULE CounterSaga -----------------------------
(***************************************************************************)
(* The unread_messages counter and the sagas that maintain it              *)
(* (src/services/counter_saga_service.go), with the handlers that run them *)
(* (src/api/handlers/dialog.go, src/api/handlers/counter.go).              *)
(*                                                                         *)
(* HandleNewMessage runs in a dialogs process, HandleMarkAsRead and the    *)
(* reconcilers in the backend processes; all of them share the counters in *)
(* Redis and the messages table in PostgreSQL, and nothing orders them     *)
(* beyond the atomicity of one Redis script or one SQL statement.          *)
(* A request is an actor of its own and takes one step per remote call.    *)
(*                                                                         *)
(* A counter is right when it equals the number of messages counted for    *)
(* its user, see Counted below.  The variable tainted is a history         *)
(* variable: the users whose counter something is known to have broken, a  *)
(* lost reply or a stale count for instance, and nothing has repaired yet. *)
(***************************************************************************)
EXTENDS CounterStore, FiniteSets

CONSTANTS
    Users,         \* the users whose counters are followed
    Sends,         \* requests to send a message; also the id of its row
    From, To,      \* the sender, any user, and the recipient of each send
    NoDB,          \* sends served by a process that never called db.ConnectDB
    Marks,         \* requests to mark a dialog as read
    Reader,        \* the user who marks
    Partner,       \* the user whose messages are marked
    Requests,      \* reconciliations asked for over HTTP
    FullWorkers,   \* the goroutines of runReconciliationWorker
    Checkers,      \* the goroutines of runConsistencyChecker
    Replicas,      \* read replicas of the database
    MinSlack,      \* the difference the checker tolerates: 5 in the code
    ManualDeltas,  \* the deltas of manual increments: any but 0 in the code
    MaxFaults,     \* bound on failed calls and crashes
    MaxOverwrites  \* bound on resets, expiries and manual increments

Reconcilers == Requests \union FullWorkers \union Checkers

ASSUME ConstantsAssumption ==
    /\ Users # {}
    /\ IsFiniteSet(Sends)
    /\ DOMAIN From = Sends
    /\ To \in [Sends -> Users]
    /\ NoDB \subseteq Sends
    /\ Reader \in [Marks -> Users]
    /\ DOMAIN Partner = Marks
    /\ MinSlack \in Nat
    /\ ManualDeltas \subseteq Int \ {0}
    /\ MaxFaults \in Nat
    /\ MaxOverwrites \in Nat

VARIABLES
    counter,     \* counter[u]: counter:u:unread_messages in Redis
    rows,        \* messages, the table on the master
    unread,      \* the rows with is_read = false, on the master
    replica,     \* replica[p]: the unread rows as replica p shows them
    shards,      \* the rows written to a messages_N table
    sendPc,      \* the next step of each send request
    markPc,      \* the next step of each mark request
    unreadCount, \* unreadCount[m]: the count taken in step 1 of the saga
    marked,      \* marked[m]: the rows a completed step 2 set to read
    recPc,       \* the next step of each reconciler
    recUser,     \* the user a reconciler is working on
    actualCount, \* the number of unread rows a reconciler counted
    todo,        \* what is left of the round of a background worker: the users
                 \* listed, each with the number of messages found for it
    clean,       \* history: the reconcilers whose count no saga of the user has
                 \* made stale
    tainted,     \* history: the users whose counter is known to be broken
    faults,      \* the failed calls and the crashes so far
    overwrites,  \* the resets, expiries and manual increments so far
    granted      \* history: what manual increments added for each user

dbVars     == <<rows, unread>>
sendVars   == <<shards, sendPc>>
markVars   == <<markPc, unreadCount, marked>>
recVars    == <<recPc, recUser, actualCount, todo>>
vars == <<counter, dbVars, replica, sendVars, markVars, recVars,
          clean, tainted, faults, overwrites, granted>>

SendStates == {"idle", "save", "compensate", "shard", "done", "failed",
               "shardFailed", "panicked", "crashed"}
MarkStates == {"idle", "mark", "update", "done", "failed", "crashed"}
RecStates  == {"idle", "loop", "count", "get", "set"}

TypeOK ==
    /\ counter \in [Users -> Nat]
    /\ rows \subseteq Sends
    /\ unread \subseteq rows
    /\ replica \in [Replicas -> SUBSET Sends]
    /\ shards \subseteq Sends
    /\ sendPc \in [Sends -> SendStates]
    /\ markPc \in [Marks -> MarkStates]
    /\ unreadCount \in [Marks -> Nat]
    /\ marked \in [Marks -> SUBSET Sends]
    /\ recPc \in [Reconcilers -> RecStates]
    /\ recUser \in [Reconcilers -> Users]
    /\ actualCount \in [Reconcilers -> Nat]
    /\ todo \in [Reconcilers -> SUBSET (Users \X Nat)]
    /\ clean \subseteq Reconcilers
    /\ tainted \subseteq Users
    /\ faults \in 0..MaxFaults
    /\ overwrites \in 0..MaxOverwrites
    /\ granted \in [Users -> Nat]

(* The value of recUser when a reconciler has no user.                     *)
AnyUser == CHOOSE u \in Users : TRUE

Init ==
    /\ counter = [u \in Users |-> 0]
    /\ rows = {}
    /\ unread = {}
    /\ replica = [p \in Replicas |-> {}]
    /\ shards = {}
    /\ sendPc = [s \in Sends |-> "idle"]
    /\ markPc = [m \in Marks |-> "idle"]
    /\ unreadCount = [m \in Marks |-> 0]
    /\ marked = [m \in Marks |-> {}]
    /\ recPc = [r \in Reconcilers |-> "idle"]
    /\ recUser = [r \in Reconcilers |-> AnyUser]
    /\ actualCount = [r \in Reconcilers |-> 0]
    /\ todo = [r \in Reconcilers |-> {}]
    /\ clean = {}
    /\ tainted = {}
    /\ faults = 0
    /\ overwrites = 0
    /\ granted = [u \in Users |-> 0]

-----------------------------------------------------------------------------
(* What the queries of the sagas select.                                   *)

SentTo(u, S) == {s \in S : To[s] = u}

(* WHERE to_user_id = reader AND from_user_id = partner AND NOT is_read.   *)
InDialog(m, S) == {s \in S : To[s] = Reader[m] /\ From[s] = Partner[m]}

(* The messages the counter of u stands for: a message counts from the     *)
(* increment of its saga until the decrement of the saga that marks it     *)
(* read, or until the compensation of its own saga.                        *)
InFlight(s) == sendPc[s] \in {"save", "compensate"}

BeingMarked(s) == \E m \in Marks : markPc[m] = "update" /\ s \in marked[m]

Counted(u) ==
    {s \in Sends : /\ To[s] = u
                   /\ \/ InFlight(s)
                      \/ s \in unread
                      \/ BeingMarked(s)}

(* No saga of u is between its first and its last update of Redis.         *)
Quiet(u) ==
    /\ \A s \in Sends : To[s] = u => ~InFlight(s)
    /\ \A m \in Marks : Reader[m] = u => markPc[m] # "update"

-----------------------------------------------------------------------------
(* Bounds and history.                                                     *)

SpendFault(o) ==
    IF o = "ok" THEN UNCHANGED faults
    ELSE faults < MaxFaults /\ faults' = faults + 1

SpendOverwrite == overwrites < MaxOverwrites /\ overwrites' = overwrites + 1

TaintIf(broken, u) == tainted' = IF broken THEN tainted \union {u} ELSE tainted

(* A saga of u starts: no reconciler's count of u can be trusted any more. *)
Disturb(u) ==
    clean' = {r \in clean : recUser[r] # u}

-----------------------------------------------------------------------------
(* SendMessageInternalHandler, with the three steps of HandleNewMessage.   *)
(* Step 3 only logs and cannot fail, so step 2 is never compensated.       *)

(* Step 1: IncrementCounterSync(toUserID, unread_messages, 1).             *)
IncrementUnreadCounter(s) ==
    /\ sendPc[s] = "idle"
    /\ \E o \in Outcomes :
         /\ SpendFault(o)
         /\ counter' = [counter EXCEPT ![To[s]] = Apply(@, 1, o)]
         /\ sendPc' = [sendPc EXCEPT ![s] = IF Failed(o) THEN "failed" ELSE "save"]
         /\ TaintIf(o \in {"lost", "resent"}, To[s])
    /\ Disturb(To[s])
    /\ UNCHANGED <<dbVars, replica, shards, markVars, recVars, overwrites,
                   granted>>

(* Step 2 in a process without a database: db.GetWriteDB returns nil and   *)
(* the call of Create panics; gin.Recovery answers 500 and Execute never   *)
(* reaches its compensations.                                              *)
SaveMessagePanics(s) ==
    /\ sendPc[s] = "save"
    /\ s \in NoDB
    /\ sendPc' = [sendPc EXCEPT ![s] = "panicked"]
    /\ TaintIf(TRUE, To[s])
    /\ UNCHANGED <<counter, dbVars, replica, shards, markVars, recVars, clean,
                   faults, overwrites, granted>>

(* Step 2: insert the message on the master.                               *)
SaveMessageToDb(s) ==
    /\ sendPc[s] = "save"
    /\ s \notin NoDB
    /\ \E o \in DbOutcomes :
         /\ SpendFault(o)
         /\ IF o = "refused" THEN UNCHANGED dbVars
            ELSE /\ rows' = rows \union {s}
                 /\ unread' = unread \union {s}
         /\ sendPc' = [sendPc EXCEPT ![s] = IF o = "ok" THEN "shard" ELSE "compensate"]
         /\ TaintIf(o = "lost", To[s])
    /\ UNCHANGED <<counter, replica, shards, markVars, recVars, clean,
                   overwrites, granted>>

(* Mutant: the compensation increments again.                              *)
CompensateTwice(s) ==
    /\ sendPc[s] = "compensate"
    /\ \E o \in Outcomes :
         /\ SpendFault(o)
         /\ counter' = [counter EXCEPT ![To[s]] = Apply(@, 1, o)]
         /\ TaintIf(~Once(o), To[s])
    /\ sendPc' = [sendPc EXCEPT ![s] = "failed"]
    /\ UNCHANGED <<dbVars, replica, shards, markVars, recVars, clean,
                   overwrites, granted>>

(* Step 2 failed: Execute runs the compensation of step 1 and only logs an *)
(* error of it.                                                            *)
CompensateIncrement(s) ==
    /\ sendPc[s] = "compensate"
    /\ \E o \in Outcomes :
         /\ SpendFault(o)
         /\ counter' = [counter EXCEPT ![To[s]] = Apply(@, -1, o)]
         /\ TaintIf(~Once(o), To[s])
    /\ sendPc' = [sendPc EXCEPT ![s] = "failed"]
    /\ UNCHANGED <<dbVars, replica, shards, markVars, recVars, clean,
                   overwrites, granted>>

(* Mutant: an error of the insert is ignored.                              *)
InsertIgnoresError(s) ==
    /\ sendPc[s] = "shard"
    /\ \E o \in DbOutcomes :
         /\ SpendFault(o)
         /\ shards' = IF o = "refused" THEN shards ELSE shards \union {s}
         /\ sendPc' = [sendPc EXCEPT ![s] = "done"]
    /\ UNCHANGED <<counter, dbVars, replica, markVars, recVars, clean, tainted,
                   overwrites, granted>>

(* After the saga the handler writes the shard table; a failure answers    *)
(* 500 and leaves the saga's effects in place.                             *)
InsertIntoShard(s) ==
    /\ sendPc[s] = "shard"
    /\ \E o \in DbOutcomes :
         /\ SpendFault(o)
         /\ shards' = IF o = "refused" THEN shards ELSE shards \union {s}
         /\ sendPc' = [sendPc EXCEPT ![s] = IF o = "ok" THEN "done" ELSE "shardFailed"]
    /\ UNCHANGED <<counter, dbVars, replica, markVars, recVars, clean, tainted,
                   overwrites, granted>>

(* The process dies: nothing of the saga is persisted, so nothing resumes  *)
(* or compensates it.                                                      *)
CrashSend(s) ==
    /\ sendPc[s] \in {"save", "compensate", "shard"}
    /\ SpendFault("crash")
    /\ sendPc' = [sendPc EXCEPT ![s] = "crashed"]
    /\ TaintIf(InFlight(s), To[s])
    /\ UNCHANGED <<counter, dbVars, replica, shards, markVars, recVars, clean,
                   overwrites, granted>>

Send(s) ==
    \/ IncrementUnreadCounter(s)
    \/ SaveMessagePanics(s)
    \/ SaveMessageToDb(s)
    \/ CompensateIncrement(s)
    \/ InsertIntoShard(s)
    \/ CrashSend(s)

-----------------------------------------------------------------------------
(* HandleMarkAsRead.  marked outlives the request, the count does not.     *)

EndMark(m, outcome) ==
    /\ markPc' = [markPc EXCEPT ![m] = outcome]
    /\ unreadCount' = [unreadCount EXCEPT ![m] = 0]

(* Step 1: count the unread messages of the dialog on a replica.           *)
CountUnreadMessages(m) ==
    /\ markPc[m] = "idle"
    /\ \/ \E p \in Replicas :
            /\ unreadCount' = [unreadCount EXCEPT ![m] = Cardinality(InDialog(m, replica[p]))]
            /\ markPc' = [markPc EXCEPT ![m] = "mark"]
            /\ UNCHANGED faults
       \/ /\ SpendFault("refused")
          /\ markPc' = [markPc EXCEPT ![m] = "failed"]
          /\ UNCHANGED unreadCount
    /\ UNCHANGED <<counter, dbVars, replica, sendVars, marked, recVars, clean,
                   tainted, overwrites, granted>>

(* Mutant: messages that are read already are set to read again.           *)
MarkReadToo(m) ==
    /\ markPc[m] = "mark"
    /\ \E o \in DbOutcomes :
         LET found == InDialog(m, rows) IN
         /\ SpendFault(o)
         /\ unread' = IF o = "refused" THEN unread ELSE unread \ found
         /\ IF o = "ok"
            THEN /\ markPc' = [markPc EXCEPT ![m] = "update"]
                 /\ marked' = [marked EXCEPT ![m] = found]
                 /\ UNCHANGED unreadCount
            ELSE EndMark(m, "failed") /\ UNCHANGED marked
         /\ TaintIf(o = "lost" /\ found # {}, Reader[m])
    /\ Disturb(Reader[m])
    /\ UNCHANGED <<counter, rows, replica, sendVars, recVars, overwrites,
                   granted>>

(* Step 2: set is_read on the unread messages of the dialog, on the        *)
(* master.  When it fails there is nothing to compensate (step 1 has no    *)
(* compensation), but the statement may have been committed.               *)
MarkMessagesAsRead(m) ==
    /\ markPc[m] = "mark"
    /\ \E o \in DbOutcomes :
         LET found == InDialog(m, unread) IN
         /\ SpendFault(o)
         /\ unread' = IF o = "refused" THEN unread ELSE unread \ found
         /\ IF o = "ok"
            THEN /\ markPc' = [markPc EXCEPT ![m] = "update"]
                 /\ marked' = [marked EXCEPT ![m] = found]
                 /\ UNCHANGED unreadCount
            ELSE EndMark(m, "failed") /\ UNCHANGED marked
         /\ TaintIf(o = "lost" /\ found # {}, Reader[m])
    /\ Disturb(Reader[m])
    /\ UNCHANGED <<counter, rows, replica, sendVars, recVars, overwrites,
                   granted>>

(* Mutant: the count is added.                                             *)
UpdateAdds(m) ==
    /\ markPc[m] = "update"
    /\ \E o \in Outcomes :
         /\ unreadCount[m] > 0
         /\ SpendFault(o)
         /\ counter' = [counter EXCEPT ![Reader[m]] = Apply(@, unreadCount[m], o)]
         /\ EndMark(m, IF Failed(o) THEN "failed" ELSE "done")
         /\ TaintIf(~Once(o), Reader[m])
    /\ UNCHANGED <<dbVars, replica, sendVars, marked, recVars, clean,
                   overwrites, granted>>

(* Step 3: subtract the count of step 1 when it is positive.  When that    *)
(* fails Execute runs the compensation of step 2, an UPDATE on a column    *)
(* messages does not have: PostgreSQL rejects it, the error is ignored and *)
(* the rows stay read.                                                     *)
UpdateCounter(m) ==
    /\ markPc[m] = "update"
    /\ \E o \in Outcomes :
         LET exact == \/ Once(o) /\ unreadCount[m] = Cardinality(marked[m])
                      \/ o = "refused" /\ marked[m] = {}
         IN /\ unreadCount[m] > 0
            /\ SpendFault(o)
            /\ counter' = [counter EXCEPT ![Reader[m]] = Apply(@, -unreadCount[m], o)]
            /\ EndMark(m, IF Failed(o) THEN "failed" ELSE "done")
            /\ TaintIf(~exact, Reader[m])
    /\ UNCHANGED <<dbVars, replica, sendVars, marked, recVars, clean,
                   overwrites, granted>>

(* Step 3 with a count of zero touches nothing.                            *)
SkipCounterUpdate(m) ==
    /\ markPc[m] = "update"
    /\ unreadCount[m] = 0
    /\ EndMark(m, "done")
    /\ TaintIf(marked[m] # {}, Reader[m])
    /\ UNCHANGED <<counter, dbVars, replica, sendVars, marked, recVars, clean,
                   faults, overwrites, granted>>

CrashMark(m) ==
    /\ markPc[m] \in {"mark", "update"}
    /\ SpendFault("crash")
    /\ EndMark(m, "crashed")
    /\ TaintIf(markPc[m] = "update" /\ marked[m] # {}, Reader[m])
    /\ UNCHANGED <<counter, dbVars, replica, sendVars, marked, recVars, clean,
                   overwrites, granted>>

Mark(m) ==
    \/ CountUnreadMessages(m)
    \/ MarkMessagesAsRead(m)
    \/ UpdateCounter(m)
    \/ SkipCounterUpdate(m)
    \/ CrashMark(m)

-----------------------------------------------------------------------------
(* ReconcileCounter and the three places that call it.                     *)

(* POST /counters/unread_messages/reconcile by user u.                     *)
RequestReconcile(r, u) ==
    /\ recPc[r] = "idle"
    /\ recPc' = [recPc EXCEPT ![r] = "count"]
    /\ recUser' = [recUser EXCEPT ![r] = u]
    /\ UNCHANGED <<counter, dbVars, replica, sendVars, markVars, actualCount,
                   todo, clean, tainted, faults, overwrites, granted>>

(* ReconcileCounter returns to its caller, which is done or has a round to *)
(* go on with.                                                             *)
ReturnFrom(r) ==
    /\ recPc' = [recPc EXCEPT ![r] = IF todo[r] = {} THEN "idle" ELSE "loop"]
    /\ recUser' = [recUser EXCEPT ![r] = AnyUser]
    /\ actualCount' = [actualCount EXCEPT ![r] = 0]
    /\ clean' = clean \ {r}

(* performFullReconciliation: the users with unread messages, from a       *)
(* replica.  It does not count their messages.                             *)
ListActiveUsers(r) ==
    /\ recPc[r] = "idle"
    /\ \E p \in Replicas :
         /\ replica[p] # {}
         /\ todo' = [todo EXCEPT ![r] = {<<To[s], 0>> : s \in replica[p]}]
    /\ recPc' = [recPc EXCEPT ![r] = "loop"]
    /\ UNCHANGED <<counter, dbVars, replica, sendVars, markVars, recUser,
                   actualCount, clean, tainted, faults, overwrites, granted>>

ReconcileNextUser(r) ==
    /\ recPc[r] = "loop"
    /\ \E item \in todo[r] :
         /\ todo' = [todo EXCEPT ![r] = @ \ {item}]
         /\ recUser' = [recUser EXCEPT ![r] = item[1]]
    /\ recPc' = [recPc EXCEPT ![r] = "count"]
    /\ UNCHANGED <<counter, dbVars, replica, sendVars, markVars, actualCount,
                   clean, tainted, faults, overwrites, granted>>

(* checkAndFixInconsistencies: unread messages of the last 24 hours,       *)
(* grouped by user, from the master.  Which messages are that recent is    *)
(* left open.                                                              *)
GroupRecentUnread(c) ==
    /\ recPc[c] = "idle"
    /\ \E recent \in SUBSET unread :
         /\ recent # {}
         /\ todo' = [todo EXCEPT ![c] =
              {<<To[s], Cardinality(SentTo(To[s], recent))>> : s \in recent}]
    /\ recPc' = [recPc EXCEPT ![c] = "loop"]
    /\ UNCHANGED <<counter, dbVars, replica, sendVars, markVars, recUser,
                   actualCount, clean, tainted, faults, overwrites, granted>>

(* diff > max(actual / 10, MinSlack)                                       *)
Inconsistent(cached, actual) ==
    LET diff == IF cached > actual THEN cached - actual ELSE actual - cached
    IN diff > MinSlack /\ diff > actual \div 10

(* Reconcile the next user of the round when the counter is too far off    *)
(* the grouped count; skip it when it is not, or when GetCounter fails.    *)
CheckNextUser(c) ==
    /\ recPc[c] = "loop"
    /\ \E item \in todo[c] :
         LET off == Inconsistent(counter[item[1]], item[2]) IN
         /\ todo' = [todo EXCEPT ![c] = @ \ {item}]
         /\ \/ /\ off
               /\ recPc' = [recPc EXCEPT ![c] = "count"]
               /\ recUser' = [recUser EXCEPT ![c] = item[1]]
               /\ UNCHANGED faults
            \/ /\ IF off THEN SpendFault("refused") ELSE UNCHANGED faults
               /\ recPc' = [recPc EXCEPT ![c] = IF todo[c] = {item} THEN "idle" ELSE "loop"]
               /\ UNCHANGED recUser
    /\ UNCHANGED <<counter, dbVars, replica, sendVars, markVars, actualCount,
                   clean, tainted, overwrites, granted>>

(* Count the unread rows of the user on the master, or give up.            *)
CountActual(r) ==
    /\ recPc[r] = "count"
    /\ \/ /\ actualCount' = [actualCount EXCEPT ![r] = Cardinality(SentTo(recUser[r], unread))]
          /\ clean' = IF Quiet(recUser[r]) THEN clean \union {r} ELSE clean \ {r}
          /\ recPc' = [recPc EXCEPT ![r] = "get"]
          /\ UNCHANGED <<recUser, faults>>
       \/ SpendFault("refused") /\ ReturnFrom(r)
    /\ UNCHANGED <<counter, dbVars, replica, sendVars, markVars, todo,
                   tainted, overwrites, granted>>

(* Mutant: only a counter below the count is repaired.                     *)
CompareOneSided(r) ==
    /\ recPc[r] = "get"
    /\ \/ /\ counter[recUser[r]] >= actualCount[r]
          /\ tainted' = IF r \in clean THEN tainted \ {recUser[r]} ELSE tainted
          /\ ReturnFrom(r)
          /\ UNCHANGED faults
       \/ /\ counter[recUser[r]] < actualCount[r]
          /\ recPc' = [recPc EXCEPT ![r] = "set"]
          /\ UNCHANGED <<recUser, actualCount, clean, tainted, faults>>
    /\ UNCHANGED <<counter, dbVars, replica, sendVars, markVars, todo,
                   overwrites, granted>>

(* GetCounter: equal to the count, there is nothing to do.                 *)
CompareCounter(r) ==
    /\ recPc[r] = "get"
    /\ \/ /\ counter[recUser[r]] = actualCount[r]
          /\ tainted' = IF r \in clean THEN tainted \ {recUser[r]} ELSE tainted
          /\ ReturnFrom(r)
          /\ UNCHANGED faults
       \/ /\ counter[recUser[r]] # actualCount[r]
          /\ recPc' = [recPc EXCEPT ![r] = "set"]
          /\ UNCHANGED <<recUser, actualCount, clean, tainted, faults>>
       \/ /\ SpendFault("refused")
          /\ ReturnFrom(r)
          /\ UNCHANGED tainted
    /\ UNCHANGED <<counter, dbVars, replica, sendVars, markVars, todo,
                   overwrites, granted>>

(* SetCounterValue overwrites whatever the counter has become since.       *)
SetCounterValue(r) ==
    /\ recPc[r] = "set"
    /\ \E o \in Outcomes :
         /\ SpendFault(o)
         /\ IF o = "refused" THEN UNCHANGED <<counter, tainted>>
            ELSE /\ counter' = [counter EXCEPT ![recUser[r]] = actualCount[r]]
                 /\ tainted' = IF r \in clean THEN tainted \ {recUser[r]}
                               ELSE tainted \union {recUser[r]}
    /\ ReturnFrom(r)
    /\ UNCHANGED <<dbVars, replica, sendVars, markVars, todo, overwrites,
                   granted>>

Reconcile(r) == CountActual(r) \/ CompareCounter(r) \/ SetCounterValue(r)

FullReconciliation(r) ==
    ListActiveUsers(r) \/ ReconcileNextUser(r) \/ Reconcile(r)

ConsistencyCheck(c) ==
    GroupRecentUnread(c) \/ CheckNextUser(c) \/ Reconcile(c)

ServeReconcile(r) == (\E u \in Users : RequestReconcile(r, u)) \/ Reconcile(r)

-----------------------------------------------------------------------------
(* What happens to a counter outside of the sagas.                         *)

(* POST /counters/unread_messages/reset, or the key expiring 24 hours      *)
(* after its last update, or evicted by allkeys-lru.                       *)
ClearCounter(u) ==
    /\ SpendOverwrite
    /\ counter' = [counter EXCEPT ![u] = 0]
    /\ TaintIf(Counted(u) # {}, u)
    /\ UNCHANGED <<dbVars, replica, sendVars, markVars, recVars, clean, faults,
                   granted>>

Gain(delta) == IF delta > 0 THEN delta ELSE 0

(* POST /counters/unread_messages/increment.                               *)
ManualIncrement(u, delta) ==
    /\ SpendOverwrite
    /\ \E o \in Outcomes :
         /\ SpendFault(o)
         /\ counter' = [counter EXCEPT ![u] = Apply(@, delta, o)]
         /\ granted' = [granted EXCEPT ![u] =
                @ + Executions(o) * Gain(delta)]
         /\ TaintIf(o # "refused", u)
    /\ UNCHANGED <<dbVars, replica, sendVars, markVars, recVars, clean>>

(* A replica catches up with the master.                                   *)
Replicate(p) ==
    /\ replica' = [replica EXCEPT ![p] = unread]
    /\ UNCHANGED <<counter, dbVars, sendVars, markVars, recVars, clean, tainted,
                   faults, overwrites, granted>>

Next ==
    \/ \E s \in Sends : Send(s)
    \/ \E m \in Marks : Mark(m)
    \/ \E r \in FullWorkers : FullReconciliation(r)
    \/ \E c \in Checkers : ConsistencyCheck(c)
    \/ \E r \in Requests : ServeReconcile(r)
    \/ \E u \in Users : ClearCounter(u)
    \/ \E u \in Users, delta \in ManualDeltas : ManualIncrement(u, delta)
    \/ \E p \in Replicas : Replicate(p)

Spec == Init /\ [][Next]_vars

(* The full reconciliation is driven by a ticker and replication does not  *)
(* stop.  No fairness is assumed of clients, and none of the checkers.     *)
FairSpec ==
    /\ Spec
    /\ \A r \in FullWorkers : WF_vars(FullReconciliation(r))
    /\ \A p \in Replicas : WF_vars(Replicate(p))
-----------------------------------------------------------------------------
(* A counter nothing is known to have broken equals the number of messages *)
(* counted for its user, through every interleaving of sends, marks and    *)
(* reconciliations: the compensation takes back what step 1 of             *)
(* HandleNewMessage added, a mark subtracts exactly the rows it set to     *)
(* read, and a reconciliation no saga disturbed repairs the counter.       *)
CounterExact ==
    \A u \in Users \ tainted : counter[u] = Cardinality(Counted(u))

(* Whatever goes wrong, stale counts, lost replies, racing reconciliations *)
(* and clamping at zero included, the badge never shows more messages than *)
(* were ever sent to the user, but for one per failed call and what manual *)
(* increments, of any size, added for that very user.                      *)
Started(u) == {s \in Sends : To[s] = u /\ sendPc[s] # "idle"}

BadgeBounded ==
    \A u \in Users : counter[u] <= Cardinality(Started(u)) + faults + granted[u]

(* SendMessageInternalHandler answers 200 only when the message is in      *)
(* messages, which the counter is reconciled with, and in its messages_N   *)
(* table, which the dialog is listed from.                                 *)
AcknowledgedIsStored ==
    \A s \in Sends : sendPc[s] = "done" => s \in rows \intersect shards

(* A message is new until its saga starts, waits while it is counted, and  *)
(* is settled from then on.                                                *)
Phase(s) ==
    IF sendPc[s] = "idle" THEN "new"
    ELSE IF s \in Counted(To[s]) THEN "waiting" ELSE "settled"

Badge == INSTANCE UnreadBadge WITH
    Messages <- Sends, phase <- [s \in Sends |-> Phase(s)],
    badge <- counter, doubtful <- tainted

(* The sagas implement UnreadBadge: no message is counted again once it    *)
(* has been settled, by a mark or by a compensation, the counter moves     *)
(* with the messages step by step, and a counter that is broken is made    *)
(* good only by a reconciliation that leaves it exact.                     *)
ImplementsBadge == Badge!Spec

(* The doc's compensation of step 2 of a mark ("Обновить is_read=true в БД *)
(* -> [Компенсация: откатить]", doc/COUNTER_SERVICE.md:82): when step 3    *)
(* fails, the messages step 2 set to read are unread again.                *)
FailedMarkIsRolledBack ==
    \A m \in Marks : markPc[m] = "failed" => marked[m] \subseteq unread

(* Once requests and failures stop, the full reconciliation brings the     *)
(* counter of every user who has unread messages to their number, whatever *)
(* broke it before.  (A user with none is never listed: see the README.)   *)
UnreadUsersRepaired ==
    \A u \in Users :
        <>[](SentTo(u, unread) # {} => counter[u] = Cardinality(SentTo(u, unread)))
=============================================================================

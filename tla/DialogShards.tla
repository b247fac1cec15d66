---------------------------- MODULE DialogShards ----------------------------
(***************************************************************************)
(* Sending and listing messages through the sharded tables messages_N      *)
(* (src/api/handlers/dialog.go).                                           *)
(*                                                                         *)
(* A backend answers a send at once, and a goroutine posts it to a process *)
(* of the dialogs service; that process runs the saga (CounterSaga, here   *)
(* one step), looks up the shard of the pair and inserts the message.  The *)
(* shard is read from shard_map, the row of the smaller id first, on any   *)
(* replica; where there is none it is a hash of the pair.  Rows of         *)
(* shard_map come and go with registrations and resharding, which move no  *)
(* message.                                                                *)
(*                                                                         *)
(* The public list handler is left out: it calls a path the dialogs        *)
(* service does not serve, and answers an empty list whatever comes back.  *)
(* Limit and offset of the internal one are left out too.                  *)
(***************************************************************************)
EXTENDS CounterStore, FiniteSets, FiniteSetsExt

CONSTANTS
    Users,      \* user ids
    Sends,      \* messages, and the requests that send them
    Lists,      \* requests to list a dialog
    From, To,   \* the sender and recipient; the reader and the other user
    NumShards,  \* 4 in the code
    ShardCount, \* shard_count of the configuration: tables that exist
    Hash,       \* Hash[{u, v}]: the shard of a pair without a row, < NumShards
    InitMap,    \* shard_map at the start
    NoDB,       \* whether some dialogs process has not called db.ConnectDB
    Reshards,   \* the users somebody may reshard
    Replicas,   \* read replicas of the database
    MaxChanges, \* bound on changes of shard_map
    MaxHit      \* bound on the requests hit by errors, crashes or time-outs

Requests == Sends \union Lists
Tables   == 0 .. ShardCount - 1
Numbers  == 0 .. NumShards - 1
Shards   == Numbers \union Tables
None     == -1                   \* no row in shard_map

ASSUME DialogShardsAssumption ==
    /\ Users \subseteq Nat
    /\ IsFiniteSet(Requests)
    /\ Sends \intersect Lists = {}
    /\ From \in [Requests -> Users]
    /\ To \in [Requests -> Users]
    /\ NumShards \in Nat \ {0}
    /\ ShardCount \in Nat \ {0}
    /\ \A a \in Requests : Hash[{From[a], To[a]}] \in Numbers
    /\ InitMap \in [Users -> Shards \union {None}]
    /\ NoDB \in BOOLEAN
    /\ Reshards \subseteq Users
    /\ MaxChanges \in Nat
    /\ MaxHit \in Nat

VARIABLES
    shardMap,  \* shard_map on the master
    rows,      \* rows[k]: the messages in messages_k, on the master
    replica,   \* replica[r]: both, as replica r shows them
    client,    \* client[s]: where the goroutine of a public send is
    pc,        \* pc[a]: where a request to the dialogs service is
    shard,     \* shard[a]: the shard it has looked up
    listed,    \* listed[l]: what a list request has read
    raised,    \* the sends that have incremented unread_dialogs
    changes,   \* the changes of shard_map so far
    settled,   \* history: 1 + the changes made before request a looked up its
               \* shard, if nothing disturbed that look-up; else 0
    mustList,  \* history: the messages every replica showed when l looked up
    hit        \* history: the requests something has failed for

vars == <<shardMap, rows, replica, client, pc, shard, listed, raised,
          changes, settled, mustList, hit>>

storeVars == <<shardMap, rows, replica, changes>>

TypeOK ==
    /\ shardMap \in [Users -> Shards \union {None}]
    /\ rows \in [Tables -> SUBSET Sends]
    /\ \A r \in Replicas : \A k \in Tables : replica[r].rows[k] \subseteq rows[k]
    /\ client \in [Sends -> {"idle", "post", "wait", "done", "notified", "died"}]
    /\ pc \in [Requests -> {"idle", "saga", "min", "max", "table", "ok", "error",
                            "panicked", "crashed"}]
    /\ shard \in [Requests -> Shards]
    /\ listed \in [Lists -> SUBSET Sends]
    /\ raised \subseteq Sends
    /\ changes \in 0..MaxChanges
    /\ settled \in [Requests -> 0..(MaxChanges + 1)]
    /\ mustList \in [Lists -> SUBSET Sends]
    /\ hit \subseteq Requests /\ Cardinality(hit) <= MaxHit

Init ==
    /\ shardMap = InitMap
    /\ rows = [k \in Tables |-> {}]
    /\ replica = [r \in Replicas |-> [map |-> shardMap, rows |-> rows]]
    /\ client = [s \in Sends |-> "idle"]
    /\ pc = [a \in Requests |-> "idle"]
    /\ shard = [a \in Requests |-> 0]
    /\ listed = [l \in Lists |-> {}]
    /\ raised = {}
    /\ changes = 0
    /\ settled = [a \in Requests |-> 0]
    /\ mustList = [l \in Lists |-> {}]
    /\ hit = {}

-----------------------------------------------------------------------------
Clean == UNCHANGED hit

Hit(a) ==
    /\ hit' = hit \union {a}
    /\ Cardinality(hit \union {a}) <= MaxHit

GoTo(a, step) == pc' = [pc EXCEPT ![a] = step]

Pair(a) == {From[a], To[a]}

Stored == UNION {rows[k] : k \in Tables}

-----------------------------------------------------------------------------
(* SendMessagePublicHandler: the backend.                                  *)

(* 200 is answered, and a goroutine started.                               *)
SendPublic(s) ==
    /\ client[s] = "idle"
    /\ client' = [client EXCEPT ![s] = "post"]
    /\ UNCHANGED <<storeVars, pc, shard, listed, raised, settled, mustList, hit>>

(* The request reaches the dialogs service, or the sender is notified of   *)
(* an error.                                                               *)
Post(s) ==
    /\ client[s] = "post"
    /\ \/ /\ client' = [client EXCEPT ![s] = "wait"]
          /\ GoTo(s, "saga") /\ Clean
       \/ /\ client' = [client EXCEPT ![s] = "notified"]
          /\ UNCHANGED pc /\ Hit(s)
    /\ UNCHANGED <<storeVars, shard, listed, raised, settled, mustList>>

(* Mutant: the goroutine does not wait for the answer.                     *)
AnswerAtOnce(s) ==
    /\ client[s] = "wait"
    /\ client' = [client EXCEPT ![s] = "done"]
    /\ UNCHANGED <<storeVars, pc, shard, listed, raised, settled, mustList, hit>>

(* Mutant: the goroutine goes on waiting when the answer is an error.      *)
AnswerOkOnly(s) ==
    /\ client[s] = "wait"
    /\ pc[s] = "ok"
    /\ client' = [client EXCEPT ![s] = "done"]
    /\ UNCHANGED <<storeVars, pc, shard, listed, raised, settled, mustList, hit>>

(* An answer, whatever its status code, ends the goroutine in silence; a   *)
(* connection that breaks is an error.                                     *)
Answer(s) ==
    /\ client[s] = "wait"
    /\ pc[s] \in {"ok", "error", "panicked", "crashed"}
    /\ client' = [client EXCEPT ![s] =
                    IF pc[s] = "crashed" THEN "notified" ELSE "done"]
    /\ UNCHANGED <<storeVars, pc, shard, listed, raised, settled, mustList, hit>>

(* 10 seconds pass, or the answer is lost: the sender is notified of an    *)
(* error, and the dialogs service goes on.                                 *)
TimeOut(s) ==
    /\ client[s] = "wait"
    /\ client' = [client EXCEPT ![s] = "notified"]
    /\ Hit(s)
    /\ UNCHANGED <<storeVars, pc, shard, listed, raised, settled, mustList>>

(* The backend dies with its goroutine.                                    *)
BackendDies(s) ==
    /\ client[s] \in {"post", "wait"}
    /\ client' = [client EXCEPT ![s] = "died"]
    /\ Hit(s)
    /\ UNCHANGED <<storeVars, pc, shard, listed, raised, settled, mustList>>

-----------------------------------------------------------------------------
(* SendMessageInternalHandler and ListDialogInternalHandler: the dialogs   *)
(* service.                                                                *)

(* HandleNewMessage.  Its error is answered with 500, and so is its panic  *)
(* when the process has no database: gin recovers.                         *)
RunSaga(s) ==
    /\ pc[s] = "saga"
    /\ \/ GoTo(s, "min") /\ Clean
       \/ GoTo(s, "error") /\ Hit(s)
       \/ NoDB /\ GoTo(s, "panicked") /\ Clean
    /\ UNCHANGED <<storeVars, client, shard, listed, raised, settled, mustList>>

BeginList(l) ==
    /\ pc[l] = "idle"
    /\ GoTo(l, "min")
    /\ mustList' = [mustList EXCEPT ![l] =
         {s \in Stored : /\ Pair(s) = Pair(l)
                         /\ \A r \in Replicas : \E k \in Tables :
                              s \in replica[r].rows[k]}]
    /\ UNCHANGED <<storeVars, client, shard, listed, raised, settled, hit>>

(* Every replica has the rows of shard_map the master has for the pair.    *)
InSync(a) == \A r \in Replicas : \A u \in Pair(a) : replica[r].map[u] = shardMap[u]

(* Mutant: the row of the sender, or the reader, comes first.              *)
MinOfCaller(a) == From[a]

MinID(a) == Min(Pair(a))
MaxID(a) == Max(Pair(a))

(* getShardID, first query.  An error is taken for no row.                 *)
LookUpMin(a) ==
    /\ pc[a] = "min"
    /\ \/ /\ \E r \in Replicas :
               LET k == replica[r].map[MinID(a)] IN
               /\ GoTo(a, IF k = None THEN "max" ELSE "table")
               /\ shard' = IF k = None THEN shard ELSE [shard EXCEPT ![a] = k]
          /\ settled' = [settled EXCEPT ![a] = IF InSync(a) THEN changes + 1 ELSE 0]
          /\ Clean
       \/ /\ GoTo(a, "max") /\ Hit(a)
          /\ UNCHANGED <<shard, settled>>
    /\ UNCHANGED <<storeVars, client, listed, raised, mustList>>

(* Mutant: the hash is not reduced modulo NumShards.                       *)
HashNotReduced(a) ==
    /\ pc[a] = "max"
    /\ \E r \in Replicas :
         LET k == replica[r].map[MaxID(a)] IN
         shard' = [shard EXCEPT ![a] = IF k = None THEN NumShards + Hash[Pair(a)] ELSE k]
    /\ GoTo(a, "table")
    /\ UNCHANGED <<storeVars, client, listed, raised, settled, mustList, hit>>

(* Second query, perhaps on another replica, and the hash.                 *)
LookUpMax(a) ==
    /\ pc[a] = "max"
    /\ \/ /\ \E r \in Replicas :
               LET k == replica[r].map[MaxID(a)] IN
               shard' = [shard EXCEPT ![a] = IF k = None THEN Hash[Pair(a)] ELSE k]
          /\ UNCHANGED settled /\ Clean
       \/ /\ shard' = [shard EXCEPT ![a] = Hash[Pair(a)]]
          /\ settled' = [settled EXCEPT ![a] = 0] /\ Hit(a)
    /\ GoTo(a, "table")
    /\ UNCHANGED <<storeVars, client, listed, raised, mustList>>

(* The insert into messages_<shard>, an error when there is no such table. *)
InsertMessage(s) ==
    /\ pc[s] = "table"
    /\ \/ /\ shard[s] \notin Tables
          /\ GoTo(s, "error") /\ Clean
          /\ UNCHANGED rows
       \/ /\ shard[s] \in Tables
          /\ \E o \in DbOutcomes :
               /\ IF o = "ok" THEN Clean ELSE Hit(s)
               /\ rows' = IF o = "refused" THEN rows
                          ELSE [rows EXCEPT ![shard[s]] = @ \union {s}]
               /\ GoTo(s, IF o = "ok" THEN "ok" ELSE "error")
    /\ UNCHANGED <<shardMap, replica, changes, client, shard, listed, raised,
                   settled, mustList>>

(* Mutant: the goroutine is started by the saga, before the insert.        *)
RaiseAfterSaga(s) ==
    /\ pc[s] \in {"min", "ok"}
    /\ s \notin raised
    /\ raised' = raised \union {s}
    /\ UNCHANGED <<storeVars, client, pc, shard, listed, settled, mustList, hit>>

(* The goroutine started after the insert looks at the unread count of the *)
(* sender, in the Redis dialog no send of this handler writes to, and when *)
(* that is readable and 0 increments the counter of the recipient, which   *)
(* nothing decrements.  That it does not is this action never taken.       *)
RaiseUnreadDialogs(s) ==
    /\ pc[s] = "ok"
    /\ s \notin raised
    /\ raised' = raised \union {s}
    /\ UNCHANGED <<storeVars, client, pc, shard, listed, settled, mustList, hit>>

(* Mutant: only the messages of the other user are selected.               *)
ListReceived(l) ==
    /\ pc[l] = "table"
    /\ \/ /\ shard[l] \in Tables
          /\ \E r \in Replicas :
               listed' = [listed EXCEPT ![l] =
                 {s \in replica[r].rows[shard[l]] : From[s] = To[l] /\ To[s] = From[l]}]
          /\ GoTo(l, "ok") /\ Clean
       \/ /\ shard[l] \notin Tables
          /\ GoTo(l, "error") /\ Clean /\ UNCHANGED listed
    /\ UNCHANGED <<storeVars, client, shard, raised, settled, mustList>>

(* The messages of the pair, both ways, from one table of a replica.       *)
ListMessages(l) ==
    /\ pc[l] = "table"
    /\ \/ /\ shard[l] \in Tables
          /\ \E r \in Replicas :
               listed' = [listed EXCEPT ![l] =
                 {s \in replica[r].rows[shard[l]] : Pair(s) = Pair(l)}]
          /\ GoTo(l, "ok") /\ Clean
       \/ /\ shard[l] \notin Tables
          /\ GoTo(l, "error") /\ Clean /\ UNCHANGED listed
       \/ /\ GoTo(l, "error") /\ Hit(l) /\ UNCHANGED listed
    /\ UNCHANGED <<storeVars, client, shard, raised, settled, mustList>>

(* The dialogs process dies with a request.                                *)
DialogsDies(a) ==
    /\ pc[a] \in {"saga", "min", "max", "table"}
    /\ GoTo(a, "crashed")
    /\ Hit(a)
    /\ UNCHANGED <<storeVars, client, shard, listed, raised, settled, mustList>>

-----------------------------------------------------------------------------
(* A row of shard_map is written, on the master.  What a look-up under way *)
(* between its two queries finds is no longer that of one moment.          *)
ChangeMap(u, k) ==
    /\ changes < MaxChanges
    /\ changes' = changes + 1
    /\ shardMap' = [shardMap EXCEPT ![u] = k]
    /\ settled' = [a \in Requests |-> IF pc[a] = "max" THEN 0 ELSE settled[a]]
    /\ UNCHANGED <<rows, replica, client, pc, shard, listed, raised, mustList, hit>>

(* Register, for a user who had no row.                                    *)
RegisterMaps(u) ==
    /\ shardMap[u] = None
    /\ ChangeMap(u, u % ShardCount)

(* ReshardUserHandler: "required" refuses shard 0.  The messages stay.     *)
ReshardUser(u, k) ==
    /\ k # 0 /\ k # shardMap[u]
    /\ ChangeMap(u, k)

(* A replica catches up with the master.                                   *)
Replicate(r) ==
    /\ replica' = [replica EXCEPT ![r] = [map |-> shardMap, rows |-> rows]]
    /\ UNCHANGED <<shardMap, rows, changes, client, pc, shard, listed, raised,
                   settled, mustList, hit>>

Goroutine(s) == Post(s) \/ Answer(s)
Serve(s)     == RunSaga(s) \/ LookUpMin(s) \/ LookUpMax(s) \/ InsertMessage(s)
ServeList(l) == LookUpMin(l) \/ LookUpMax(l) \/ ListMessages(l)

Next ==
    \/ \E s \in Sends : SendPublic(s) \/ Goroutine(s) \/ TimeOut(s) \/ BackendDies(s)
    \/ \E s \in Sends : Serve(s) \/ RaiseUnreadDialogs(s)
    \/ \E l \in Lists : BeginList(l) \/ ServeList(l)
    \/ \E a \in Requests : DialogsDies(a)
    \/ \E u \in Users : RegisterMaps(u)
    \/ \E u \in Reshards, k \in Numbers : ReshardUser(u, k)
    \/ \E r \in Replicas : Replicate(r)

Spec == Init /\ [][Next]_vars

(* The goroutine is scheduled, and statements and requests return; clients,*)
(* registrations and replicas owe nothing.                                 *)
FairSpec ==
    /\ Spec
    /\ \A s \in Sends : WF_vars(Goroutine(s)) /\ WF_vars(Serve(s))

-----------------------------------------------------------------------------
(* What getShardID is for: messages of one pair, sent either way, are in   *)
(* one table if their shards were looked up between the same two changes   *)
(* of shard_map, each without an error and with no replica behind.         *)
PairTogether ==
    \A i, j \in Tables : \A s \in rows[i], t \in rows[j] :
        Pair(s) = Pair(t) /\ settled[s] = settled[t] /\ settled[s] # 0 => i = j

(* A list that succeeds shows every message of the pair that all replicas  *)
(* had when it began, whoever sent it, if the shards of both were looked   *)
(* up between the same two changes of shard_map.                           *)
ListComplete ==
    \A l \in Lists : \A s \in mustList[l] :
        pc[l] = "ok" /\ settled[l] = settled[s] /\ settled[l] # 0 => s \in listed[l]

(* What the sender can make of silence and of a notification.  A send that *)
(* ends unreported and is not stored was answered with an error nobody     *)
(* looked at; unless something failed on the way, there was no table for   *)
(* its shard, or its process had no database.  A send that is reported as  *)
(* failed, stored or not, has met a failure.                               *)
SilenceAccounted ==
    \A s \in Sends :
        /\ client[s] = "done" /\ s \notin Stored =>
             \/ pc[s] = "panicked"
             \/ pc[s] = "error" /\ (s \in hit \/ shard[s] \notin Tables)
        /\ client[s] = "notified" => s \in hit

(* unread_dialogs is never raised for a message that is in no table.       *)
RaisedIsStored == raised \subseteq Stored

(* A send that was answered with 200 is settled in the end: the goroutine  *)
(* ends, whatever happens to the dialogs service.                          *)
AcceptedIsSettled ==
    \A s \in Sends :
        client[s] = "post" ~> client[s] \in {"done", "notified", "died"}

(* What the documents promise: "All messages between any pair of users     *)
(* always go to the same shard" (doc/DIALOG_SHARDING_ARCHITECTURE.md:11).  *)
OnePairOneShard ==
    \A i, j \in Tables : \A s \in rows[i], t \in rows[j] : Pair(s) = Pair(t) => i = j
=============================================================================
